--------------------------- MODULE Planner_proofs ---------------------------
(***************************************************************************)
(* Proofs about Planner: its safety invariants hold for every horizon,     *)
(* every set of requests and every pair of limits.                         *)
(*                                                                         *)
(* The argument: at every turn of the loops each reserved block, and each  *)
(* piece of the task at hand, stands where a block may stand, apart from   *)
(* the others, and what a task owns fits its duration.  Locks are          *)
(* reserved first and stay; a previous placement is treated once, when the *)
(* only other blocks are previous blocks too, and blocks only grow after   *)
(* that.  A plan that was returned thereby passes every check on previous  *)
(* blocks when it is sent back.                                            *)
(***************************************************************************)
EXTENDS Planner, FiniteSetTheorems, WellFoundedInduction, TLAPS

----------------------------------------------------------------------------
(* The inductive invariant.                                                *)

(* The phases in which locks have been reserved.                           *)
Planned == phase \in {"keep", "place", "done"}

PlTypes ==
    /\ PreviewRequest(request)
    /\ phase \in {"prepare", "locks", "keep", "place", "done", "refused"}
    /\ todo \subseteq Pending
    /\ blocks \subseteq Block /\ IsFiniteSet(blocks)
    /\ pieces \subseteq Block /\ IsFiniteSet(pieces)
    /\ budget \in Nat
    /\ replanned \in BOOLEAN

(* Nothing is reserved before the locks; pieces are held only while tasks  *)
(* are placed; whatever is planned was found acceptable.                   *)
Phases ==
    /\ ~Planned => blocks = {} /\ pieces = {} /\ unscheduled = {}
    /\ phase = "keep" => unscheduled = {}
    /\ phase # "place" => pieces = {}
    /\ phase = "done" => todo = {}
    /\ phase = "locks" \/ Planned => Acceptable

(* Where one block may stand, whatever else is taken.                      *)
Standing(b) ==
    /\ b.task \in Pending /\ b.start < b.end
    /\ ValidBlock(b, Floor, Free(Floor, {}, 0))

AllApart(S) == \A b, c \in S : b = c \/ Apart(b, c)

Layout ==
    /\ \A b \in blocks \cup pieces : Standing(b)
    /\ AllApart(blocks \cup pieces)
    /\ blocks \cap pieces = {}
    /\ Cardinality(blocks) + Cardinality(pieces) <= MaxBlocks

FitsDuration(t, own) ==
    /\ Total(own) <= request.tasks[t].minutes
    /\ own # {} /\ ~request.tasks[t].splittable =>
          Cardinality(own) = 1 /\ Total(own) = request.tasks[t].minutes

(* What a task owns fits it, also together with the pieces in hand, which  *)
(* are those of the task whose turn it is.                                 *)
Sizes ==
    /\ \A t \in Pending : FitsDuration(t, Own(t))
    /\ \A b \in pieces : Turn(b.task) /\ FitsDuration(b.task, Own(b.task) \cup pieces)

Sent(S) == {request.previous[i] : i \in S}

(* Locks are reserved, and what a task owns beyond them makes it whole.    *)
LocksStay ==
    Planned => \A t \in Pending :
        /\ Sent(Locks(t)) \subseteq blocks
        /\ Requested(t) = 0 \/ \A b \in Own(t) : b.locked

(* While earlier placements are kept, every block is an earlier one, and a *)
(* task not yet treated owns its locks alone.                              *)
Keeping ==
    phase = "keep" =>
        /\ blocks \subseteq Sent(DOMAIN request.previous)
        /\ \A t \in todo : Own(t) = Sent(Locks(t))
        /\ \A t \in Pending : \A i, j \in Locks(t) :
              i = j \/ Apart(request.previous[i], request.previous[j])

OthersSent(t) ==
    {b \in blocks : \E i \in DOMAIN request.previous : b = request.previous[i] /\ b.task # t}

(* An earlier placement that was treated stays, or has a lasting reason.   *)
Settled(t) ==
    \/ ~WholePlacement(t) \/ Sent(Previous(t)) \subseteq blocks
    \/ \E b \in Sent(Previous(t)) : ~ValidBlock(b, Floor, Free(Floor, OthersSent(t), 0))
    \/ \E i, j \in Previous(t) : i # j /\ ~Apart(request.previous[i], request.previous[j])

PreviousSettled ==
    \A t \in Pending :
        phase \in {"place", "done"} \/ (phase = "keep" /\ t \notin todo) => Settled(t)

(* A task is reported when it is given up, with all it still misses.       *)
Reported ==
    phase \in {"place", "done"} => \A t \in Pending :
        {u \in unscheduled : u.task = t} =
            IF t \in todo \/ Requested(t) = 0 THEN {}
            ELSE {[task |-> t, remaining |-> Requested(t)]}

(* The previous blocks of a request that was planned before are that plan; *)
(* what has not begun meanwhile may still stand where it stands, and only  *)
(* the clock can make the request be refused.                              *)
SentBack ==
    replanned =>
        /\ phase = "refused" => Overtaken
        /\ request.halfMinute < 2 * DayLength => Acceptable
        /\ DOMAIN request.previous = first
        /\ \A b \in first :
              LET p == request.previous[b]
              IN  /\ p.task = b.task /\ p.start = b.start /\ p.end = b.end
                  /\ p.task \in Pending
                  /\ Begun(b) \/ Standing(p)
        /\ \A b, c \in first : b = c \/ Apart(request.previous[b], request.previous[c])
        /\ \A t \in Pending :
              /\ PreviousMinutes(Previous(t)) <= request.tasks[t].minutes
              /\ Previous(t) # {} /\ ~request.tasks[t].splittable =>
                    /\ Cardinality(Previous(t)) = 1
                    /\ PreviousMinutes(Previous(t)) = request.tasks[t].minutes

PlInv ==
    /\ PlTypes /\ Phases /\ Layout /\ Sizes /\ LocksStay /\ Keeping
    /\ PreviousSettled /\ Reported /\ SentBack

----------------------------------------------------------------------------
(* Windows of minutes.                                                     *)

Times(w) == w.start \in Int /\ w.end \in Int
Work(w) == Times(w) /\ w.start < w.end

(* Windows that share no minute are apart, and the other way round.        *)
LEMMA ApartOfMinutes ==
  ASSUME NEW v, NEW w, Work(v), Work(w), \A m \in Minutes(v) : m \notin Minutes(w)
  PROVE  Apart(v, w)
<1>1. v.start \in Minutes(v) /\ w.start \in Minutes(w)
  BY DEF Minutes, Work, Times
<1>2. v.start \notin Minutes(w) /\ w.start \notin Minutes(v)
  BY <1>1
<1> QED BY <1>2 DEF Minutes, Work, Times, Apart

LEMMA MinutesOfApart ==
  ASSUME NEW v, NEW w, Work(v), Work(w), Apart(v, w)
  PROVE  v # w /\ \A m \in Minutes(v) : m \notin Minutes(w)
BY DEF Minutes, Work, Times, Apart

LEMMA ApartSymmetric ==
  ASSUME NEW v, NEW w, Apart(v, w)
  PROVE  Apart(w, v)
BY DEF Apart

(* Every event lies in the horizon, and the floor does.                    *)
LEMMA HorizonTypes ==
  ASSUME NEW minute \in Int
  PROVE  InHorizon(minute) \in 0..Size
BY SizeAssumption DEF InHorizon

LEMMA EventTypes ==
  ASSUME PreviewRequest(request)
  PROVE  \A e \in Events : Times(e)
<1> SUFFICES ASSUME NEW w \in request.events
             PROVE  Times(Clip(w))
  BY DEF Events
<1>1. w.start \in Int /\ w.end \in Int
  BY DEF PreviewRequest, Window
<1>2. InHorizon(w.start) \in Int /\ InHorizon(w.end) \in Int
  BY <1>1, HorizonTypes
<1> QED BY <1>2 DEF Clip, Times

LEMMA FloorType ==
  ASSUME PreviewRequest(request)
  PROVE  Floor \in 0..Size
<1>1. request.halfMinute \in Int
  BY DEF PreviewRequest
<1>2. (request.halfMinute + 1) \div 2 \in Int
  BY <1>1
<1> QED BY <1>2, HorizonTypes DEF Floor

LEMMA BoundTypes ==
  ASSUME PreviewRequest(request), NEW t \in Tasks, NEW floor \in Int
  PROVE  /\ Earliest(t, floor) \in 0..Size
         /\ Latest(t) \in 0..Size
         /\ floor >= 0 => Earliest(t, 0) <= Earliest(t, floor)
<1>1. request.tasks[t] \in TaskRecord
  BY DEF PreviewRequest, Tasks
<1>2. request.tasks[t].earliest \in Int /\ request.tasks[t].deadline \in Int
  BY <1>1 DEF TaskRecord
<1>3. Earliest(t, floor) \in 0..Size /\ Latest(t) \in 0..Size
  BY <1>2, HorizonTypes DEF Earliest, Latest
<1>4. floor >= 0 => Earliest(t, 0) <= Earliest(t, floor)
  BY <1>2, SizeAssumption DEF Earliest, InHorizon
<1> QED BY <1>3, <1>4

(* In a preview that is accepted, the first minute offered is not before   *)
(* now: the floor is not cut off by the end of the horizon.                *)
LEMMA FloorIsNotBeforeNow ==
  ASSUME PreviewRequest(request), Acceptable
  PROVE  2 * Floor >= request.halfMinute
<1> DEFINE up == (request.halfMinute + 1) \div 2
<1>1. request.halfMinute \in Int /\ request.halfMinute < 2 * DayLength
  BY DEF PreviewRequest, Acceptable
<1>2. DayLength \in Int /\ DayLength <= Size /\ Size \in Int
  BY SizeAssumption
<1>3. up \in Int /\ 2 * up >= request.halfMinute /\ up <= DayLength
  BY <1>1, <1>2
<1>4. Floor = IF up < 0 THEN 0 ELSE up
  BY <1>2, <1>3 DEF Floor, InHorizon
<1> QED BY <1>1, <1>3, <1>4

(* What is free beside taken work is free without it, and keeps its        *)
(* distance from each piece of it.                                         *)
LEMMA FreeShrinks ==
  ASSUME PreviewRequest(request), NEW taken, NEW fewer, fewer \subseteq taken,
         \A w \in taken : Times(w), NEW pause \in Nat
  PROVE  Free(Floor, taken, pause) \subseteq Free(Floor, fewer, 0)
<1> SUFFICES ASSUME NEW m \in Free(Floor, taken, pause)
             PROVE  m \in Free(Floor, fewer, 0)
  OBVIOUS
<1>1. m \in Available(Floor)
  BY DEF Free
<1>2. m \in Int
  BY <1>1, FloorType, SizeAssumption DEF Available
<1>3. ASSUME NEW w \in fewer \cup Events
      PROVE  m < w.start - 0 \/ m >= w.end + 0
  <2>1. w \in taken \cup Events
    BY <1>3
  <2>2. m < w.start - pause \/ m >= w.end + pause
    BY <2>1 DEF Free
  <2>3. Times(w)
    BY <2>1, EventTypes
  <2> QED BY <2>2, <2>3, <1>2 DEF Times
<1> QED BY <1>1, <1>3 DEF Free

LEMMA FreeIsApart ==
  ASSUME PreviewRequest(request), NEW taken, NEW w \in taken, Work(w),
         NEW b, Work(b), Minutes(b) \subseteq Free(Floor, taken, 0)
  PROVE  Apart(b, w) /\ b # w
<1>1. ASSUME NEW m \in Minutes(b)
      PROVE  m \notin Minutes(w)
  <2>1. m < w.start - 0 \/ m >= w.end + 0
    BY <1>1 DEF Free
  <2>2. m \in Int
    BY <1>1 DEF Minutes, Work, Times
  <2> QED BY <2>1, <2>2 DEF Minutes, Work, Times
<1>2. Apart(b, w)
  BY <1>1, ApartOfMinutes
<1> QED BY <1>2 DEF Apart, Work, Times

LEMMA ApartIsFree ==
  ASSUME PreviewRequest(request), NEW taken, \A w \in taken : Work(w),
         NEW b, Work(b), Minutes(b) \subseteq Free(Floor, {}, 0),
         \A w \in taken : Apart(b, w)
  PROVE  Minutes(b) \subseteq Free(Floor, taken, 0)
<1> SUFFICES ASSUME NEW m \in Minutes(b)
             PROVE  m \in Free(Floor, taken, 0)
  OBVIOUS
<1>1. m \in Free(Floor, {}, 0)
  OBVIOUS
<1>2. m \in Available(Floor) /\ \A e \in Events : m < e.start - 0 \/ m >= e.end + 0
  BY <1>1 DEF Free
<1>3. ASSUME NEW w \in taken
      PROVE  m < w.start - 0 \/ m >= w.end + 0
  <2>1. Work(w) /\ Apart(b, w)
    BY <1>3
  <2> QED BY <2>1 DEF Minutes, Work, Times, Apart
<1> QED BY <1>2, <1>3 DEF Free

----------------------------------------------------------------------------
(* Sums of minutes, as the sizes of disjoint unions.                       *)

Marked(ws) == UNION {{w} \X Minutes(w) : w \in ws}

LEMMA MarkedOfOne ==
  ASSUME NEW x, NEW w, Work(w)
  PROVE  /\ IsFiniteSet({x} \X Minutes(w))
         /\ Cardinality({x} \X Minutes(w)) = Length(w)
<1>1. IsFiniteSet({x}) /\ Cardinality({x}) = 1
  BY FS_Singleton
<1>2. w.start \in Int /\ w.end - 1 \in Int /\ w.start <= w.end - 1
  BY DEF Work, Times
<1>3. IsFiniteSet(Minutes(w)) /\ Cardinality(Minutes(w)) = (w.end - 1) - w.start + 1
  BY <1>2, FS_Interval DEF Minutes
<1>4. IsFiniteSet({x} \X Minutes(w))
      /\ Cardinality({x} \X Minutes(w)) = 1 * Cardinality(Minutes(w))
  BY <1>1, <1>3, FS_Product
<1>5. 1 * ((w.end - 1) - w.start + 1) = w.end - w.start
  BY DEF Work, Times
<1> QED BY <1>3, <1>4, <1>5 DEF Length

LEMMA MarkedFinite ==
  ASSUME NEW ws, IsFiniteSet(ws), \A w \in ws : Work(w)
  PROVE  IsFiniteSet(Marked(ws))
<1> DEFINE bags == {{w} \X Minutes(w) : w \in ws}
           f == [w \in ws |-> {w} \X Minutes(w)]
<1>1. f \in Surjection(ws, bags)
  BY DEF Surjection
<1>2. IsFiniteSet(bags)
  BY <1>1, FS_Surjection
<1>3. \A B \in bags : IsFiniteSet(B)
  BY MarkedOfOne
<1>4. IsFiniteSet(UNION bags)
  <2> HIDE DEF bags
  <2> QED BY <1>2, <1>3, FS_UNION
<1> QED BY <1>4 DEF Marked

LEMMA TotalType ==
  ASSUME NEW ws, IsFiniteSet(ws), \A w \in ws : Work(w)
  PROVE  Total(ws) \in Nat
BY MarkedFinite, FS_CardinalityType DEF Total, Marked

LEMMA TotalOfNone ==
  Total({}) = 0
<1>1. UNION {{w} \X Minutes(w) : w \in {}} = {}
  OBVIOUS
<1> QED BY <1>1, FS_EmptySet DEF Total

LEMMA TotalOfOne ==
  ASSUME NEW w, Work(w)
  PROVE  Total({w}) = Length(w)
<1>1. UNION {{v} \X Minutes(v) : v \in {w}} = {w} \X Minutes(w)
  OBVIOUS
<1> QED BY <1>1, MarkedOfOne DEF Total

LEMMA TotalOfBoth ==
  ASSUME NEW vs, IsFiniteSet(vs), \A w \in vs : Work(w),
         NEW ws, IsFiniteSet(ws), \A w \in ws : Work(w), vs \cap ws = {}
  PROVE  Total(vs \cup ws) = Total(vs) + Total(ws)
<1>1. Marked(vs \cup ws) = Marked(vs) \cup Marked(ws)
  BY DEF Marked
<1>2. Marked(vs) \cap Marked(ws) = {}
  BY DEF Marked
<1>3. IsFiniteSet(Marked(vs)) /\ IsFiniteSet(Marked(ws))
  BY MarkedFinite
<1>4. Cardinality(Marked(vs) \cup Marked(ws))
        = Cardinality(Marked(vs)) + Cardinality(Marked(ws)) - Cardinality({})
  BY <1>2, <1>3, FS_Union
<1>5. Cardinality({}) = 0
  BY FS_EmptySet
<1>6. Cardinality(Marked(vs)) \in Nat /\ Cardinality(Marked(ws)) \in Nat
  BY <1>3, FS_CardinalityType
<1>7. Total(vs) = Cardinality(Marked(vs)) /\ Total(ws) = Cardinality(Marked(ws))
      /\ Total(vs \cup ws) = Cardinality(Marked(vs \cup ws))
  BY DEF Total, Marked
<1>8. Cardinality(Marked(vs)) + Cardinality(Marked(ws)) - 0
        = Cardinality(Marked(vs)) + Cardinality(Marked(ws))
  BY <1>6
<1> QED BY <1>1, <1>4, <1>5, <1>7, <1>8

LEMMA TotalGrows ==
  ASSUME NEW ws, IsFiniteSet(ws), \A w \in ws : Work(w), NEW vs, vs \subseteq ws
  PROVE  Total(vs) <= Total(ws)
<1>1. Marked(vs) \subseteq Marked(ws)
  BY DEF Marked
<1>2. IsFiniteSet(Marked(ws))
  BY MarkedFinite
<1>3. Cardinality(Marked(vs)) <= Cardinality(Marked(ws))
  BY <1>1, <1>2, FS_Subset
<1> QED BY <1>3 DEF Total, Marked

(* Blocks sent under different names that are apart are different blocks,  *)
(* so that they are as many, and as long, as their names say.              *)
Indexed(S) == UNION {{i} \X Minutes(request.previous[i]) : i \in S}

LEMMA IndexedFinite ==
  ASSUME NEW S, IsFiniteSet(S), \A i \in S : Work(request.previous[i])
  PROVE  IsFiniteSet(Indexed(S)) /\ PreviousMinutes(S) \in Nat
<1> DEFINE bags == {{i} \X Minutes(request.previous[i]) : i \in S}
           f == [i \in S |-> {i} \X Minutes(request.previous[i])]
<1>1. f \in Surjection(S, bags)
  BY DEF Surjection
<1>2. IsFiniteSet(bags)
  BY <1>1, FS_Surjection
<1>3. \A B \in bags : IsFiniteSet(B)
  BY MarkedOfOne
<1>4. IsFiniteSet(UNION bags)
  <2> HIDE DEF bags
  <2> QED BY <1>2, <1>3, FS_UNION
<1>5. Cardinality(UNION bags) \in Nat
  BY <1>4, FS_CardinalityType
<1> QED BY <1>4, <1>5 DEF Indexed, PreviousMinutes

LEMMA PreviousMinutesGrow ==
  ASSUME NEW S, IsFiniteSet(S), \A i \in S : Work(request.previous[i]), NEW R, R \subseteq S
  PROVE  PreviousMinutes(R) <= PreviousMinutes(S)
<1>1. Indexed(R) \subseteq Indexed(S)
  BY DEF Indexed
<1>2. Cardinality(Indexed(R)) <= Cardinality(Indexed(S))
  BY <1>1, IndexedFinite, FS_Subset
<1> QED BY <1>2 DEF Indexed, PreviousMinutes

LEMMA SentSizes ==
  ASSUME NEW S, IsFiniteSet(S), \A i \in S : Work(request.previous[i]),
         \A i, j \in S : i = j \/ Apart(request.previous[i], request.previous[j])
  PROVE  /\ IsFiniteSet(Sent(S))
         /\ Cardinality(Sent(S)) = Cardinality(S)
         /\ Total(Sent(S)) = PreviousMinutes(S)
<1> DEFINE f == [i \in S |-> request.previous[i]]
           g == [p \in Indexed(S) |-> <<request.previous[p[1]], p[2]>>]
<1>1. \A i, j \in S : request.previous[i] = request.previous[j] => i = j
  BY MinutesOfApart
<1>2. f \in Bijection(S, Sent(S))
  <2>1. f \in [S -> Sent(S)]
    BY DEF Sent
  <2>2. \A i, j \in S : f[i] = f[j] => i = j
    BY <1>1
  <2>3. \A b \in Sent(S) : \E i \in S : f[i] = b
    BY DEF Sent
  <2> HIDE DEF f
  <2> QED BY <2>1, <2>2, <2>3 DEF Bijection, Injection, Surjection, IsInjective
<1>3. ExistsBijection(S, Sent(S))
  BY <1>2 DEF ExistsBijection
<1>4. IsFiniteSet(Sent(S)) /\ Cardinality(Sent(S)) = Cardinality(S)
  BY <1>3, FS_Bijection
<1>5. g \in Bijection(Indexed(S), Marked(Sent(S)))
  <2>1. \A p \in Indexed(S) : /\ p = <<p[1], p[2]>> /\ p[1] \in S
                              /\ p[2] \in Minutes(request.previous[p[1]])
    BY DEF Indexed
  <2>2. \A p \in Indexed(S) : g[p] \in Marked(Sent(S))
    BY <2>1 DEF Marked, Sent
  <2>3. ASSUME NEW p \in Indexed(S), NEW q \in Indexed(S), g[p] = g[q]
        PROVE  p = q
    <3>1. request.previous[p[1]] = request.previous[q[1]] /\ p[2] = q[2]
      BY <2>3
    <3>2. p[1] = q[1]
      BY <3>1, <1>1, <2>1
    <3> QED BY <3>1, <3>2, <2>1
  <2>4. ASSUME NEW x \in Marked(Sent(S))
        PROVE  \E p \in Indexed(S) : g[p] = x
    <3>1. PICK w \in Sent(S) : x \in {w} \X Minutes(w)
      BY DEF Marked
    <3>2. PICK i \in S : w = request.previous[i]
      BY DEF Sent
    <3>3. PICK m \in Minutes(w) : x = <<w, m>>
      BY <3>1
    <3>4. <<i, m>> \in Indexed(S)
      BY <3>2, <3>3 DEF Indexed
    <3> QED BY <3>2, <3>3, <3>4
  <2>5. g \in [Indexed(S) -> Marked(Sent(S))]
    BY <2>2
  <2> HIDE DEF g
  <2> QED BY <2>3, <2>4, <2>5 DEF Bijection, Injection, Surjection, IsInjective
<1>6. Cardinality(Marked(Sent(S))) = Cardinality(Indexed(S))
  <2> HIDE DEF g
  <2> QED BY <1>5, IndexedFinite, FS_Bijection DEF ExistsBijection
<1> QED BY <1>4, <1>6 DEF Total, Marked, PreviousMinutes, Indexed

----------------------------------------------------------------------------
(* What the steps of one calculation leave alone: its request.             *)

SameGrid ==
    /\ Pending' = Pending /\ Tasks' = Tasks /\ Floor' = Floor
    /\ Acceptable' = Acceptable
    /\ \A b : Standing(b)' = Standing(b)
    /\ \A taken : Free(Floor, taken, 0)' = Free(Floor, taken, 0)
    /\ \A b, free : ValidBlock(b, Floor, free)' = ValidBlock(b, Floor, free)
    /\ \A t, own : FitsDuration(t, own)' = FitsDuration(t, own)
    /\ \A s, t : Before(s, t)' = Before(s, t)

SamePrevious ==
    /\ \A t : Previous(t)' = Previous(t) /\ Locks(t)' = Locks(t)
    /\ \A S : Sent(S)' = Sent(S) /\ PreviousMinutes(S)' = PreviousMinutes(S)
    /\ \A t : WholePlacement(t)' = WholePlacement(t)

LEMMA GridStays ==
  ASSUME request'.halfMinute = request.halfMinute, request'.tasks = request.tasks,
         request'.availability = request.availability, request'.events = request.events
  PROVE  SameGrid
<1>1. Pending' = Pending /\ Tasks' = Tasks /\ Floor' = Floor /\ Events' = Events
  BY DEF Pending, Tasks, Floor, Events
<1>2. Acceptable' = Acceptable
  BY <1>1 DEF Acceptable
<1>3. \A floor : Available(floor)' = Available(floor)
  BY <1>1 DEF Available
<1>4. \A taken : Free(Floor, taken, 0)' = Free(Floor, taken, 0)
  BY <1>1, <1>3 DEF Free
<1>5. \A b, free : ValidBlock(b, Floor, free)' = ValidBlock(b, Floor, free)
  BY <1>1 DEF ValidBlock, Earliest, Latest
<1>6. \A b : Standing(b)' = Standing(b)
  BY <1>1, <1>4, <1>5 DEF Standing
<1>7. \A t, own : FitsDuration(t, own)' = FitsDuration(t, own)
  BY DEF FitsDuration
<1>8. \A s, t : Before(s, t)' = Before(s, t)
  BY DEF Before
<1> QED BY <1>1, <1>2, <1>4, <1>5, <1>6, <1>7, <1>8 DEF SameGrid

LEMMA PreviousStays ==
  ASSUME request' = request
  PROVE  SamePrevious
BY DEF SamePrevious, Previous, Locks, Sent, PreviousMinutes, WholePlacement

LEMMA LayoutStays ==
  ASSUME Layout, SameGrid, UNCHANGED <<blocks, pieces>>
  PROVE  Layout'
BY DEF Layout, SameGrid, AllApart, Apart

LEMMA SentBackStays ==
  ASSUME SentBack, SameGrid, SamePrevious, UNCHANGED <<request, replanned, first>>,
         replanned /\ phase' = "refused" => Overtaken
  PROVE  SentBack'
<1> SUFFICES ASSUME replanned
             PROVE  SentBack'
  BY DEF SentBack
<1>1. /\ phase' = "refused" => Overtaken'
      /\ request'.halfMinute < 2 * DayLength => Acceptable'
      /\ DOMAIN request'.previous = first'
  BY DEF SentBack, SameGrid, Overtaken, Begun
<1>2. \A b \in first' :
        /\ request'.previous[b].task = b.task /\ request'.previous[b].start = b.start
        /\ request'.previous[b].end = b.end /\ request'.previous[b].task \in Pending'
        /\ Begun(b)' \/ Standing(request.previous[b])'
  BY DEF SentBack, SameGrid, Begun
<1>3. \A b, c \in first' : b = c \/ Apart(request.previous[b], request.previous[c])
  BY DEF SentBack
<1>4. \A t \in Pending' :
        /\ PreviousMinutes(Previous(t))' = PreviousMinutes(Previous(t))
        /\ Previous(t)' = Previous(t)
        /\ PreviousMinutes(Previous(t)) <= request.tasks[t].minutes
        /\ Previous(t) # {} /\ ~request.tasks[t].splittable =>
              /\ Cardinality(Previous(t)) = 1
              /\ PreviousMinutes(Previous(t)) = request.tasks[t].minutes
  BY DEF SentBack, SameGrid, SamePrevious, PreviousMinutes, Previous
<1> QED BY <1>1, <1>2, <1>3, <1>4 DEF SentBack, Apart

(* Whatever is reserved later, a previous placement that was settled stays *)
(* settled: other work only takes minutes away.                            *)
LEMMA SettledStays ==
  ASSUME PreviewRequest(request), request' = request, NEW t, Settled(t),
         blocks \subseteq blocks', \A b \in blocks' : Times(b)
  PROVE  Settled(t)'
<1>1. SameGrid /\ SamePrevious
  BY GridStays, PreviousStays
<1>2. Sent(Previous(t))' = Sent(Previous(t)) /\ Previous(t)' = Previous(t)
  BY DEF Sent, Previous
<1>3. CASE ~WholePlacement(t) \/ Sent(Previous(t)) \subseteq blocks
  BY <1>1, <1>2, <1>3 DEF Settled, SamePrevious
<1>4. CASE \E i, j \in Previous(t) : i # j /\ ~Apart(request.previous[i], request.previous[j])
  <2>1. (\E i, j \in Previous(t) : i # j /\ ~Apart(request.previous[i], request.previous[j]))'
    BY <1>2, <1>4 DEF Apart
  <2> QED BY <2>1 DEF Settled
<1>5. CASE \E b \in Sent(Previous(t)) : ~ValidBlock(b, Floor, Free(Floor, OthersSent(t), 0))
  <2>1. PICK b \in Sent(Previous(t)) : ~ValidBlock(b, Floor, Free(Floor, OthersSent(t), 0))
    BY <1>5
  <2>2. PICK more : more = OthersSent(t)'
    OBVIOUS
  <2>3. OthersSent(t) \subseteq more /\ \A w \in more : Times(w)
    BY <2>2 DEF OthersSent
  <2>4. Free(Floor, more, 0) \subseteq Free(Floor, OthersSent(t), 0)
    BY <2>3, FreeShrinks
  <2>5. ~ValidBlock(b, Floor, Free(Floor, more, 0))
    BY <2>1, <2>4 DEF ValidBlock
  <2>6. ~ValidBlock(b, Floor, Free(Floor, OthersSent(t), 0))'
    BY <2>2, <2>5 DEF ValidBlock, Earliest, Latest, Minutes, Floor, Free, Available, Events, OthersSent
  <2> QED BY <2>6, <1>2 DEF Settled
<1> QED BY <1>3, <1>4, <1>5 DEF Settled

LEMMA PreviousWork ==
  ASSUME PreviewRequest(request)
  PROVE  /\ IsFiniteSet(DOMAIN request.previous)
         /\ Cardinality(DOMAIN request.previous) <= MaxBlocks
         /\ \A i \in DOMAIN request.previous :
               request.previous[i] \in Block /\ Work(request.previous[i])
<1>1. \A i \in DOMAIN request.previous : request.previous[i] \in Block
  BY DEF PreviewRequest
<1>2. \A i \in DOMAIN request.previous : Work(request.previous[i])
  BY <1>1 DEF PreviewRequest, Block, Work, Times
<1> QED BY <1>1, <1>2 DEF PreviewRequest

LEMMA StandingWork ==
  ASSUME NEW b \in Block, Standing(b)
  PROVE  Work(b)
BY DEF Standing, Block, Work, Times

LEMMA DurationTypes ==
  ASSUME PreviewRequest(request), NEW t \in Pending
  PROVE  /\ request.tasks[t].minutes \in Nat \ {0}
         /\ request.tasks[t].splittable \in BOOLEAN
         /\ t \in Tasks
BY DEF PreviewRequest, Pending, Tasks, TaskRecord

(* The order of tasks is strict, so that it is the turn of one task.       *)
LEMMA OneTurn ==
  ASSUME PreviewRequest(request), todo \subseteq Pending, NEW s, NEW t, Turn(s), Turn(t)
  PROVE  s = t
<1> SUFFICES ASSUME s # t
             PROVE  FALSE
  OBVIOUS
<1>1. s \in Tasks /\ t \in Tasks /\ Before(s, t) /\ Before(t, s)
  BY DEF Turn, Pending
<1>2. s \in Int /\ t \in Int /\ request.tasks[s] \in TaskRecord /\ request.tasks[t] \in TaskRecord
  BY <1>1 DEF PreviewRequest, Tasks, Task
<1>3. \A u \in {s, t} : request.tasks[u].deadline \in Int /\ request.tasks[u].priority \in Int
  BY <1>2 DEF TaskRecord
<1> QED BY <1>1, <1>2, <1>3, SizeAssumption DEF Before

----------------------------------------------------------------------------
(* The steps, one by one.                                                  *)

LEMMA InitInv ==
  ASSUME Init
  PROVE  PlInv
<1>1. PreviewRequest(request) /\ blocks = {} /\ pieces = {} /\ unscheduled = {}
      /\ todo = {} /\ phase = "prepare" /\ ~replanned /\ budget \in Nat
  BY RequestAssumption, PlannerLimits DEF Init
<1>2. IsFiniteSet({}) /\ Cardinality({}) = 0
  BY FS_EmptySet
<1>3. PlTypes /\ Phases
  BY <1>1, <1>2 DEF PlTypes, Phases, Planned, Init
<1>4. Layout
  BY <1>1, <1>2, PlannerLimits DEF Layout, AllApart
<1>5. \A t \in Pending : Own(t) = {}
  BY <1>1 DEF Own
<1>6. Sizes
  BY <1>1, <1>5, TotalOfNone, DurationTypes DEF Sizes, FitsDuration
<1>7. LocksStay /\ Keeping /\ PreviousSettled /\ Reported /\ SentBack
  BY <1>1 DEF LocksStay, Keeping, PreviousSettled, Reported, SentBack, Planned
<1> QED BY <1>3, <1>4, <1>6, <1>7 DEF PlInv

(* Nothing has been reserved before the locks, so nothing need fit.        *)
LEMMA SizesStay ==
  ASSUME Sizes, SameGrid, UNCHANGED blocks, pieces' = {}
  PROVE  Sizes'
BY DEF Sizes, SameGrid, Own

LEMMA PrepareInv ==
  ASSUME PlInv, Prepare
  PROVE  PlInv'
<1>1. SameGrid /\ SamePrevious
  BY GridStays, PreviousStays DEF Prepare
<1>2. blocks = {} /\ pieces = {} /\ unscheduled = {} /\ phase = "prepare"
  BY DEF PlInv, Phases, Planned, Prepare
<1>3. phase' \in {"locks", "refused"} /\ (phase' = "locks" => Acceptable)
      /\ (replanned /\ phase' = "refused" => Overtaken)
  <2>1. request.halfMinute \in Int /\ 2 * DayLength \in Int
    BY SizeAssumption DEF PlInv, PlTypes, PreviewRequest
  <2> QED BY <2>1 DEF Prepare, PlInv, SentBack, Overtaken
<1>4. PlTypes'
  BY <1>1, <1>3 DEF PlInv, PlTypes, Prepare, SameGrid
<1>5. Phases'
  BY <1>1, <1>2, <1>3 DEF Prepare, Phases, Planned, SameGrid
<1>6. Layout'
  BY <1>1, LayoutStays DEF PlInv, Prepare
<1>7. Sizes'
  BY <1>1, <1>2, SizesStay DEF PlInv, Prepare
<1>8. SentBack'
  BY <1>1, <1>3, SentBackStays DEF PlInv, Prepare
<1>9. LocksStay' /\ Keeping' /\ PreviousSettled' /\ Reported'
  BY <1>3 DEF LocksStay, Keeping, PreviousSettled, Reported, Planned
<1> QED BY <1>4, <1>5, <1>6, <1>7, <1>8, <1>9 DEF PlInv

(* The blocks of a plan that was returned, and that time has not passed,   *)
(* are all good locks.                                                     *)
LEMMA SentBackFits ==
  ASSUME PreviewRequest(request), SentBack, replanned, ~Overtaken
  PROVE  LocksFit
<1> DEFINE locks == UNION {Locks(t) : t \in Pending}
<1>1. \A t \in Pending : Locks(t) \subseteq Previous(t) /\ Previous(t) \subseteq first
                         /\ IsFiniteSet(Previous(t))
  <2>1. \A t \in Pending : Locks(t) \subseteq Previous(t) /\ Previous(t) \subseteq first
    BY DEF Locks, Previous, SentBack
  <2>2. IsFiniteSet(first)
    BY PreviousWork DEF SentBack
  <2> QED BY <2>1, <2>2, FS_Subset
<1>2. \A i \in first : Work(request.previous[i])
  BY PreviousWork DEF SentBack
<1>3. \A i \in locks : ValidBlock(request.previous[i], Floor, Free(Floor, {}, 0))
  <2>1. \A i \in locks : i \in first /\ request.previous[i].locked
    BY <1>1 DEF Locks
  <2> QED BY <2>1 DEF SentBack, Standing, Overtaken
<1>4. \A i, j \in locks : i = j \/ Apart(request.previous[i], request.previous[j])
  BY <1>1 DEF SentBack
<1>5. ASSUME NEW t \in Pending
      PROVE  LockFits(t)
  <2>1. Locks(t) \subseteq Previous(t) /\ IsFiniteSet(Previous(t))
        /\ \A i \in Previous(t) : Work(request.previous[i])
    BY <1>1, <1>2
  <2>2. PreviousMinutes(Locks(t)) <= PreviousMinutes(Previous(t))
    BY <2>1, PreviousMinutesGrow
  <2>3. PreviousMinutes(Locks(t)) \in Nat /\ PreviousMinutes(Previous(t)) \in Nat
    <3>1. IsFiniteSet(Locks(t))
      BY <2>1, FS_Subset
    <3> QED BY <2>1, <3>1, IndexedFinite
  <2>4. PreviousMinutes(Locks(t)) <= request.tasks[t].minutes
    BY <2>2, <2>3, DurationTypes DEF SentBack
  <2>5. ASSUME Locks(t) # {}, ~request.tasks[t].splittable
        PROVE  Cardinality(Locks(t)) = 1 /\ PreviousMinutes(Locks(t)) = request.tasks[t].minutes
    <3>1. Cardinality(Previous(t)) = 1 /\ PreviousMinutes(Previous(t)) = request.tasks[t].minutes
      BY <2>1, <2>5 DEF SentBack
    <3>2. PICK i : Previous(t) = {i}
      BY <2>1, <3>1, FS_Singleton
    <3>3. Locks(t) = Previous(t)
      BY <2>1, <2>5, <3>2
    <3> QED BY <3>1, <3>3
  <2> QED BY <2>4, <2>5 DEF LockFits
<1> QED BY <1>3, <1>4, <1>5 DEF LocksFit

LEMMA ReserveLocksInv ==
  ASSUME PlInv, ReserveLocks
  PROVE  PlInv'
<1> DEFINE locks == UNION {Locks(t) : t \in Pending}
<1>1. SameGrid /\ SamePrevious
  BY GridStays, PreviousStays DEF ReserveLocks
<1>2. blocks = {} /\ pieces = {} /\ unscheduled = {} /\ phase = "locks"
  BY DEF PlInv, Phases, Planned, ReserveLocks
<1>3. PreviewRequest(request) /\ Acceptable
  BY <1>2 DEF PlInv, PlTypes, Phases
<1>4. CASE ~LocksFit
  <2>1. phase' = "refused" /\ UNCHANGED <<blocks, todo>>
    BY <1>4 DEF ReserveLocks
  <2>2. replanned => Overtaken
    BY <1>3, <1>4, SentBackFits DEF PlInv
  <2>3. PlTypes'
    BY <1>1, <2>1 DEF PlInv, PlTypes, ReserveLocks, SameGrid
  <2>4. Phases'
    BY <1>2, <2>1 DEF ReserveLocks, Phases, Planned
  <2>5. Layout'
    BY <1>1, <2>1, LayoutStays DEF PlInv, ReserveLocks
  <2>6. Sizes'
    BY <1>1, <1>2, <2>1, SizesStay DEF PlInv, ReserveLocks
  <2>7. SentBack'
    BY <1>1, <2>2, SentBackStays DEF PlInv, ReserveLocks
  <2>8. LocksStay' /\ Keeping' /\ PreviousSettled' /\ Reported'
    BY <2>1 DEF LocksStay, Keeping, PreviousSettled, Reported, Planned
  <2> QED BY <2>3, <2>4, <2>5, <2>6, <2>7, <2>8 DEF PlInv
<1>5. CASE LocksFit
  <2>1. phase' = "keep" /\ todo' = Pending /\ blocks' = Sent(locks)
    BY <1>5 DEF ReserveLocks, Sent
  <2>2. /\ locks \subseteq DOMAIN request.previous /\ IsFiniteSet(locks)
        /\ Cardinality(locks) <= MaxBlocks
        /\ \A i \in locks : Work(request.previous[i])
    <3>1. locks \subseteq DOMAIN request.previous
      BY DEF Locks, Previous
    <3>2. IsFiniteSet(locks) /\ Cardinality(locks) <= Cardinality(DOMAIN request.previous)
      BY <3>1, <1>3, PreviousWork, FS_Subset
    <3>3. Cardinality(locks) \in Nat /\ Cardinality(DOMAIN request.previous) \in Nat
      BY <3>2, <1>3, PreviousWork, FS_CardinalityType
    <3> QED BY <3>1, <3>2, <3>3, <1>3, PreviousWork, PlannerLimits
  <2>3. \A i, j \in locks : i = j \/ Apart(request.previous[i], request.previous[j])
    BY <1>5 DEF LocksFit
  <2>4. IsFiniteSet(Sent(locks)) /\ Cardinality(Sent(locks)) = Cardinality(locks)
    <3> HIDE DEF locks
    <3> QED BY <2>2, <2>3, SentSizes
  <2>5. PlTypes'
    <3>1. blocks' \subseteq Block
      BY <2>1, <2>2, <1>3, PreviousWork DEF Sent
    <3> QED BY <1>1, <1>3, <2>1, <2>4, <3>1 DEF PlInv, PlTypes, ReserveLocks, SameGrid
  <2>6. Phases'
    BY <1>1, <1>2, <1>3, <2>1 DEF ReserveLocks, Phases, Planned, SameGrid
  <2>7. Layout'
    <3>1. \A b \in blocks' : Standing(b)
      <4> SUFFICES ASSUME NEW t \in Pending, NEW i \in Locks(t)
                   PROVE  Standing(request.previous[i])
        BY <2>1 DEF Sent
      <4>1. request.previous[i].task = t /\ i \in locks
        BY DEF Locks, Previous
      <4>2. ValidBlock(request.previous[i], Floor, Free(Floor, {}, 0))
        BY <4>1, <1>5 DEF LocksFit
      <4> QED BY <4>1, <4>2, <2>2 DEF Standing, Work
    <3>2. AllApart(blocks')
      BY <2>1, <2>3 DEF AllApart, Sent
    <3>3. pieces' = {} /\ Cardinality({}) = 0 /\ Cardinality(blocks') \in Nat
      BY <1>2, <2>1, <2>4, FS_EmptySet, FS_CardinalityType DEF ReserveLocks
    <3>4. Cardinality(blocks') + Cardinality(pieces') <= MaxBlocks
      BY <2>1, <2>2, <2>4, <3>3, PlannerLimits
    <3>5. (\A b \in blocks \cup pieces : Standing(b))' /\ AllApart(blocks \cup pieces)'
      BY <3>1, <3>2, <3>3, <1>1 DEF SameGrid, AllApart, Apart
    <3> QED BY <3>3, <3>4, <3>5 DEF Layout
  <2>8. \A t \in Pending : Own(t)' = Sent(Locks(t))
    BY <2>1 DEF Own, Sent, Locks, Previous
  <2>9. ASSUME NEW t \in Pending
        PROVE  FitsDuration(t, Sent(Locks(t)))
    <3>1. Locks(t) \subseteq locks
      OBVIOUS
    <3>2. IsFiniteSet(Locks(t)) /\ \A i \in Locks(t) : Work(request.previous[i])
      BY <3>1, <2>2, FS_Subset
    <3>3. \A i, j \in Locks(t) : i = j \/ Apart(request.previous[i], request.previous[j])
      BY <3>1, <2>3
    <3>4. Cardinality(Sent(Locks(t))) = Cardinality(Locks(t))
          /\ Total(Sent(Locks(t))) = PreviousMinutes(Locks(t))
      BY <3>2, <3>3, SentSizes
    <3>5. Sent(Locks(t)) # {} => Locks(t) # {}
      BY DEF Sent
    <3>6. LockFits(t)
      BY <1>5 DEF LocksFit
    <3> QED BY <3>4, <3>5, <3>6 DEF LockFits, FitsDuration
  <2>10. Sizes'
    BY <2>8, <2>9, <1>1, <1>2 DEF Sizes, SameGrid, ReserveLocks
  <2>11. LocksStay'
    <3>1. ASSUME NEW t \in Pending
          PROVE  Sent(Locks(t)) \subseteq blocks' /\ \A b \in Own(t)' : b.locked
      BY <2>1, <2>8 DEF Sent, Locks
    <3>2. \A t \in Pending : Sent(Locks(t))' = Sent(Locks(t))
      BY <1>1 DEF SamePrevious, Sent, Locks, Previous, ReserveLocks
    <3> QED BY <3>1, <3>2, <1>1 DEF LocksStay, SameGrid
  <2>12. Keeping'
    <3>1. blocks' \subseteq Sent(DOMAIN request.previous)'
      BY <2>1, <2>2 DEF Sent, ReserveLocks
    <3>2. \A t \in Pending : (Own(t) = Sent(Locks(t)))'
      BY <2>8 DEF Sent, Locks, Previous, ReserveLocks
    <3>3. \A t \in Pending : \A i, j \in Locks(t) :
             i = j \/ Apart(request.previous[i], request.previous[j])
      BY <2>3
    <3>4. \A t \in Pending : (\A i, j \in Locks(t) :
             i = j \/ Apart(request.previous[i], request.previous[j]))'
      BY <3>3 DEF Locks, Previous, Apart, ReserveLocks
    <3> QED BY <2>1, <3>1, <3>2, <3>4, <1>1 DEF Keeping, SameGrid
  <2>13. PreviousSettled' /\ Reported'
    BY <2>1, <1>1 DEF PreviousSettled, Reported, SameGrid
  <2>14. SentBack'
    BY <1>1, <2>1, SentBackStays DEF PlInv, ReserveLocks
  <2> QED BY <2>5, <2>6, <2>7, <2>10, <2>11, <2>12, <2>13, <2>14 DEF PlInv
<1> QED BY <1>4, <1>5

LEMMA SentBound ==
  ASSUME NEW S, IsFiniteSet(S)
  PROVE  IsFiniteSet(Sent(S)) /\ Cardinality(Sent(S)) <= Cardinality(S)
<1> DEFINE f == [i \in S |-> request.previous[i]]
<1>1. f \in Surjection(S, Sent(S))
  BY DEF Surjection, Sent
<1> HIDE DEF f
<1> QED BY <1>1, FS_Surjection

(* A block that stands beside the reserved ones stands, and is apart from  *)
(* each of them.                                                           *)
LEMMA BesideBlocks ==
  ASSUME PreviewRequest(request), NEW taken, \A w \in taken : Work(w), NEW pause \in Nat,
         NEW b, Work(b), b.task \in Pending, ValidBlock(b, Floor, Free(Floor, taken, pause))
  PROVE  Standing(b) /\ \A w \in taken : Apart(b, w) /\ Apart(w, b) /\ b # w
<1>1. \A w \in taken : Times(w)
  BY DEF Work
<1>2. Free(Floor, taken, pause) \subseteq Free(Floor, {}, 0)
      /\ Free(Floor, taken, pause) \subseteq Free(Floor, taken, 0)
  BY <1>1, FreeShrinks
<1>3. Standing(b)
  BY <1>2 DEF Standing, ValidBlock, Work
<1>4. Minutes(b) \subseteq Free(Floor, taken, 0)
  BY <1>2 DEF ValidBlock
<1>5. \A w \in taken : Apart(b, w) /\ b # w
  BY <1>4, FreeIsApart
<1> QED BY <1>3, <1>5, ApartSymmetric

(* A whole placement that is not kept has a reason that will last.         *)
LEMMA NotKeptIsSettled ==
  ASSUME PlInv, NEW t \in todo, phase = "keep",
         ~ /\ WholePlacement(t)
           /\ \A b \in Sent(Previous(t) \ Locks(t)) : ValidBlock(b, Floor, Free(Floor, blocks, 0))
           /\ \A i, j \in Previous(t) \ Locks(t) :
                 i = j \/ Apart(request.previous[i], request.previous[j])
  PROVE  Settled(t)
<1> SUFFICES ASSUME NEW i \in Previous(t) \ Locks(t),
                    ~ValidBlock(request.previous[i], Floor, Free(Floor, blocks, 0)),
                    ValidBlock(request.previous[i], Floor, Free(Floor, OthersSent(t), 0))
             PROVE  \E k, j \in Previous(t) :
                       k # j /\ ~Apart(request.previous[k], request.previous[j])
  BY DEF Settled, Sent
<1> DEFINE b == request.previous[i]
<1>1. PreviewRequest(request) /\ i \in DOMAIN request.previous /\ Work(b) /\ b.task = t
      /\ t \in Pending
  BY PreviousWork DEF PlInv, PlTypes, Previous
<1>2. \A w \in blocks : Work(w)
  BY StandingWork DEF PlInv, PlTypes, Layout
<1>3. OthersSent(t) \subseteq blocks /\ blocks \subseteq Sent(DOMAIN request.previous)
      /\ \A w \in blocks : w.task # t => w \in OthersSent(t)
  BY DEF OthersSent, PlInv, Keeping, Sent
<1>4. Standing(b) /\ \A w \in OthersSent(t) : Apart(b, w)
  <2>1. ValidBlock(b, Floor, Free(Floor, OthersSent(t), 0)) /\ b.task \in Pending
    BY <1>1
  <2>2. \A w \in OthersSent(t) : Work(w)
    BY <1>2, <1>3
  <2> HIDE DEF b
  <2> QED BY <1>1, <2>1, <2>2, BesideBlocks
<1>5. PICK w \in blocks : ~Apart(b, w)
  <2>1. ~ Minutes(b) \subseteq Free(Floor, blocks, 0)
    BY DEF ValidBlock
  <2>2. Minutes(b) \subseteq Free(Floor, {}, 0)
    BY <1>4 DEF Standing, ValidBlock
  <2> HIDE DEF b
  <2> QED BY <1>1, <1>2, <2>1, <2>2, ApartIsFree
<1>6. w \in Own(t)
  BY <1>3, <1>4, <1>5 DEF Own
<1>7. PICK j \in Locks(t) : w = request.previous[j]
  BY <1>6 DEF PlInv, Keeping, Sent
<1>8. j \in Previous(t) /\ i # j
  BY <1>7 DEF Locks
<1> QED BY <1>5, <1>7, <1>8

LEMMA NotKeptInv ==
  ASSUME PlInv, NEW t \in todo, Keep(t), Settled(t), blocks' = blocks
  PROVE  PlInv'
<1>1. SameGrid /\ SamePrevious
  BY GridStays, PreviousStays DEF Keep
<1>2. phase = "keep" /\ todo' = todo \ {t} /\ pieces = {}
      /\ UNCHANGED <<request, phase, pieces, budget, unscheduled, replanned, first>>
  BY DEF Keep, PlInv, Phases
<1>3. PlTypes' /\ Phases'
  BY <1>1, <1>2 DEF PlInv, PlTypes, Phases, SameGrid, Planned
<1>4. Layout' /\ Sizes' /\ SentBack'
  BY <1>1, <1>2, LayoutStays, SizesStay, SentBackStays DEF PlInv, SentBack
<1>5. \A s : Own(s)' = Own(s) /\ Requested(s)' = Requested(s)
  BY <1>2 DEF Own, Requested
<1>6. \A s : Sent(Locks(s))' = Sent(Locks(s)) /\ Locks(s)' = Locks(s)
  BY <1>2 DEF Sent, Locks, Previous
<1>7. LocksStay'
  BY <1>1, <1>2, <1>5, <1>6 DEF PlInv, LocksStay, Planned, SameGrid
<1>8. Keeping'
  <2>1. (blocks \subseteq Sent(DOMAIN request.previous))'
    BY <1>2 DEF PlInv, Keeping, Sent
  <2>2. \A s \in todo' : (Own(s) = Sent(Locks(s)))'
    BY <1>2, <1>5, <1>6 DEF PlInv, Keeping
  <2>3. \A s \in Pending' : (\A i, j \in Locks(s) :
           i = j \/ Apart(request.previous[i], request.previous[j]))'
    BY <1>1, <1>2, <1>6 DEF PlInv, Keeping, SameGrid, Apart
  <2> QED BY <2>1, <2>2, <2>3 DEF Keeping
<1>9. PreviousSettled'
  <2>1. \A b \in blocks' : Times(b)
    BY DEF PlInv, PlTypes, Block, Times
  <2>2. ASSUME NEW s \in Pending', s \notin todo'
        PROVE  Settled(s)'
    <3>1. Settled(s)
      BY <1>1, <1>2, <2>2 DEF PlInv, PreviousSettled, SameGrid
    <3> QED BY <3>1, <2>1, <1>2, SettledStays DEF PlInv, PlTypes
  <2> QED BY <2>2, <1>2 DEF PreviousSettled
<1>10. Reported'
  BY <1>2 DEF Reported
<1> QED BY <1>3, <1>4, <1>7, <1>8, <1>9, <1>10 DEF PlInv

(* The blocks of a task that keeps its placement: they are apart, among    *)
(* them the locks it had, and they make up the task.                       *)
LEMMA KeptBlocks ==
  ASSUME PlInv, NEW t \in todo, phase = "keep", WholePlacement(t),
         \A b \in Sent(Previous(t) \ Locks(t)) : ValidBlock(b, Floor, Free(Floor, blocks, 0)),
         \A i, j \in Previous(t) \ Locks(t) :
            i = j \/ Apart(request.previous[i], request.previous[j])
  PROVE  /\ \A b \in Sent(Previous(t) \ Locks(t)) :
               /\ b \in Block /\ b.task = t /\ Standing(b)
               /\ \A w \in blocks : Apart(b, w) /\ Apart(w, b)
         /\ AllApart(Sent(Previous(t) \ Locks(t)))
         /\ Own(t) \cup Sent(Previous(t) \ Locks(t)) = Sent(Previous(t))
         /\ FitsDuration(t, Sent(Previous(t)))
         /\ Total(Sent(Previous(t))) = request.tasks[t].minutes
<1> DEFINE movable == Sent(Previous(t) \ Locks(t))
<1>1. PreviewRequest(request) /\ t \in Pending
  BY DEF PlInv, PlTypes
<1>2. /\ Locks(t) \subseteq Previous(t) /\ Previous(t) \subseteq DOMAIN request.previous
      /\ IsFiniteSet(Previous(t))
      /\ \A i \in Previous(t) : /\ Work(request.previous[i]) /\ request.previous[i].task = t
                                /\ request.previous[i] \in Block
  <2>1. Locks(t) \subseteq Previous(t) /\ Previous(t) \subseteq DOMAIN request.previous
        /\ \A i \in Previous(t) : request.previous[i].task = t
    BY DEF Locks, Previous
  <2>2. IsFiniteSet(Previous(t))
    BY <2>1, <1>1, PreviousWork, FS_Subset
  <2> QED BY <2>1, <2>2, <1>1, PreviousWork
<1>3. \A w \in blocks : Work(w)
  BY StandingWork DEF PlInv, PlTypes, Layout
<1>4. ASSUME NEW b \in movable
      PROVE  /\ b \in Block /\ b.task = t /\ Standing(b)
             /\ \A w \in blocks : Apart(b, w) /\ Apart(w, b)
  <2>1. Work(b) /\ b.task = t /\ b \in Block
    BY <1>2 DEF Sent
  <2>2. ValidBlock(b, Floor, Free(Floor, blocks, 0))
    OBVIOUS
  <2> QED BY <1>1, <1>3, <2>1, <2>2, BesideBlocks
<1>5. Own(t) = Sent(Locks(t))
  BY DEF PlInv, Keeping
<1>6. Own(t) \cup movable = Sent(Previous(t))
  BY <1>2, <1>5 DEF Sent
<1>7. AllApart(movable)
  BY DEF AllApart, Sent
<1>8. ASSUME NEW i \in Previous(t), NEW j \in Previous(t), i # j
      PROVE  Apart(request.previous[i], request.previous[j])
  <2>1. CASE i \in Locks(t) /\ j \in Locks(t)
    BY <1>1, <1>8, <2>1 DEF PlInv, Keeping
  <2>2. CASE i \notin Locks(t) /\ j \notin Locks(t)
    BY <1>8, <2>2
  <2>3. CASE i \in Locks(t) /\ j \notin Locks(t)
    <3>1. request.previous[j] \in movable /\ request.previous[i] \in blocks
      BY <1>5, <2>3 DEF Sent, Own
    <3> QED BY <1>4, <3>1
  <2>4. CASE i \notin Locks(t) /\ j \in Locks(t)
    <3>1. request.previous[i] \in movable /\ request.previous[j] \in blocks
      BY <1>5, <2>4 DEF Sent, Own
    <3> QED BY <1>4, <3>1
  <2> QED BY <2>1, <2>2, <2>3, <2>4
<1>9. Cardinality(Sent(Previous(t))) = Cardinality(Previous(t))
      /\ Total(Sent(Previous(t))) = PreviousMinutes(Previous(t))
  BY <1>2, <1>8, SentSizes
<1>10. FitsDuration(t, Sent(Previous(t))) /\ Total(Sent(Previous(t))) = request.tasks[t].minutes
  BY <1>1, <1>9, DurationTypes DEF WholePlacement, FitsDuration
<1> QED BY <1>4, <1>6, <1>7, <1>10

LEMMA KeptInv ==
  ASSUME PlInv, NEW t \in todo, Keep(t), WholePlacement(t),
         \A b \in Sent(Previous(t) \ Locks(t)) : ValidBlock(b, Floor, Free(Floor, blocks, 0)),
         \A i, j \in Previous(t) \ Locks(t) :
            i = j \/ Apart(request.previous[i], request.previous[j]),
         blocks' = blocks \cup Sent(Previous(t) \ Locks(t))
  PROVE  PlInv'
<1> DEFINE movable == Sent(Previous(t) \ Locks(t))
<1>1. SameGrid /\ SamePrevious
  BY GridStays, PreviousStays DEF Keep
<1>2. phase = "keep" /\ todo' = todo \ {t} /\ pieces = {} /\ t \in Pending
      /\ UNCHANGED <<request, phase, pieces, budget, unscheduled, replanned, first>>
  BY DEF Keep, PlInv, Phases, PlTypes
<1>3. /\ \A b \in movable : /\ b \in Block /\ b.task = t /\ Standing(b)
                            /\ \A w \in blocks : Apart(b, w) /\ Apart(w, b)
      /\ AllApart(movable)
      /\ Own(t) \cup movable = Sent(Previous(t))
      /\ FitsDuration(t, Sent(Previous(t)))
      /\ Total(Sent(Previous(t))) = request.tasks[t].minutes
  BY <1>2, KeptBlocks
<1>4. PreviewRequest(request)
  BY DEF PlInv, PlTypes
<1>5. /\ blocks' \subseteq Sent(DOMAIN request.previous) /\ IsFiniteSet(blocks')
      /\ Cardinality(blocks') \in Nat /\ Cardinality(blocks') <= MaxBlocks
  <2>1. blocks' \subseteq Sent(DOMAIN request.previous)
    BY <1>2 DEF PlInv, Keeping, Sent, Previous
  <2>2. IsFiniteSet(Sent(DOMAIN request.previous))
        /\ Cardinality(Sent(DOMAIN request.previous)) <= Cardinality(DOMAIN request.previous)
    BY <1>4, PreviousWork, SentBound
  <2>3. IsFiniteSet(blocks') /\ Cardinality(blocks') <= Cardinality(Sent(DOMAIN request.previous))
    BY <2>1, <2>2, FS_Subset
  <2>4. /\ Cardinality(blocks') \in Nat
        /\ Cardinality(Sent(DOMAIN request.previous)) \in Nat
        /\ Cardinality(DOMAIN request.previous) \in Nat
    BY <2>2, <2>3, <1>4, PreviousWork, FS_CardinalityType
  <2> QED BY <2>1, <2>2, <2>3, <2>4, <1>4, PreviousWork, PlannerLimits
<1>6. PlTypes' /\ Phases'
  <2>1. blocks' \subseteq Block
    BY <1>3 DEF PlInv, PlTypes
  <2> QED BY <1>1, <1>2, <1>5, <2>1 DEF PlInv, PlTypes, Phases, SameGrid, Planned
<1>7. Layout'
  <2>1. \A b \in blocks' : Standing(b)
    BY <1>3 DEF PlInv, Layout
  <2>2. AllApart(blocks')
    BY <1>3 DEF PlInv, Layout, AllApart
  <2>3. (\A b \in blocks \cup pieces : Standing(b))' /\ AllApart(blocks \cup pieces)'
    BY <2>1, <2>2, <1>1, <1>2 DEF SameGrid, AllApart, Apart
  <2>4. Cardinality({}) = 0 /\ pieces' = {}
    BY <1>2, FS_EmptySet
  <2>5. (Cardinality(blocks) + Cardinality(pieces) <= MaxBlocks)'
    BY <2>4, <1>5, PlannerLimits
  <2> QED BY <2>3, <2>4, <2>5 DEF Layout
<1>8. Own(t)' = Sent(Previous(t)) /\ \A s : s # t => Own(s)' = Own(s)
  BY <1>3 DEF Own
<1>9. Sizes'
  BY <1>1, <1>2, <1>3, <1>8 DEF PlInv, Sizes, SameGrid
<1>10. \A s : Sent(Locks(s))' = Sent(Locks(s)) /\ Locks(s)' = Locks(s)
  BY <1>2 DEF Sent, Locks, Previous
<1>11. LocksStay'
  <2>1. Requested(t)' = 0
    <3>1. Requested(t)' = request.tasks[t].minutes - Total(Sent(Previous(t)))
      BY <1>2, <1>8 DEF Requested
    <3> QED BY <3>1, <1>2, <1>3, <1>4, DurationTypes
  <2>2. \A s : s # t => Requested(s)' = Requested(s)
    BY <1>2, <1>8 DEF Requested
  <2>3. ASSUME NEW s \in Pending
        PROVE  /\ Sent(Locks(s))' \subseteq blocks'
               /\ Requested(s)' = 0 \/ \A b \in Own(s)' : b.locked
    <3>1. Sent(Locks(s)) \subseteq blocks /\ (Requested(s) = 0 \/ \A b \in Own(s) : b.locked)
      BY <1>2 DEF PlInv, LocksStay, Planned
    <3> QED BY <3>1, <2>1, <2>2, <1>8, <1>10
  <2> QED BY <2>3, <1>1 DEF LocksStay, SameGrid
<1>12. Keeping'
  <2>1. (blocks \subseteq Sent(DOMAIN request.previous))'
    BY <1>2, <1>5 DEF Sent
  <2>2. \A s \in todo' : (Own(s) = Sent(Locks(s)))'
    BY <1>2, <1>8, <1>10 DEF PlInv, Keeping
  <2>3. \A s \in Pending' : (\A i, j \in Locks(s) :
           i = j \/ Apart(request.previous[i], request.previous[j]))'
    BY <1>1, <1>2, <1>10 DEF PlInv, Keeping, SameGrid, Apart
  <2> QED BY <2>1, <2>2, <2>3 DEF Keeping
<1>13. PreviousSettled'
  <2>1. \A b \in blocks' : Times(b)
    BY <1>3 DEF PlInv, PlTypes, Block, Times
  <2>2. ASSUME NEW s \in Pending', s \notin todo'
        PROVE  Settled(s)'
    <3>1. CASE s = t
      <4>1. Sent(Previous(t))' \subseteq blocks'
        BY <1>2, <1>3 DEF Sent, Previous, Own
      <4> QED BY <4>1, <3>1 DEF Settled
    <3>2. CASE s # t
      <4>1. Settled(s)
        BY <1>1, <1>2, <2>2, <3>2 DEF PlInv, PreviousSettled, SameGrid
      <4> QED BY <4>1, <2>1, <1>2, <1>4, SettledStays
    <3> QED BY <3>1, <3>2
  <2> QED BY <2>2, <1>2 DEF PreviousSettled
<1>14. Reported' /\ SentBack'
  BY <1>1, <1>2, SentBackStays DEF PlInv, SentBack, Reported
<1> QED BY <1>6, <1>7, <1>9, <1>11, <1>12, <1>13, <1>14 DEF PlInv

LEMMA KeepInv ==
  ASSUME PlInv, NEW t \in todo, Keep(t)
  PROVE  PlInv'
<1> DEFINE movable == Sent(Previous(t) \ Locks(t))
           kept == /\ WholePlacement(t)
                   /\ \A b \in movable : ValidBlock(b, Floor, Free(Floor, blocks, 0))
                   /\ \A i, j \in Previous(t) \ Locks(t) :
                         i = j \/ Apart(request.previous[i], request.previous[j])
<1>1. blocks' = IF kept THEN blocks \cup movable ELSE blocks
  BY DEF Keep, Sent
<1>2. phase = "keep"
  BY DEF Keep
<1>3. CASE kept
  BY <1>1, <1>3, KeptInv
<1>4. CASE ~kept
  BY <1>1, <1>2, <1>4, NotKeptIsSettled, NotKeptInv
<1> QED BY <1>3, <1>4

LEMMA StartPlacingInv ==
  ASSUME PlInv, StartPlacing
  PROVE  PlInv'
<1>1. SameGrid /\ SamePrevious
  BY GridStays, PreviousStays DEF StartPlacing
<1>2. phase = "keep" /\ phase' = "place" /\ todo = {} /\ todo' = Pending
      /\ pieces = {} /\ unscheduled = {}
      /\ UNCHANGED <<request, blocks, pieces, budget, unscheduled, replanned, first>>
  BY DEF StartPlacing, PlInv, Phases
<1>3. PlTypes' /\ Phases'
  BY <1>1, <1>2 DEF PlInv, PlTypes, Phases, SameGrid, Planned
<1>4. Layout' /\ Sizes' /\ SentBack'
  BY <1>1, <1>2, LayoutStays, SizesStay, SentBackStays DEF PlInv
<1>5. \A s : /\ Own(s)' = Own(s) /\ Requested(s)' = Requested(s)
             /\ Sent(Locks(s))' = Sent(Locks(s))
  BY <1>2 DEF Own, Requested, Sent, Locks, Previous
<1>6. LocksStay'
  BY <1>1, <1>2, <1>5 DEF PlInv, LocksStay, Planned, SameGrid
<1>7. PreviousSettled'
  <2>1. \A b \in blocks' : Times(b)
    BY <1>2 DEF PlInv, PlTypes, Block, Times
  <2>2. ASSUME NEW s \in Pending'
        PROVE  Settled(s)'
    <3>1. Settled(s)
      BY <1>1, <1>2 DEF PlInv, PreviousSettled, SameGrid
    <3> QED BY <3>1, <2>1, <1>2, SettledStays DEF PlInv, PlTypes
  <2> QED BY <2>2 DEF PreviousSettled
<1>8. Keeping' /\ Reported'
  BY <1>1, <1>2 DEF Keeping, Reported, SameGrid
<1> QED BY <1>3, <1>4, <1>6, <1>7, <1>8 DEF PlInv

(* What is left to place of the task whose turn it is.                     *)
LEMMA RemainingWork ==
  ASSUME PlInv, NEW t \in todo, Turn(t)
  PROVE  /\ t \in Pending /\ \A b \in pieces : b.task = t
         /\ IsFiniteSet(Own(t)) /\ \A b \in blocks \cup pieces : Work(b)
         /\ Total(Own(t)) \in Nat /\ Total(pieces) \in Nat
         /\ Requested(t) \in Int /\ Remaining(t) \in Int
         /\ Remaining(t) = Requested(t) - Total(pieces)
         /\ Remaining(t) = request.tasks[t].minutes - Total(Own(t) \cup pieces)
         /\ IsFiniteSet(Own(t) \cup pieces) /\ Total(Own(t) \cup pieces) \in Nat
         /\ FitsDuration(t, Own(t) \cup pieces)
<1>1. PreviewRequest(request) /\ t \in Pending /\ request.tasks[t].minutes \in Nat
  BY DurationTypes DEF PlInv, PlTypes
<1>2. \A b \in pieces : b.task = t
  BY <1>1, OneTurn DEF PlInv, PlTypes, Sizes
<1>3. \A b \in blocks \cup pieces : Work(b)
  BY StandingWork DEF PlInv, PlTypes, Layout
<1>4. /\ Own(t) \subseteq blocks /\ IsFiniteSet(Own(t)) /\ IsFiniteSet(pieces)
      /\ Own(t) \cap pieces = {}
  <2>1. Own(t) \subseteq blocks
    BY DEF Own
  <2> QED BY <2>1, FS_Subset DEF PlInv, PlTypes, Layout
<1>5. Total(Own(t)) \in Nat /\ Total(pieces) \in Nat
  BY <1>3, <1>4, TotalType
<1>6. Total(Own(t) \cup pieces) = Total(Own(t)) + Total(pieces)
  BY <1>3, <1>4, TotalOfBoth
<1>7. Requested(t) = request.tasks[t].minutes - Total(Own(t))
      /\ Remaining(t) = Requested(t) - Total(pieces)
  BY DEF Requested, Remaining
<1>8. Requested(t) \in Int /\ Remaining(t) \in Int
      /\ Remaining(t) = request.tasks[t].minutes - Total(Own(t) \cup pieces)
  BY <1>1, <1>5, <1>6, <1>7
<1>9. IsFiniteSet(Own(t) \cup pieces) /\ Total(Own(t) \cup pieces) \in Nat
  <2>1. IsFiniteSet(Own(t) \cup pieces)
    BY <1>4, FS_Union
  <2> QED BY <1>5, <1>6, <2>1
<1>10. FitsDuration(t, Own(t) \cup pieces)
  <2>1. CASE pieces = {}
    <3>1. Own(t) \cup pieces = Own(t)
      BY <2>1
    <3> QED BY <3>1, <1>1 DEF PlInv, Sizes
  <2>2. CASE pieces # {}
    BY <1>2, <2>2 DEF PlInv, Sizes
  <2> QED BY <2>1, <2>2
<1> QED BY <1>1, <1>2, <1>3, <1>4, <1>5, <1>7, <1>8, <1>9, <1>10

(* A slot that is found stands beside everything, and is as long as the    *)
(* task lets it be.                                                        *)
LEMMA SlotsFinite ==
  ASSUME PreviewRequest(request), NEW t \in Tasks
  PROVE  IsFiniteSet(Slots(t))
<1> DEFINE S == Earliest(t, Floor)..Size
           E == 0..Latest(t)
           f == [q \in S \X E |-> [start |-> q[1], end |-> q[2]]]
<1>1. Earliest(t, Floor) \in Int /\ Latest(t) \in Int /\ Size \in Int
  BY BoundTypes, FloorType, SizeAssumption
<1>2. IsFiniteSet(S) /\ IsFiniteSet(E)
  BY <1>1, FS_Interval
<1>3. IsFiniteSet(S \X E)
  <2> HIDE DEF S, E
  <2> QED BY <1>2, FS_Product
<1>4. f \in Surjection(S \X E, [start : S, end : E])
  <2> HIDE DEF S, E
  <2>1. f \in [S \X E -> [start : S, end : E]]
    OBVIOUS
  <2>2. ASSUME NEW w \in [start : S, end : E]
        PROVE  \E q \in S \X E : f[q] = w
    <3>1. <<w.start, w.end>> \in S \X E /\ f[<<w.start, w.end>>] = w
      OBVIOUS
    <3> QED BY <3>1
  <2> HIDE DEF f
  <2> QED BY <2>1, <2>2 DEF Surjection
<1>5. IsFiniteSet([start : S, end : E])
  <2> HIDE DEF S, E, f
  <2> QED BY <1>3, <1>4, FS_Surjection
<1>6. Slots(t) \subseteq [start : S, end : E]
  BY DEF Slots, Fitting, SlotsIn
<1> QED BY <1>5, <1>6, FS_Subset

Piece(t, w) == [task |-> t, start |-> w.start, end |-> w.end, locked |-> FALSE]

LEMMA SlotFits ==
  ASSUME PlInv, NEW t \in todo, Turn(t), Remaining(t) > 0, NEW w \in Slots(t)
  PROVE  /\ Piece(t, w) \in Block /\ Work(Piece(t, w)) /\ Piece(t, w).task = t
         /\ Standing(Piece(t, w))
         /\ \A b \in blocks \cup pieces :
               Apart(Piece(t, w), b) /\ Apart(b, Piece(t, w)) /\ Piece(t, w) # b
         /\ Length(Piece(t, w)) \in Nat /\ Length(Piece(t, w)) <= Remaining(t)
         /\ ~request.tasks[t].splittable => Length(Piece(t, w)) = Remaining(t)
<1> DEFINE p == Piece(t, w)
<1>1. PreviewRequest(request) /\ t \in Pending /\ t \in Tasks /\ request.pause \in Nat
      /\ request.tasks[t].splittable \in BOOLEAN
  BY DurationTypes DEF PlInv, PlTypes, PreviewRequest
<1>2. PICK pause \in Nat : w \in Fitting(t, pause)
  BY <1>1 DEF Slots
<1>3. /\ Length(w) \in Lengths(t) /\ w.start \in Earliest(t, Floor)..Size /\ w.end \in 0..Latest(t)
      /\ Minutes(w) \subseteq Free(Floor, blocks \cup pieces, pause)
  BY <1>2 DEF Fitting, SlotsIn
<1>4. Earliest(t, Floor) \in Int /\ Latest(t) \in Int
  BY <1>1, BoundTypes, FloorType
<1>5. p.start = w.start /\ p.end = w.end /\ p.task = t
      /\ w.start \in Int /\ w.end \in Int /\ Earliest(t, Floor) <= w.start /\ w.end <= Latest(t)
  BY <1>3, <1>4, SizeAssumption DEF Piece
<1>6. Remaining(t) \in Int /\ request.focus \in Nat
  BY <1>1, RemainingWork DEF PreviewRequest
<1>7. Length(w) \in Nat \ {0} /\ Length(w) <= Remaining(t)
      /\ (~request.tasks[t].splittable => Length(w) = Remaining(t))
  BY <1>3, <1>6 DEF Lengths
<1>8. Length(p) = Length(w) /\ Minutes(p) = Minutes(w)
  BY <1>5 DEF Length, Minutes
<1>9. Work(p) /\ p \in Block
  <2>1. w.start < w.end
    BY <1>5, <1>7 DEF Length
  <2>2. t \in Task
    BY <1>1 DEF PreviewRequest, Tasks
  <2> QED BY <1>5, <2>1, <2>2 DEF Work, Times, Block, Piece
<1>10. ValidBlock(p, Floor, Free(Floor, blocks \cup pieces, pause))
  BY <1>3, <1>5, <1>8 DEF ValidBlock
<1>11. Standing(p) /\ \A b \in blocks \cup pieces : Apart(p, b) /\ Apart(b, p) /\ p # b
  <2>1. \A b \in blocks \cup pieces : Work(b)
    BY RemainingWork
  <2> QED BY <1>1, <1>5, <1>9, <1>10, <2>1, BesideBlocks
<1> HIDE DEF p
<1>12. p \in Block /\ Work(p) /\ p.task = t
  BY <1>5, <1>9
<1>13. Length(p) \in Nat /\ Length(p) <= Remaining(t)
       /\ (~request.tasks[t].splittable => Length(p) = Remaining(t))
  BY <1>7, <1>8
<1> QED BY <1>11, <1>12, <1>13 DEF p

(* While nothing is reserved and no turn ends, what was settled stays so.  *)
LEMMA ReservedStays ==
  ASSUME PlInv, UNCHANGED <<request, phase, todo, blocks, unscheduled, replanned, first>>
  PROVE  LocksStay' /\ Keeping' /\ PreviousSettled' /\ Reported' /\ SentBack'
<1>1. SameGrid /\ SamePrevious
  BY GridStays, PreviousStays
<1>2. \A s : /\ Own(s)' = Own(s) /\ Requested(s)' = Requested(s)
             /\ Sent(Locks(s))' = Sent(Locks(s)) /\ Locks(s)' = Locks(s)
  BY DEF Own, Requested, Sent, Locks, Previous
<1>3. LocksStay'
  BY <1>1, <1>2 DEF PlInv, LocksStay, Planned, SameGrid
<1>4. Keeping'
  <2> SUFFICES ASSUME phase' = "keep"
               PROVE  Keeping'
    BY DEF Keeping
  <2>1. (blocks \subseteq Sent(DOMAIN request.previous))'
    BY DEF PlInv, Keeping, Sent
  <2>2. \A s \in todo' : (Own(s) = Sent(Locks(s)))'
    BY <1>2 DEF PlInv, Keeping
  <2>3. \A s \in Pending' : (\A i, j \in Locks(s) :
           i = j \/ Apart(request.previous[i], request.previous[j]))'
    BY <1>1, <1>2 DEF PlInv, Keeping, SameGrid, Apart
  <2> QED BY <2>1, <2>2, <2>3 DEF Keeping
<1>5. PreviousSettled'
  <2>1. \A b \in blocks' : Times(b)
    BY DEF PlInv, PlTypes, Block, Times
  <2>2. ASSUME NEW s \in Pending', phase \in {"place", "done"} \/ (phase = "keep" /\ s \notin todo)
        PROVE  Settled(s)'
    <3>1. Settled(s)
      BY <1>1, <2>2 DEF PlInv, PreviousSettled, SameGrid
    <3> QED BY <3>1, <2>1, SettledStays DEF PlInv, PlTypes
  <2> QED BY <2>2 DEF PreviousSettled
<1>6. Reported'
  BY <1>1, <1>2 DEF PlInv, Reported, SameGrid
<1>7. SentBack'
  BY <1>1, SentBackStays DEF PlInv, SentBack
<1> QED BY <1>3, <1>4, <1>5, <1>6, <1>7

LEMMA AddPieceInv ==
  ASSUME PlInv, NEW t \in todo, AddPiece(t)
  PROVE  PlInv'
<1>1. SameGrid /\ SamePrevious
  BY GridStays, PreviousStays DEF AddPiece
<1>2. phase = "place" /\ Turn(t) /\ Remaining(t) > 0 /\ ~Full /\ ~Exhausted(t)
      /\ UNCHANGED <<request, phase, todo, blocks, unscheduled, replanned, first>>
  BY DEF AddPiece
<1>3. PICK w \in Slots(t) : pieces' = pieces \cup {Piece(t, w)}
  BY DEF AddPiece, Piece
<1>4. PICK p : p = Piece(t, w)
  OBVIOUS
<1>5. /\ p \in Block /\ Work(p) /\ p.task = t /\ Standing(p)
      /\ \A b \in blocks \cup pieces : Apart(p, b) /\ Apart(b, p) /\ p # b
      /\ Length(p) \in Nat /\ Length(p) <= Remaining(t)
      /\ (~request.tasks[t].splittable => Length(p) = Remaining(t))
  BY <1>2, <1>4, SlotFits
<1>6. PreviewRequest(request) /\ pieces' = pieces \cup {p} /\ p \notin pieces /\ p \notin blocks
      /\ IsFiniteSet(pieces) /\ IsFiniteSet(blocks) /\ pieces \subseteq Block
  BY <1>3, <1>4, <1>5 DEF PlInv, PlTypes
<1>7. /\ IsFiniteSet(pieces') /\ Cardinality(pieces') = Cardinality(pieces) + 1
      /\ Cardinality(pieces) \in Nat /\ Cardinality(blocks) \in Nat
  BY <1>6, FS_AddElement, FS_CardinalityType
<1>8. PlTypes'
  <2>1. budget' \in Nat
    <3>1. Cardinality(Slots(t)) \in Nat
      BY <1>6, RemainingWork, DurationTypes, <1>2, SlotsFinite, FS_CardinalityType
    <3>2. ~(Cardinality(Slots(t)) > budget) /\ budget' = budget - Cardinality(Slots(t))
          /\ budget \in Nat
      BY <1>2 DEF Exhausted, AddPiece, PlInv, PlTypes
    <3> QED BY <3>1, <3>2
  <2> QED BY <1>1, <1>2, <1>5, <1>6, <1>7, <2>1 DEF PlInv, PlTypes, SameGrid
<1>9. Phases'
  BY <1>1, <1>2 DEF PlInv, Phases, Planned, SameGrid
<1>10. Layout'
  <2>1. blocks' \cup pieces' = (blocks \cup pieces) \cup {p} /\ blocks' = blocks
    BY <1>2, <1>6
  <2>2. \A b \in blocks' \cup pieces' : Standing(b)
    BY <2>1, <1>5 DEF PlInv, Layout
  <2>3. AllApart(blocks' \cup pieces')
    BY <2>1, <1>5 DEF PlInv, Layout, AllApart
  <2>4. (\A b \in blocks \cup pieces : Standing(b))' /\ AllApart(blocks \cup pieces)'
    BY <2>2, <2>3, <1>1 DEF SameGrid, AllApart, Apart
  <2>5. (blocks \cap pieces = {})'
    BY <1>2, <1>6 DEF PlInv, Layout
  <2>6. Cardinality(blocks') + Cardinality(pieces') <= MaxBlocks
    BY <1>2, <1>7, PlannerLimits DEF Full
  <2> QED BY <2>4, <2>5, <2>6 DEF Layout
<1>11. FitsDuration(t, Own(t) \cup pieces')
  <2> DEFINE placed == Own(t) \cup pieces
  <2>1. /\ t \in Pending /\ IsFiniteSet(placed) /\ \A b \in placed : Work(b)
        /\ Total(placed) \in Nat /\ FitsDuration(t, placed)
        /\ Remaining(t) = request.tasks[t].minutes - Total(placed)
        /\ request.tasks[t].minutes \in Nat
    BY <1>2, <1>6, RemainingWork, DurationTypes DEF Own
  <2>2. p \notin placed /\ Own(t) \cup pieces' = placed \cup {p}
    BY <1>6 DEF Own
  <2> HIDE DEF placed
  <2>3. Total(placed \cup {p}) = Total(placed) + Length(p)
    <3>1. IsFiniteSet({p}) /\ \A b \in {p} : Work(b)
      BY <1>5, FS_Singleton
    <3>2. placed \cap {p} = {}
      BY <2>2
    <3>3. Total(placed \cup {p}) = Total(placed) + Total({p})
      BY <2>1, <3>1, <3>2, TotalOfBoth
    <3> QED BY <3>3, <1>5, TotalOfOne
  <2>4. Total(placed \cup {p}) <= request.tasks[t].minutes
    BY <2>1, <2>3, <1>5
  <2>5. ASSUME ~request.tasks[t].splittable
        PROVE  Cardinality(placed \cup {p}) = 1
               /\ Total(placed \cup {p}) = request.tasks[t].minutes
    <3>1. Length(p) = request.tasks[t].minutes - Total(placed)
      BY <1>5, <2>1, <2>5
    <3>2. Total(placed \cup {p}) = request.tasks[t].minutes
      BY <2>1, <2>3, <3>1
    <3>3. Total(placed) # request.tasks[t].minutes
      BY <1>2, <2>1
    <3>4. placed = {}
      BY <2>1, <2>5, <3>3 DEF FitsDuration
    <3>5. placed \cup {p} = {p}
      BY <3>4
    <3> QED BY <3>2, <3>5, FS_Singleton
  <2> QED BY <2>2, <2>4, <2>5 DEF FitsDuration
<1>12. Sizes'
  <2>1. \A b \in pieces' : b.task = t
    BY <1>2, <1>5, <1>6, RemainingWork
  <2>2. Turn(t)' /\ \A s : Own(s)' = Own(s)
    BY <1>1, <1>2 DEF Turn, SameGrid, Own
  <2>3. \A s \in Pending' : FitsDuration(s, Own(s))'
    BY <1>1, <2>2 DEF PlInv, Sizes, SameGrid
  <2>4. FitsDuration(t, Own(t) \cup pieces)'
    BY <1>1, <1>11, <2>2 DEF SameGrid
  <2>5. \A b \in pieces' : Turn(b.task)' /\ FitsDuration(b.task, Own(b.task) \cup pieces)'
    BY <2>1, <2>2, <2>4
  <2> QED BY <2>3, <2>5 DEF Sizes
<1> QED BY <1>2, <1>8, <1>9, <1>10, <1>12, ReservedStays DEF PlInv

LEMMA ReserveInv ==
  ASSUME PlInv, NEW t \in todo, Reserve(t)
  PROVE  PlInv'
<1>1. SameGrid /\ SamePrevious
  BY GridStays, PreviousStays DEF Reserve
<1>2. phase = "place" /\ Turn(t) /\ Remaining(t) = 0 /\ blocks' = blocks \cup pieces
      /\ pieces' = {} /\ todo' = todo \ {t}
      /\ UNCHANGED <<request, phase, budget, unscheduled, replanned, first>>
  BY DEF Reserve
<1>3. /\ t \in Pending /\ \A b \in pieces : b.task = t
      /\ \A b \in blocks \cup pieces : Work(b)
      /\ FitsDuration(t, Own(t) \cup pieces)
      /\ Remaining(t) = request.tasks[t].minutes - Total(Own(t) \cup pieces)
      /\ Total(Own(t) \cup pieces) \in Nat
      /\ request.tasks[t].minutes \in Nat
  BY <1>2, RemainingWork, DurationTypes DEF PlInv, PlTypes
<1>4. Own(t)' = Own(t) \cup pieces /\ \A s : s # t => Own(s)' = Own(s)
  BY <1>2, <1>3 DEF Own
<1>5. IsFiniteSet(blocks) /\ IsFiniteSet(pieces) /\ PreviewRequest(request)
  BY DEF PlInv, PlTypes
<1>6. IsFiniteSet({}) /\ Cardinality({}) = 0
  BY FS_EmptySet
<1>7. PlTypes'
  <2>1. IsFiniteSet(blocks') /\ blocks' \subseteq Block
    BY <1>2, <1>5, FS_Union DEF PlInv, PlTypes
  <2> QED BY <1>1, <1>2, <1>6, <2>1 DEF PlInv, PlTypes, SameGrid
<1>8. Phases'
  BY <1>1, <1>2 DEF PlInv, Phases, Planned, SameGrid
<1>9. Layout'
  <2>1. blocks' \cup pieces' = blocks \cup pieces
    BY <1>2
  <2>2. (\A b \in blocks \cup pieces : Standing(b))'
    BY <1>1, <2>1 DEF PlInv, Layout, SameGrid
  <2>3. AllApart(blocks \cup pieces)'
    BY <2>1 DEF PlInv, Layout, AllApart, Apart
  <2>4. Cardinality(blocks') + Cardinality(pieces') <= MaxBlocks
    <3>1. Cardinality(blocks \cup pieces)
            = Cardinality(blocks) + Cardinality(pieces) - Cardinality(blocks \cap pieces)
      BY <1>5, FS_Union
    <3>2. blocks \cap pieces = {} /\ Cardinality(blocks) + Cardinality(pieces) <= MaxBlocks
      BY DEF PlInv, Layout
    <3>3. Cardinality(blocks) \in Nat /\ Cardinality(pieces) \in Nat
      BY <1>5, FS_CardinalityType
    <3>4. Cardinality(blocks \cup pieces) = Cardinality(blocks) + Cardinality(pieces)
      <4>1. Cardinality(blocks \cap pieces) = 0
        BY <1>6, <3>2
      <4> QED BY <3>1, <3>3, <4>1
    <3>5. Cardinality(blocks') = Cardinality(blocks) + Cardinality(pieces)
          /\ Cardinality(pieces') = 0
      BY <1>2, <1>6, <3>4
    <3> QED BY <3>2, <3>3, <3>5, PlannerLimits
  <2> QED BY <1>2, <2>2, <2>3, <2>4 DEF Layout
<1>10. Sizes'
  <2>1. \A s \in Pending : FitsDuration(s, Own(s)')
    BY <1>3, <1>4 DEF PlInv, Sizes
  <2>2. \A s \in Pending' : FitsDuration(s, Own(s))'
    BY <2>1, <1>1 DEF SameGrid
  <2> QED BY <1>2, <2>2 DEF Sizes
<1>11. Requested(t)' = 0 /\ \A s : s # t => Requested(s)' = Requested(s)
  <2>1. Requested(t)' = request.tasks[t].minutes - Total(Own(t) \cup pieces)
    BY <1>2, <1>4 DEF Requested
  <2>2. \A s : s # t => Requested(s)' = Requested(s)
    BY <1>2, <1>4 DEF Requested
  <2> QED BY <1>2, <1>3, <2>1, <2>2
<1>12. LocksStay'
  <2>1. \A s : Sent(Locks(s))' = Sent(Locks(s))
    BY <1>2 DEF Sent, Locks, Previous
  <2>2. ASSUME NEW s \in Pending
        PROVE  /\ Sent(Locks(s))' \subseteq blocks'
               /\ Requested(s)' = 0 \/ \A b \in Own(s)' : b.locked
    <3>1. Sent(Locks(s)) \subseteq blocks /\ (Requested(s) = 0 \/ \A b \in Own(s) : b.locked)
      BY <1>2 DEF PlInv, LocksStay, Planned
    <3> QED BY <3>1, <2>1, <1>2, <1>4, <1>11
  <2> QED BY <2>2, <1>1 DEF LocksStay, SameGrid
<1>13. PreviousSettled'
  <2>1. \A b \in blocks' : Times(b)
    BY <1>2, <1>3 DEF Work
  <2>2. ASSUME NEW s \in Pending'
        PROVE  Settled(s)'
    <3>1. Settled(s)
      BY <1>1, <1>2 DEF PlInv, PreviousSettled, SameGrid
    <3> QED BY <3>1, <2>1, <1>2, <1>5, SettledStays
  <2> QED BY <2>2 DEF PreviousSettled
<1>14. Reported'
  <2>1. ASSUME NEW s \in Pending
        PROVE  {u \in unscheduled' : u.task = s} =
                 IF s \in todo' \/ Requested(s)' = 0 THEN {}
                 ELSE {[task |-> s, remaining |-> Requested(s)']}
    <3>1. {u \in unscheduled : u.task = s} =
             IF s \in todo \/ Requested(s) = 0 THEN {}
             ELSE {[task |-> s, remaining |-> Requested(s)]}
      BY <1>2 DEF PlInv, Reported
    <3>2. CASE s = t
      BY <3>1, <3>2, <1>2, <1>11
    <3>3. CASE s # t
      BY <3>1, <3>3, <1>2, <1>11
    <3> QED BY <3>2, <3>3
  <2> QED BY <2>1, <1>1 DEF Reported, SameGrid
<1>15. Keeping' /\ SentBack'
  BY <1>1, <1>2, SentBackStays DEF PlInv, Keeping
<1> QED BY <1>7, <1>8, <1>9, <1>10, <1>12, <1>13, <1>14, <1>15 DEF PlInv

LEMMA GiveUpInv ==
  ASSUME PlInv, NEW t \in todo, GiveUp(t)
  PROVE  PlInv'
<1>1. SameGrid /\ SamePrevious
  BY GridStays, PreviousStays DEF GiveUp
<1>2. phase = "place" /\ Turn(t) /\ Remaining(t) > 0
      /\ unscheduled' = unscheduled \cup {[task |-> t, remaining |-> Requested(t)]}
      /\ budget' \in {0, budget} /\ pieces' = {} /\ todo' = todo \ {t}
      /\ UNCHANGED <<request, phase, blocks, replanned, first>>
  BY DEF GiveUp
<1>3. t \in Pending /\ Requested(t) # 0
  <2>1. t \in Pending /\ Total(pieces) \in Nat /\ Requested(t) \in Int
        /\ Remaining(t) = Requested(t) - Total(pieces)
    BY <1>2, RemainingWork
  <2> QED BY <1>2, <2>1
<1>4. IsFiniteSet({}) /\ Cardinality({}) = 0 /\ IsFiniteSet(pieces) /\ IsFiniteSet(blocks)
  BY FS_EmptySet DEF PlInv, PlTypes
<1>5. PlTypes' /\ Phases'
  BY <1>1, <1>2, <1>4 DEF PlInv, PlTypes, Phases, Planned, SameGrid
<1>6. Layout'
  <2>1. blocks' \cup pieces' \subseteq blocks \cup pieces
    BY <1>2
  <2>2. (\A b \in blocks \cup pieces : Standing(b))'
    BY <1>1, <2>1 DEF PlInv, Layout, SameGrid
  <2>3. AllApart(blocks \cup pieces)'
    BY <2>1 DEF PlInv, Layout, AllApart, Apart
  <2>4. Cardinality(blocks) \in Nat /\ Cardinality(pieces) \in Nat
        /\ Cardinality(blocks) + Cardinality(pieces) <= MaxBlocks
    BY <1>4, FS_CardinalityType DEF PlInv, Layout
  <2>5. Cardinality(blocks') + Cardinality(pieces') <= MaxBlocks
    BY <1>2, <1>4, <2>4, PlannerLimits
  <2> QED BY <1>2, <2>2, <2>3, <2>5 DEF Layout
<1>7. Sizes'
  BY <1>1, <1>2, SizesStay DEF PlInv
<1>8. \A s : /\ Own(s)' = Own(s) /\ Requested(s)' = Requested(s)
             /\ Sent(Locks(s))' = Sent(Locks(s))
  BY <1>2 DEF Own, Requested, Sent, Locks, Previous
<1>9. LocksStay'
  BY <1>1, <1>2, <1>8 DEF PlInv, LocksStay, Planned, SameGrid
<1>10. PreviousSettled'
  <2>1. \A b \in blocks' : Times(b)
    BY <1>2 DEF PlInv, PlTypes, Block, Times
  <2>2. ASSUME NEW s \in Pending'
        PROVE  Settled(s)'
    <3>1. Settled(s)
      BY <1>1, <1>2 DEF PlInv, PreviousSettled, SameGrid
    <3> QED BY <3>1, <2>1, <1>2, SettledStays DEF PlInv, PlTypes
  <2> QED BY <2>2 DEF PreviousSettled
<1>11. Reported'
  <2>1. ASSUME NEW s \in Pending
        PROVE  {u \in unscheduled' : u.task = s} =
                 IF s \in todo' \/ Requested(s)' = 0 THEN {}
                 ELSE {[task |-> s, remaining |-> Requested(s)']}
    <3>1. {u \in unscheduled : u.task = s} =
             IF s \in todo \/ Requested(s) = 0 THEN {}
             ELSE {[task |-> s, remaining |-> Requested(s)]}
      BY <1>2 DEF PlInv, Reported
    <3>2. CASE s = t
      <4>1. {u \in unscheduled : u.task = t} = {}
        BY <3>1, <3>2
      <4>2. {u \in unscheduled' : u.task = t} = {[task |-> t, remaining |-> Requested(t)]}
        BY <1>2, <4>1
      <4> QED BY <4>2, <3>2, <1>2, <1>3, <1>8
    <3>3. CASE s # t
      <4>1. {u \in unscheduled' : u.task = s} = {u \in unscheduled : u.task = s}
        BY <1>2, <3>3
      <4> QED BY <4>1, <3>1, <3>3, <1>2, <1>8
    <3> QED BY <3>2, <3>3
  <2> QED BY <2>1, <1>1 DEF Reported, SameGrid
<1>12. Keeping' /\ SentBack'
  BY <1>1, <1>2, SentBackStays DEF PlInv, Keeping
<1> QED BY <1>5, <1>6, <1>7, <1>9, <1>10, <1>11, <1>12 DEF PlInv

LEMMA ReturnInv ==
  ASSUME PlInv, Return
  PROVE  PlInv'
<1>1. SameGrid /\ SamePrevious
  BY GridStays, PreviousStays DEF Return
<1>2. phase = "place" /\ phase' = "done" /\ todo = {}
      /\ UNCHANGED <<request, todo, blocks, pieces, budget, unscheduled, replanned, first>>
  BY DEF Return
<1>3. pieces = {}
  BY <1>2 DEF PlInv, Sizes, Turn
<1>4. PlTypes' /\ Phases'
  BY <1>1, <1>2, <1>3 DEF PlInv, PlTypes, Phases, Planned, SameGrid
<1>5. Layout' /\ Sizes' /\ SentBack'
  BY <1>1, <1>2, <1>3, LayoutStays, SizesStay, SentBackStays DEF PlInv
<1>6. \A s : /\ Own(s)' = Own(s) /\ Requested(s)' = Requested(s)
             /\ Sent(Locks(s))' = Sent(Locks(s))
  BY <1>2 DEF Own, Requested, Sent, Locks, Previous
<1>7. LocksStay'
  BY <1>1, <1>2, <1>6 DEF PlInv, LocksStay, Planned, SameGrid
<1>8. PreviousSettled'
  <2>1. \A b \in blocks' : Times(b)
    BY <1>2 DEF PlInv, PlTypes, Block, Times
  <2>2. ASSUME NEW s \in Pending'
        PROVE  Settled(s)'
    <3>1. Settled(s)
      BY <1>1, <1>2 DEF PlInv, PreviousSettled, SameGrid
    <3> QED BY <3>1, <2>1, <1>2, SettledStays DEF PlInv, PlTypes
  <2> QED BY <2>2 DEF PreviousSettled
<1>9. Keeping' /\ Reported'
  BY <1>1, <1>2, <1>6 DEF PlInv, Keeping, Reported, SameGrid
<1> QED BY <1>4, <1>5, <1>7, <1>8, <1>9 DEF PlInv

LEMMA StutterInv ==
  ASSUME PlInv, UNCHANGED vars
  PROVE  PlInv'
<1>1. SameGrid /\ SamePrevious
  BY GridStays, PreviousStays DEF vars
<1>2. PlTypes' /\ Phases' /\ Layout'
  BY <1>1, LayoutStays DEF PlInv, PlTypes, Phases, Planned, SameGrid, vars
<1>3. Sizes'
  <2>1. \A s : Own(s)' = Own(s) /\ Turn(s)' = Turn(s)
    BY <1>1 DEF Own, Turn, SameGrid, vars
  <2>2. \A s \in Pending' : FitsDuration(s, Own(s))'
    BY <1>1, <2>1 DEF PlInv, Sizes, SameGrid
  <2>3. \A b \in pieces' : Turn(b.task)' /\ FitsDuration(b.task, Own(b.task) \cup pieces)'
    BY <1>1, <2>1 DEF PlInv, Sizes, SameGrid, vars
  <2> QED BY <2>2, <2>3 DEF Sizes
<1> QED BY <1>2, <1>3, ReservedStays DEF PlInv, vars

(* A block that may stand may stand there later, until it begins.          *)
LEMMA StandsUntilBegun ==
  ASSUME PreviewRequest(request), PreviewRequest(request'),
         request'.halfMinute >= request.halfMinute, request'.tasks = request.tasks,
         request'.availability = request.availability, request'.events = request.events,
         NEW b, Work(b), Standing(b), 2 * b.start >= request'.halfMinute
  PROVE  Standing(b)'
<1>1. request.halfMinute \in Int /\ request'.halfMinute \in Int
  BY DEF PreviewRequest
<1>2. Floor \in 0..Size /\ Floor' \in 0..Size /\ Floor' >= Floor
  BY <1>1, SizeAssumption DEF Floor, InHorizon
<1>3. Pending' = Pending /\ Events' = Events /\ Latest(b.task)' = Latest(b.task)
  BY DEF Pending, Tasks, Events, Latest
<1>4. b.start \in Int /\ b.end \in Int /\ b.start < b.end /\ b.start \in Minutes(b)
  BY DEF Work, Times, Minutes
<1>5. b.task \in Tasks /\ Minutes(b) \subseteq Free(Floor, {}, 0)
      /\ Earliest(b.task, Floor) <= b.start /\ b.end <= Latest(b.task)
  BY DEF Standing, ValidBlock, Pending
<1>6. b.start \in Floor..(Size - 1)
  BY <1>4, <1>5 DEF Free, Available
<1>7. Floor' <= b.start
  <2> DEFINE up == (request'.halfMinute + 1) \div 2
  <2>1. up \in Int /\ up <= b.start
    BY <1>1, <1>4
  <2>2. Floor' = InHorizon(up)
    BY DEF Floor
  <2> HIDE DEF up
  <2> QED BY <1>2, <1>4, <1>6, <2>1, <2>2, SizeAssumption DEF InHorizon
<1>8. Earliest(b.task, Floor)' <= b.start
  <2>1. request.tasks[b.task].earliest \in Int
    BY <1>5 DEF PreviewRequest, Tasks, TaskRecord
  <2> QED BY <1>2, <1>4, <1>5, <1>6, <1>7, <2>1, SizeAssumption DEF Earliest, InHorizon
<1>9. ASSUME NEW m \in Minutes(b)
      PROVE  m \in Free(Floor, {}, 0)'
  <2>1. m \in Int /\ m >= b.start /\ m \in Free(Floor, {}, 0)
    BY <1>4, <1>5 DEF Minutes
  <2>2. m \in Floor'..(Size - 1)
    BY <1>2, <1>4, <1>7, <2>1, SizeAssumption DEF Free, Available
  <2> QED BY <1>3, <2>1, <2>2 DEF Free, Available
<1> QED BY <1>3, <1>5, <1>8, <1>9 DEF ValidBlock, Standing

(* A plan that is sent back is a request whose previous blocks stand until *)
(* they begin, are apart and fit their tasks.                              *)
LEMMA ReplanInv ==
  ASSUME PlInv, NEW locked \in SUBSET blocks, NEW delay \in Delay, Replan(locked, delay)
  PROVE  PlInv'
<1>1. /\ phase = "done" /\ phase' = "prepare"
      /\ request' = [request EXCEPT
            !.halfMinute = @ + delay,
            !.previous = [b \in blocks |-> [b EXCEPT !.locked = b \in locked]]]
      /\ blocks' = {} /\ unscheduled' = {} /\ budget' = Budget
      /\ replanned' = TRUE /\ first' = blocks /\ UNCHANGED <<todo, pieces>>
  BY DEF Replan
<1>2. PreviewRequest(request) /\ todo = {} /\ pieces = {} /\ Acceptable
      /\ blocks \subseteq Block /\ IsFiniteSet(blocks)
  BY <1>1 DEF PlInv, PlTypes, Phases, Planned
<1>3. /\ DOMAIN request' = DOMAIN request
      /\ request'.halfMinute = request.halfMinute + delay /\ request'.tasks = request.tasks
      /\ request'.availability = request.availability /\ request'.events = request.events
      /\ request'.focus = request.focus /\ request'.pause = request.pause
      /\ request'.previous = [b \in blocks |-> [b EXCEPT !.locked = b \in locked]]
  BY <1>1, <1>2 DEF PreviewRequest
<1>4. /\ Pending' = Pending /\ Tasks' = Tasks
      /\ \A t, own : FitsDuration(t, own)' = FitsDuration(t, own)
  BY <1>3 DEF Pending, Tasks, FitsDuration
<1>5. \A b \in blocks : /\ request'.previous[b] \in Block
                        /\ request'.previous[b].task = b.task
                        /\ request'.previous[b].start = b.start
                        /\ request'.previous[b].end = b.end
  <2> SUFFICES ASSUME NEW b \in blocks
               PROVE  /\ request'.previous[b] \in Block
                      /\ request'.previous[b].task = b.task
                      /\ request'.previous[b].start = b.start
                      /\ request'.previous[b].end = b.end
    OBVIOUS
  <2>1. b \in Block /\ request'.previous[b] = [b EXCEPT !.locked = b \in locked]
    BY <1>2, <1>3
  <2>2. CASE b \in locked
    <3>1. request'.previous[b] = [b EXCEPT !.locked = TRUE]
      BY <2>1, <2>2
    <3> QED BY <2>1, <3>1 DEF Block
  <2>3. CASE b \notin locked
    <3>1. (b \in locked) = FALSE
      BY <2>3
    <3>2. request'.previous[b] = [b EXCEPT !.locked = FALSE]
      BY <2>1, <3>1, Zenon
    <3> QED BY <2>1, <3>2 DEF Block
  <2> QED BY <2>2, <2>3
<1>6. \A b \in blocks : Standing(b) /\ Work(b) /\ b.task \in Tasks
  BY <1>2, StandingWork DEF PlInv, Layout, Standing, Pending
<1>7. Cardinality(blocks) <= MaxBlocks
  <2>1. Cardinality({}) = 0 /\ Cardinality(blocks) \in Nat
    BY <1>2, FS_EmptySet, FS_CardinalityType
  <2>2. Cardinality(blocks) + Cardinality(pieces) <= MaxBlocks
    BY DEF PlInv, Layout
  <2> QED BY <1>2, <2>1, <2>2
<1>8. PreviewRequest(request')
  <2>1. DOMAIN request'.previous = blocks /\ request'.previous \in [blocks -> Block]
    BY <1>3, <1>5
  <2>2. \A b \in blocks : /\ request'.previous[b].task \in DOMAIN request'.tasks
                          /\ request'.previous[b].start < request'.previous[b].end
    BY <1>3, <1>5, <1>6 DEF Work, Tasks
  <2>3. request'.halfMinute \in Int
    BY <1>2, <1>3, DelayAssumption DEF PreviewRequest
  <2> QED BY <1>2, <1>3, <1>7, <2>1, <2>2, <2>3 DEF PreviewRequest
<1>9. IsFiniteSet({}) /\ Cardinality({}) = 0
  BY FS_EmptySet
<1>10. PlTypes' /\ Phases'
  BY <1>1, <1>2, <1>4, <1>8, <1>9, PlannerLimits DEF PlTypes, Phases, Planned
<1>11. Layout'
  BY <1>1, <1>2, <1>9, PlannerLimits DEF Layout, AllApart
<1>12. Sizes'
  <2>1. \A t : Own(t)' = {}
    BY <1>1 DEF Own
  <2>2. \A t \in Pending : FitsDuration(t, {})
    BY <1>2, TotalOfNone, DurationTypes DEF FitsDuration
  <2>3. \A t \in Pending' : FitsDuration(t, Own(t))'
    BY <1>4, <2>1, <2>2
  <2> QED BY <1>1, <1>2, <2>3 DEF Sizes
<1>13. LocksStay' /\ Keeping' /\ PreviousSettled' /\ Reported'
  BY <1>1 DEF LocksStay, Keeping, PreviousSettled, Reported, Planned
<1>14. SentBack'
  <2>1. /\ phase' # "refused" /\ DOMAIN request'.previous = first' /\ first' = blocks
        /\ request'.halfMinute < 2 * DayLength => Acceptable'
    BY <1>1, <1>2, <1>3 DEF Acceptable, Events
  <2>2. ASSUME NEW b \in blocks, NEW p, p = request'.previous[b], ~Begun(b)'
        PROVE  Standing(p)'
    <3>1. p.task = b.task /\ p.start = b.start /\ p.end = b.end
      BY <2>2, <1>5
    <3>2. Standing(p) /\ Work(p)
      BY <3>1, <1>6 DEF Standing, ValidBlock, Minutes, Work, Times
    <3>3. /\ request'.halfMinute \in Int /\ request'.halfMinute >= request.halfMinute
          /\ p.start \in Int
      BY <1>2, <1>3, <3>2, DelayAssumption DEF PreviewRequest, Work, Times
    <3>4. 2 * p.start >= request'.halfMinute
      BY <2>2, <3>1, <3>3 DEF Begun
    <3> QED BY <1>2, <1>3, <1>8, <3>2, <3>3, <3>4, StandsUntilBegun
  <2>3. \A b \in blocks : /\ request'.previous[b].task \in Pending'
                          /\ Begun(b)' \/ Standing(request.previous[b])'
    <3>1. \A b \in blocks : request'.previous[b].task \in Pending'
      BY <1>4, <1>5, <1>6 DEF Standing
    <3> QED BY <2>2, <3>1 DEF Standing, ValidBlock, Earliest, Latest, Minutes
  <2>4. \A b, c \in blocks : b = c \/ Apart(request'.previous[b], request'.previous[c])
    BY <1>5 DEF PlInv, Layout, AllApart, Apart
  <2>5. ASSUME NEW t \in Pending
        PROVE  /\ Previous(t)' = Own(t)
               /\ PreviousMinutes(Previous(t))' = Total(Own(t))
    <3>1. Previous(t)' = Own(t)
      BY <1>3, <1>5 DEF Previous, Own
    <3>2. \A b \in Own(t) : Minutes(request'.previous[b]) = Minutes(b)
      BY <1>5 DEF Own, Minutes
    <3>3. UNION {{b} \X Minutes(request'.previous[b]) : b \in Own(t)}
            = UNION {{b} \X Minutes(b) : b \in Own(t)}
      BY <3>2
    <3>4. PreviousMinutes(Previous(t))'
            = Cardinality(UNION {{b} \X Minutes(request'.previous[b]) : b \in Previous(t)'})
      BY DEF PreviousMinutes
    <3> QED BY <3>1, <3>3, <3>4 DEF Total
  <2>6. \A t \in Pending' :
          (/\ PreviousMinutes(Previous(t)) <= request.tasks[t].minutes
           /\ Previous(t) # {} /\ ~request.tasks[t].splittable =>
                 /\ Cardinality(Previous(t)) = 1
                 /\ PreviousMinutes(Previous(t)) = request.tasks[t].minutes)'
    BY <2>5, <1>3, <1>4 DEF PlInv, Sizes, FitsDuration
  <2> QED BY <2>1, <2>3, <2>4, <2>6, <1>5 DEF SentBack, Apart
<1> QED BY <1>10, <1>11, <1>12, <1>13, <1>14 DEF PlInv

(* Every step of the calculation, and planning again, keeps the invariant. *)
LEMMA NextInv ==
  ASSUME PlInv, [Next]_vars
  PROVE  PlInv'
<1>1. CASE Prepare
  BY <1>1, PrepareInv
<1>2. CASE ReserveLocks
  BY <1>2, ReserveLocksInv
<1>3. CASE \E t \in todo : Keep(t)
  BY <1>3, KeepInv
<1>4. CASE StartPlacing
  BY <1>4, StartPlacingInv
<1>5. CASE \E t \in todo : AddPiece(t) \/ Reserve(t) \/ GiveUp(t)
  BY <1>5, AddPieceInv, ReserveInv, GiveUpInv
<1>6. CASE Return
  BY <1>6, ReturnInv
<1>7. CASE \E locked \in SUBSET blocks, delay \in Delay : Replan(locked, delay)
  BY <1>7, ReplanInv
<1>8. CASE UNCHANGED vars
  BY <1>8, StutterInv
<1> QED BY <1>1, <1>2, <1>3, <1>4, <1>5, <1>6, <1>7, <1>8 DEF Next, Calculate

----------------------------------------------------------------------------
(* What the invariant means for the answer.                                *)

LEMMA SavedMeansInspected ==
  ASSUME PlInv
  PROVE  PreviewCanBeSaved
<1> SUFFICES ASSUME phase = "done"
             PROVE  Inspect(blocks)
  BY DEF PreviewCanBeSaved
<1>1. PreviewRequest(request) /\ pieces = {} /\ IsFiniteSet(blocks)
  BY DEF PlInv, PlTypes, Phases
<1>2. Floor \in Int /\ Floor >= 0
  BY <1>1, FloorType, SizeAssumption
<1>3. ASSUME NEW b \in blocks
      PROVE  b.task \in Pending /\ ValidBlock(b, 0, Free(0, {}, 0))
  <2>1. b.task \in Pending /\ b.task \in Tasks /\ ValidBlock(b, Floor, Free(Floor, {}, 0))
    BY DEF PlInv, Layout, Standing, Pending
  <2>2. Earliest(b.task, 0) <= Earliest(b.task, Floor)
        /\ Earliest(b.task, 0) \in Int /\ Earliest(b.task, Floor) \in Int
    BY <1>1, <1>2, <2>1, BoundTypes
  <2>3. Free(Floor, {}, 0) \subseteq Free(0, {}, 0)
    BY <1>2, SizeAssumption DEF Free, Available
  <2>4. b.start \in Int
    BY DEF PlInv, PlTypes, Block
  <2> QED BY <2>1, <2>2, <2>3, <2>4 DEF ValidBlock
<1>4. \A b, c \in blocks : b = c \/ Apart(b, c)
  BY DEF PlInv, Layout, AllApart
<1>5. \A t \in Pending :
        LET own == {b \in blocks : b.task = t}
        IN  /\ Total(own) <= request.tasks[t].minutes
            /\ own # {} /\ ~request.tasks[t].splittable =>
                  Cardinality(own) = 1 /\ Total(own) = request.tasks[t].minutes
  BY DEF PlInv, Sizes, FitsDuration, Own
<1>6. Cardinality(blocks) <= MaxBlocks
  <2>1. Cardinality({}) = 0 /\ Cardinality(blocks) \in Nat
    BY <1>1, FS_EmptySet, FS_CardinalityType
  <2>2. Cardinality(blocks) + Cardinality(pieces) <= MaxBlocks
    BY DEF PlInv, Layout
  <2> QED BY <1>1, <2>1, <2>2
<1> QED BY <1>3, <1>4, <1>5, <1>6 DEF Inspect

LEMMA StandingIsNotBeforeNow ==
  ASSUME PlInv
  PROVE  NothingBeforeNow
<1> SUFFICES ASSUME NEW b \in blocks \cup pieces
             PROVE  2 * b.start >= request.halfMinute
  BY DEF NothingBeforeNow
<1>1. PreviewRequest(request) /\ Acceptable
  BY DEF PlInv, PlTypes, Phases
<1>2. Work(b) /\ Standing(b)
  BY StandingWork DEF PlInv, PlTypes, Layout
<1>3. b.start \in Minutes(b) /\ b.start \in Int
  BY <1>2 DEF Minutes, Work, Times
<1>4. b.start \in Floor..(Size - 1)
  BY <1>2, <1>3 DEF Standing, ValidBlock, Free, Available
<1>5. Floor \in Int /\ 2 * Floor >= request.halfMinute /\ request.halfMinute \in Int
  BY <1>1, FloorType, FloorIsNotBeforeNow, SizeAssumption DEF PreviewRequest
<1> QED BY <1>3, <1>4, <1>5, SizeAssumption

LEMMA ReportedIsWhole ==
  ASSUME PlInv
  PROVE  AllOrNothing
BY DEF PlInv, Phases, Reported, LocksStay, Planned, AllOrNothing

LEMMA SettledIsFirst ==
  ASSUME PlInv
  PROVE  PreviousFirst
BY DEF PlInv, PreviousSettled, Settled, Sent, OthersSent, PreviousFirst

(* A plan that is planned again meets no reason to move a block of it but  *)
(* the time that has passed.                                               *)
LEMMA SentBackIsStable ==
  ASSUME PlInv
  PROVE  PlanIsStable
<1> DEFINE moved(b) == ~WholePlacement(b.task) \/ \E c \in first : c.task = b.task /\ Begun(c)
<1> SUFFICES ASSUME replanned
             PROVE  /\ phase = "refused" => Overtaken
                    /\ phase = "done" => ~Overtaken
                    /\ phase = "done" => \A b \in first :
                      \/ \E c \in blocks : c.task = b.task /\ c.start = b.start /\ c.end = b.end
                      \/ ~request.previous[b].locked /\ moved(b)
  BY DEF PlanIsStable
<1>1. phase = "refused" => Overtaken
  BY DEF PlInv, SentBack
<1>2. ASSUME phase = "done", NEW b \in first, request.previous[b].locked \/ ~moved(b)
      PROVE  request.previous[b] \in blocks
  <2> DEFINE t == b.task
  <2>1. /\ PreviewRequest(request) /\ DOMAIN request.previous = first
        /\ \A c \in first : /\ request.previous[c].task = c.task
                            /\ request.previous[c].task \in Pending
                            /\ Begun(c) \/ Standing(request.previous[c])
        /\ \A c, d \in first : c = d \/ Apart(request.previous[c], request.previous[d])
    BY DEF PlInv, PlTypes, SentBack
  <2>2. t \in Pending /\ b \in Previous(t)
    BY <2>1 DEF Previous
  <2>3. CASE request.previous[b].locked
    <3>1. b \in Locks(t)
      BY <2>2, <2>3 DEF Locks
    <3>2. Sent(Locks(t)) \subseteq blocks
      BY <1>2, <2>2 DEF PlInv, LocksStay, Planned
    <3> QED BY <3>1, <3>2 DEF Sent
  <2>4. CASE ~moved(b)
    <3>1. Settled(t)
      BY <1>2, <2>2 DEF PlInv, PreviousSettled
    <3>2. \A i, j \in Previous(t) : i = j \/ Apart(request.previous[i], request.previous[j])
      BY <2>1 DEF Previous
    <3>3. ASSUME NEW i \in Previous(t)
          PROVE  ValidBlock(request.previous[i], Floor, Free(Floor, OthersSent(t), 0))
      <4> DEFINE p == request.previous[i]
      <4>1. i \in first /\ Work(p) /\ Standing(p)
        BY <2>1, <2>4, PreviousWork DEF Previous
      <4>2. \A w \in OthersSent(t) : Work(w) /\ Apart(p, w)
        <5>1. \A w \in OthersSent(t) : \E j \in first : w = request.previous[j] /\ j # i
          BY <2>1 DEF OthersSent, Previous
        <5> QED BY <5>1, <4>1, <2>1, PreviousWork
      <4> HIDE DEF p
      <4>3. Minutes(p) \subseteq Free(Floor, OthersSent(t), 0)
        BY <2>1, <4>1, <4>2, ApartIsFree DEF Standing, ValidBlock
      <4>4. ValidBlock(p, Floor, Free(Floor, OthersSent(t), 0))
        BY <4>1, <4>3 DEF Standing, ValidBlock
      <4> QED BY <4>4 DEF p
    <3>4. Sent(Previous(t)) \subseteq blocks
      BY <2>4, <3>1, <3>2, <3>3 DEF Settled, Sent
    <3> QED BY <2>2, <3>4 DEF Sent
  <2> QED BY <1>2, <2>3, <2>4
<1>3. \A b \in first : /\ request.previous[b].task = b.task
                       /\ request.previous[b].start = b.start
                       /\ request.previous[b].end = b.end
  BY DEF PlInv, SentBack
<1>4. ASSUME phase = "done"
      PROVE  ~Overtaken
  <2>1. request.halfMinute < 2 * DayLength /\ request.halfMinute \in Int
    BY <1>4 DEF PlInv, PlTypes, Phases, Planned, Acceptable, PreviewRequest
  <2>2. ASSUME NEW b \in first, request.previous[b].locked
        PROVE  ~Begun(b)
    <3>1. request.previous[b] \in blocks /\ request.previous[b] \in Block
      BY <1>2, <1>4, <2>2 DEF PlInv, PlTypes
    <3>2. 2 * request.previous[b].start >= request.halfMinute /\ b.start \in Int
      BY <3>1, <1>3, StandingIsNotBeforeNow DEF NothingBeforeNow, Block
    <3> QED BY <3>2, <1>3, <2>1 DEF Begun
  <2> QED BY <2>1, <2>2, SizeAssumption DEF Overtaken
<1>5. ASSUME phase = "done", NEW b \in first
      PROVE  \/ \E c \in blocks : c.task = b.task /\ c.start = b.start /\ c.end = b.end
             \/ ~request.previous[b].locked /\ moved(b)
  <2> HIDE DEF moved
  <2> QED BY <1>2, <1>3, <1>5
<1> QED BY <1>1, <1>4, <1>5

----------------------------------------------------------------------------
(* The theorems.                                                           *)

(* The request keeps its shape through every step; the budget of slots     *)
(* never runs below zero; blocks and pieces stand apart where work may     *)
(* stand and fit their tasks; locks stay; what a request sent as previous  *)
(* blocks is settled once and for all.                                     *)
THEOREM PlannerInvariant == Spec => []PlInv
<1>1. Init => PlInv
  BY InitInv
<1>2. PlInv /\ [Next]_vars => PlInv'
  BY NextInv
<1> QED BY <1>1, <1>2, PTL DEF Spec

(* Whatever build_preview returns, inspect_layout accepts.                 *)
THEOREM PlannerPreviewCanBeSaved == Spec => []PreviewCanBeSaved
<1>1. PlInv => PreviewCanBeSaved
  BY SavedMeansInspected
<1> QED BY <1>1, PlannerInvariant, PTL

(* No block, and no piece of a task at hand, starts before now.            *)
THEOREM PlannerNothingBeforeNow == Spec => []NothingBeforeNow
<1>1. PlInv => NothingBeforeNow
  BY StandingIsNotBeforeNow
<1> QED BY <1>1, PlannerInvariant, PTL

(* A task is placed whole, or reported once with all that is missing.      *)
THEOREM PlannerAllOrNothing == Spec => []AllOrNothing
<1>1. PlInv => AllOrNothing
  BY ReportedIsWhole
<1> QED BY <1>1, PlannerInvariant, PTL

(* A whole earlier placement is lost only to the hard constraints or to    *)
(* another earlier block that stays.                                       *)
THEOREM PlannerPreviousFirst == Spec => []PreviousFirst
<1>1. PlInv => PreviousFirst
  BY SettledIsFirst
<1> QED BY <1>1, PlannerInvariant, PTL

(* Planning again what was returned refuses nothing and moves nothing      *)
(* that is whole or locked.                                                *)
THEOREM PlannerPlanIsStable == Spec => []PlanIsStable
<1>1. PlInv => PlanIsStable
  BY SentBackIsStable
<1> QED BY <1>1, PlannerInvariant, PTL

----------------------------------------------------------------------------
(* Progress.  What a calculation has ahead of it: its phases, the tasks    *)
(* whose earlier placement is not treated yet, and the pieces that tasks   *)
(* may still be given, of which no task has more than MaxBlocks.           *)

AheadOf(q) ==
    CASE q = "prepare" -> {"prepare", "locks", "keep", "place"}
      [] q = "locks" -> {"locks", "keep", "place"}
      [] q = "keep" -> {"keep", "place"}
      [] q = "place" -> {"place"}
      [] OTHER -> {}

ToKeep == IF phase \in {"prepare", "locks"} THEN Pending ELSE IF phase = "keep" THEN todo ELSE {}

ToPlace ==
    IF phase \in {"prepare", "locks", "keep"} THEN Pending ELSE IF phase = "place" THEN todo ELSE {}

Given(t) == phase = "place" /\ Turn(t)

PhasesLeft == {"phase"} \X AheadOf(phase) \X {0}
KeepsLeft == {"keep"} \X ToKeep \X {0}
PiecesLeft == {x \in {"piece"} \X ToPlace \X (0..MaxBlocks) : Given(x[2]) => x[3] >= Cardinality(pieces)}

Left == PhasesLeft \cup KeepsLeft \cup PiecesLeft

LEMMA LeftFinite ==
  ASSUME PlInv
  PROVE  IsFiniteSet(Left)
<1>1. IsFiniteSet(Pending)
  <2>1. IsFiniteSet(Tasks) /\ Pending \subseteq Tasks
    BY DEF PlInv, PlTypes, PreviewRequest, Tasks, Pending
  <2> QED BY <2>1, FS_Subset
<1>2. todo \subseteq Pending
  BY DEF PlInv, PlTypes
<1>3. IsFiniteSet(ToKeep) /\ IsFiniteSet(ToPlace)
  <2>1. ToKeep \subseteq Pending /\ ToPlace \subseteq Pending
    BY <1>2 DEF ToKeep, ToPlace
  <2> QED BY <1>1, <2>1, FS_Subset
<1>4. IsFiniteSet(AheadOf(phase))
  <2>1. AheadOf(phase) \subseteq {"prepare", "locks", "keep", "place"}
    BY DEF AheadOf
  <2>2. IsFiniteSet({"prepare", "locks", "keep", "place"})
    <3>1. IsFiniteSet({"prepare"} \cup {"locks"} \cup {"keep"} \cup {"place"})
      BY FS_Singleton, FS_Union
    <3>2. {"prepare", "locks", "keep", "place"} = {"prepare"} \cup {"locks"} \cup {"keep"} \cup {"place"}
      OBVIOUS
    <3> QED BY <3>1, <3>2
  <2> QED BY <2>1, <2>2, FS_Subset
<1>5. IsFiniteSet({0}) /\ IsFiniteSet({"phase"}) /\ IsFiniteSet({"keep"}) /\ IsFiniteSet({"piece"})
      /\ IsFiniteSet(0..MaxBlocks)
  <2>1. 0 \in Int /\ MaxBlocks \in Int
    BY PlannerLimits
  <2> QED BY <2>1, FS_Singleton, FS_Interval
<1>6. \A A, B, C : IsFiniteSet(A) /\ IsFiniteSet(B) /\ IsFiniteSet(C) => IsFiniteSet(A \X B \X C)
  <2> SUFFICES ASSUME NEW A, NEW B, NEW C, IsFiniteSet(A), IsFiniteSet(B), IsFiniteSet(C)
               PROVE  IsFiniteSet(A \X B \X C)
    OBVIOUS
  <2> DEFINE f == [x \in (A \X B) \X C |-> <<x[1][1], x[1][2], x[2]>>]
  <2>1. IsFiniteSet((A \X B) \X C)
    BY FS_Product
  <2>2. f \in Surjection((A \X B) \X C, A \X B \X C)
    <3>1. f \in [(A \X B) \X C -> A \X B \X C]
      OBVIOUS
    <3>2. \A y \in A \X B \X C : \E x \in (A \X B) \X C : f[x] = y
      <4> TAKE y \in A \X B \X C
      <4>1. <<<<y[1], y[2]>>, y[3]>> \in (A \X B) \X C
        OBVIOUS
      <4>2. f[<<<<y[1], y[2]>>, y[3]>>] = y
        BY <4>1
      <4> QED BY <4>1, <4>2
    <3> HIDE DEF f
    <3> QED BY <3>1, <3>2 DEF Surjection
  <2> HIDE DEF f
  <2> QED BY <2>1, <2>2, FS_Surjection
<1>7. IsFiniteSet(PhasesLeft) /\ IsFiniteSet(KeepsLeft)
  BY <1>3, <1>4, <1>5, <1>6 DEF PhasesLeft, KeepsLeft
<1>8. IsFiniteSet(PiecesLeft)
  <2>1. PiecesLeft \subseteq {"piece"} \X ToPlace \X (0..MaxBlocks)
    BY DEF PiecesLeft
  <2>2. IsFiniteSet({"piece"} \X ToPlace \X (0..MaxBlocks))
    BY <1>3, <1>5, <1>6
  <2> QED BY <2>1, <2>2, FS_Subset
<1> QED BY <1>7, <1>8, FS_Union DEF Left

(* Every turn uses something up.                                           *)
Shrinks == Left' \subseteq Left /\ Left' # Left

LEMMA PhaseShrinks ==
  ASSUME AheadOf(phase') \subseteq AheadOf(phase), KeepsLeft' \subseteq KeepsLeft,
         PiecesLeft' \subseteq PiecesLeft,
         phase \in AheadOf(phase), phase \notin AheadOf(phase')
  PROVE  Shrinks
<1>1. <<"phase", phase, 0>> \in PhasesLeft /\ PhasesLeft' \subseteq PhasesLeft
      /\ <<"phase", phase, 0>> \notin PhasesLeft'
  BY DEF PhasesLeft
<1>2. <<"phase", phase, 0>> \notin KeepsLeft' /\ <<"phase", phase, 0>> \notin PiecesLeft'
  BY DEF KeepsLeft, PiecesLeft
<1> QED BY <1>1, <1>2 DEF Shrinks, Left

LEMMA KeepShrinks ==
  ASSUME phase' = phase, KeepsLeft' \subseteq KeepsLeft, PiecesLeft' \subseteq PiecesLeft,
         NEW t \in ToKeep, t \notin ToKeep'
  PROVE  Shrinks
<1>1. <<"keep", t, 0>> \in KeepsLeft /\ <<"keep", t, 0>> \notin KeepsLeft'
      /\ PhasesLeft' = PhasesLeft
  BY DEF PhasesLeft, KeepsLeft
<1>2. <<"keep", t, 0>> \notin PhasesLeft' /\ <<"keep", t, 0>> \notin PiecesLeft'
  BY DEF PhasesLeft, PiecesLeft
<1> QED BY <1>1, <1>2 DEF Shrinks, Left

LEMMA PieceShrinks ==
  ASSUME phase' = phase, KeepsLeft' \subseteq KeepsLeft, PiecesLeft' \subseteq PiecesLeft,
         NEW x \in PiecesLeft, x \notin PiecesLeft'
  PROVE  Shrinks
<1>1. PhasesLeft' = PhasesLeft
  BY DEF PhasesLeft
<1>2. x \notin PhasesLeft' /\ x \notin KeepsLeft'
  BY DEF PhasesLeft, KeepsLeft, PiecesLeft
<1> QED BY <1>1, <1>2 DEF Shrinks, Left

LEMMA CalculateShrinks ==
  ASSUME PlInv, Calculate
  PROVE  Shrinks
<1>1. Pending' = Pending /\ \A s, t : Before(s, t)' = Before(s, t)
  <2>1. request' = request
    BY DEF Calculate, Prepare, ReserveLocks, Keep, StartPlacing, AddPiece, Reserve, GiveUp, Return
  <2> QED BY <2>1, GridStays DEF SameGrid
<1>2. /\ todo \subseteq Pending /\ Cardinality(pieces) \in 0..MaxBlocks
      /\ phase # "place" => Cardinality(pieces) = 0
  <2>1. Cardinality(pieces) \in Nat /\ Cardinality(blocks) \in Nat
    BY FS_CardinalityType DEF PlInv, PlTypes
  <2>2. Cardinality(blocks) + Cardinality(pieces) <= MaxBlocks
    BY DEF PlInv, Layout
  <2> QED BY <2>1, <2>2, PlannerLimits, FS_EmptySet DEF PlInv, PlTypes, Phases
<1>3. CASE Prepare
  <2>1. phase = "prepare" /\ phase' \in {"locks", "refused"}
    BY <1>3 DEF Prepare
  <2>2. KeepsLeft' \subseteq KeepsLeft /\ PiecesLeft' \subseteq PiecesLeft
    BY <1>1, <2>1 DEF KeepsLeft, PiecesLeft, ToKeep, ToPlace, Given
  <2> QED BY <2>1, <2>2, PhaseShrinks DEF AheadOf
<1>4. CASE ReserveLocks
  <2>1. phase = "locks" /\ (phase' = "refused" \/ (phase' = "keep" /\ todo' = Pending))
    BY <1>4 DEF ReserveLocks, Pending
  <2>2. KeepsLeft' \subseteq KeepsLeft /\ PiecesLeft' \subseteq PiecesLeft
    BY <1>1, <2>1 DEF KeepsLeft, PiecesLeft, ToKeep, ToPlace, Given
  <2> QED BY <2>1, <2>2, PhaseShrinks DEF AheadOf
<1>5. ASSUME NEW t \in todo, Keep(t) PROVE Shrinks
  <2>1. phase = "keep" /\ phase' = "keep" /\ todo' = todo \ {t}
    BY <1>5 DEF Keep
  <2>2. KeepsLeft' \subseteq KeepsLeft /\ PiecesLeft' \subseteq PiecesLeft
    BY <1>1, <2>1 DEF KeepsLeft, PiecesLeft, ToKeep, ToPlace, Given
  <2>3. t \in ToKeep /\ t \notin ToKeep'
    BY <2>1 DEF ToKeep
  <2> QED BY <2>1, <2>2, <2>3, KeepShrinks
<1>6. CASE StartPlacing
  <2>1. phase = "keep" /\ phase' = "place" /\ todo = {} /\ todo' = Pending /\ pieces' = pieces
    BY <1>6 DEF StartPlacing
  <2>2. KeepsLeft' \subseteq KeepsLeft
    BY <1>1, <2>1 DEF KeepsLeft, ToKeep
  <2>3. PiecesLeft' \subseteq PiecesLeft
    BY <1>1, <2>1 DEF PiecesLeft, ToPlace, Given
  <2> QED BY <2>1, <2>2, <2>3, PhaseShrinks DEF AheadOf
<1>7. ASSUME NEW t \in todo, AddPiece(t) PROVE Shrinks
  <2>1. phase = "place" /\ phase' = phase /\ todo' = todo /\ Turn(t) /\ Remaining(t) > 0
        /\ \A s : Turn(s)' <=> Turn(s)
    BY <1>1, <1>7 DEF AddPiece, Turn
  <2>2. Cardinality(pieces') = Cardinality(pieces) + 1
    <3>1. PICK w \in Slots(t) : pieces' = pieces \cup {Piece(t, w)}
      BY <1>7 DEF AddPiece, Piece
    <3>2. Piece(t, w) \notin pieces
      BY <2>1, SlotFits
    <3> QED BY <3>1, <3>2, FS_AddElement DEF PlInv, PlTypes
  <2>3. KeepsLeft' \subseteq KeepsLeft
    BY <2>1 DEF KeepsLeft, ToKeep
  <2>4. PiecesLeft' \subseteq PiecesLeft
    BY <1>2, <2>1, <2>2 DEF PiecesLeft, ToPlace, Given
  <2>5. <<"piece", t, Cardinality(pieces)>> \in PiecesLeft
    BY <1>2, <2>1 DEF PiecesLeft, ToPlace
  <2>6. <<"piece", t, Cardinality(pieces)>> \notin PiecesLeft'
    BY <1>2, <2>1, <2>2 DEF PiecesLeft, Given
  <2> QED BY <2>1, <2>3, <2>4, <2>5, <2>6, PieceShrinks
<1>8. ASSUME NEW t \in todo, Reserve(t) \/ GiveUp(t) PROVE Shrinks
  <2>1. phase = "place" /\ phase' = phase /\ Turn(t) /\ todo' = todo \ {t}
    BY <1>8 DEF Reserve, GiveUp
  <2>2. \A s \in todo' : ~Turn(s)
    BY <2>1, OneTurn DEF PlInv, PlTypes
  <2>3. KeepsLeft' \subseteq KeepsLeft
    BY <2>1 DEF KeepsLeft, ToKeep
  <2>4. PiecesLeft' \subseteq PiecesLeft
    BY <2>1, <2>2 DEF PiecesLeft, ToPlace, Given
  <2>5. <<"piece", t, Cardinality(pieces)>> \in PiecesLeft
    BY <1>2, <2>1 DEF PiecesLeft, ToPlace
  <2>6. <<"piece", t, Cardinality(pieces)>> \notin PiecesLeft'
    BY <2>1 DEF PiecesLeft, ToPlace
  <2> QED BY <2>1, <2>3, <2>4, <2>5, <2>6, PieceShrinks
<1>9. CASE Return
  <2>1. phase = "place" /\ phase' = "done"
    BY <1>9 DEF Return
  <2>2. KeepsLeft' \subseteq KeepsLeft /\ PiecesLeft' \subseteq PiecesLeft
    BY <2>1 DEF KeepsLeft, PiecesLeft, ToKeep, ToPlace
  <2> QED BY <2>1, <2>2, PhaseShrinks DEF AheadOf
<1> QED BY <1>3, <1>4, <1>5, <1>6, <1>7, <1>8, <1>9 DEF Calculate

(* Among the tasks to be treated there is one whose turn it is: one with   *)
(* the fewest before it.                                                   *)
LEMMA LeastNumber ==
    ASSUME NEW S, S \subseteq Nat, S # {}
    PROVE  \E m \in S : \A n \in S : m <= n
<1>1. \E R : IsWellFoundedOn(R, Nat) /\ \A m, n \in Nat : m < n => <<m, n>> \in R
  <2>1. \A m, n \in Nat : m < n => <<m, n>> \in OpToRel(<, Nat)
    BY DEF OpToRel
  <2> WITNESS OpToRel(<, Nat)
  <2> QED BY <2>1, NatLessThanWellFounded
<1>2. PICK R : IsWellFoundedOn(R, Nat) /\ \A m, n \in Nat : m < n => <<m, n>> \in R
  BY <1>1
<1>3. PICK m \in S : \A n \in S : <<n, m>> \notin R
  <2>1. IsWellFoundedOn(R, Nat)
    BY <1>2
  <2> QED BY ONLY <2>1, WFMin, S \subseteq Nat, S # {}
<1>4. \A n \in S : m \in Nat /\ n \in Nat /\ ~(n < m)
  BY <1>2, <1>3
<1>5. \A n \in S : m <= n
  BY <1>4
<1> QED BY <1>5

LEMMA SomeTurn ==
  ASSUME PreviewRequest(request), todo \subseteq Pending, todo # {}
  PROVE  \E t \in todo : Turn(t)
<1> DEFINE earlier(t) == {s \in todo : Before(s, t)}
           numbers == {Cardinality(earlier(t)) : t \in todo}
<1>1. IsFiniteSet(todo)
  <2>1. IsFiniteSet(Tasks) /\ todo \subseteq Tasks
    BY DEF PreviewRequest, Tasks, Pending
  <2> QED BY <2>1, FS_Subset
<1>2. \A t \in todo : IsFiniteSet(earlier(t)) /\ Cardinality(earlier(t)) \in Nat
  <2> TAKE t \in todo
  <2>1. earlier(t) \subseteq todo
    OBVIOUS
  <2> HIDE DEF earlier
  <2> QED BY <1>1, <2>1, FS_Subset, FS_CardinalityType
<1>3. \A t \in todo : /\ t \in Int /\ request.tasks[t].deadline \in Int
                      /\ request.tasks[t].priority \in Int
  BY DEF PreviewRequest, Tasks, Task, Pending, TaskRecord
<1>4. /\ \A s, t, u \in todo : Before(s, t) /\ Before(t, u) => Before(s, u)
      /\ \A t \in todo : ~Before(t, t)
      /\ \A s, t \in todo : s = t \/ Before(s, t) \/ Before(t, s)
  BY <1>3, SizeAssumption DEF Before
<1>5. PICK t \in todo : \A s \in todo : Cardinality(earlier(t)) <= Cardinality(earlier(s))
  <2>1. numbers # {} /\ numbers \subseteq Nat
    BY <1>2
  <2>2. PICK m \in numbers : \A n \in numbers : m <= n
    <3> HIDE DEF numbers
    <3> QED BY <2>1, LeastNumber
  <2> QED BY <2>2
<1>6. ASSUME NEW s \in earlier(t) PROVE FALSE
  <2>1. s \in todo /\ earlier(s) \subseteq earlier(t) \ {s}
    BY <1>4
  <2>2. Cardinality(earlier(t)) <= Cardinality(earlier(s)) /\ Cardinality(earlier(s)) \in Nat
        /\ Cardinality(earlier(t)) \in Nat /\ IsFiniteSet(earlier(t))
    BY <1>2, <1>5, <2>1
  <2> HIDE DEF earlier
  <2>3. Cardinality(earlier(t) \ {s}) = Cardinality(earlier(t)) - 1 /\ IsFiniteSet(earlier(t) \ {s})
    BY <1>6, <2>2, FS_RemoveElement
  <2>4. Cardinality(earlier(s)) <= Cardinality(earlier(t) \ {s})
    BY <2>1, <2>3, FS_Subset
  <2> QED BY <2>2, <2>3, <2>4
<1>7. \A s \in todo \ {t} : Before(t, s)
  BY <1>4, <1>6
<1> QED BY <1>7 DEF Turn

(* Until it has answered or refused, some step of the calculation has its  *)
(* conditions met, in terms of the loops: a task has its turn or none is   *)
(* left, and what it still asks for is never less than nothing.            *)
Ready ==
    phase \notin {"done", "refused"} =>
        \/ phase \in {"prepare", "locks"}
        \/ phase \in {"keep", "place"} /\ todo = {}
        \/ phase \in {"keep", "place"} /\ \E t \in todo : Turn(t) /\ Remaining(t) \in Nat

LEMMA InvReady ==
  ASSUME PlInv
  PROVE  Ready
<1>1. ASSUME NEW t \in todo, Turn(t) PROVE Remaining(t) \in Nat
  <2>1. /\ Remaining(t) = request.tasks[t].minutes - Total(Own(t) \cup pieces)
        /\ t \in Pending /\ Total(Own(t) \cup pieces) \in Nat
        /\ FitsDuration(t, Own(t) \cup pieces)
    BY <1>1, RemainingWork
  <2>2. request.tasks[t].minutes \in Nat /\ Total(Own(t) \cup pieces) <= request.tasks[t].minutes
    BY <2>1, DurationTypes DEF FitsDuration, PlInv, PlTypes
  <2> QED BY <2>1, <2>2
<1>2. todo # {} => \E t \in todo : Turn(t)
  BY SomeTurn DEF PlInv, PlTypes
<1> QED BY <1>1, <1>2 DEF Ready, PlInv, PlTypes

(* A calculation has only finitely many turns: each uses up something of   *)
(* what was ahead of it, however its choices fall, so that no search or    *)
(* loop is repeated without end.                                           *)
THEOREM PlannerTurnsAreBounded ==
  Spec => [][Calculate => IsFiniteSet(Left) /\ Left' \subseteq Left /\ Left' # Left]_vars
<1>1. PlInv /\ [Next]_vars =>
        [Calculate => IsFiniteSet(Left) /\ Left' \subseteq Left /\ Left' # Left]_vars
  BY LeftFinite, CalculateShrinks DEF Shrinks
<1> QED BY <1>1, PlannerInvariant, PTL DEF Spec

(* And it does not get stuck: until there is an answer, a loop has ended   *)
(* or a task has its turn, with no more placed than it asks for.           *)
THEOREM PlannerGoesOn == Spec => []Ready
<1>1. PlInv => Ready
  BY InvReady
<1> QED BY <1>1, PlannerInvariant, PTL
============================================================================
