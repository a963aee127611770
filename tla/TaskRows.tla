------------------------------ MODULE TaskRows ------------------------------
(***************************************************************************)
(* What one user's tasks and recurring activities are made of, and what    *)
(* the calls of the task API ask for.  A row stands at its number in its   *)
(* table; numbers are given in the order of insertion and, as rows are     *)
(* only ever marked as deleted, are never used again.                      *)
(***************************************************************************)
EXTENDS Integers, Sequences, FiniteSets

CONSTANTS
    Request,        \* client_request_id values
    Content,        \* what a task says: its duration and the room it has
    Pattern,        \* what a recurring activity says
    Day,            \* calendar days
    Week,           \* days of a week
    Missing,        \* days that do not exist, or are too short, in the time zone
    MaxVersion,     \* the largest Version
    Call            \* calls that clients make

Fields == {"minutes", "room"}

ASSUME ContentAssumption == Content \subseteq [Fields -> Nat]
ASSUME DayAssumption == Day \subseteq Nat /\ Day # {} /\ IsFiniteSet(Day) /\ Missing \subseteq Nat
ASSUME LimitAssumption == Week \in Nat \ {0} /\ MaxVersion \in Nat \ {0}
ASSUME PatternAssumption ==
    Pattern \subseteq [content : Content, frequency : {"daily", "weekdays", "weekly"},
                       weekdays : SUBSET (0..(Week - 1)), first : Day, last : Nat,
                       active : BOOLEAN]

NoRequest == "generated"
NoDigest == [op |-> "none"]
NoSeries == 0

(* The room between the earliest start and the deadline holds the task.    *)
Valid(content) == content.minutes <= content.room

Calls ==
    [op : {"create"}, request : Request, content : Content]
    \cup [op : {"update"}, task : Nat, expected : 1..MaxVersion,
          field : Fields, value : Nat]
    \cup [op : {"delete"}, task : Nat, expected : 1..MaxVersion]
    \cup [op : {"open"}, request : Request, pattern : Pattern]
    \cup [op : {"replace"}, series : Nat, expected : 1..MaxVersion, pattern : Pattern]
    \cup [op : {"drop"}, series : Nat, expected : 1..MaxVersion]
    \cup [op : {"materialize"}, series : Nat, expected : 1..MaxVersion,
          start : Day, days : {1, Week}]

ASSUME CallAssumption ==
    /\ Call \subseteq Calls
    /\ \A c \in Call : /\ c.op = "create" => Valid(c.content)
                       /\ c.op = "update" => \A old \in Content :
                              [old EXCEPT ![c.field] = c.value] \in Content

Patched(content, c) == [content EXCEPT ![c.field] = c.value]

Window(c) == c.start..(c.start + c.days - 1)
Weekday(day) == day % Week

(* The days that occurrence_dates selects.                                 *)
OccurrenceDates(p, days) ==
    {d \in days : /\ p.active
                  /\ p.first <= d /\ d <= p.last
                  /\ p.frequency = "weekly" => Weekday(d) = Weekday(p.first)
                  /\ p.frequency = "weekdays" => Weekday(d) \in p.weekdays}

NewTask(c) == [request |-> c.request, digest |-> c.content, content |-> c.content,
               version |-> 1, deleted |-> FALSE, series |-> NoSeries, day |-> 0]
NewSeries(c) == [request |-> c.request, digest |-> c.pattern, pattern |-> c.pattern,
                 version |-> 1, deleted |-> FALSE]
Occurrence(s, p, day) ==
    [request |-> NoRequest, digest |-> NoDigest, content |-> p.content,
     version |-> 1, deleted |-> FALSE, series |-> s, day |-> day]

(* The rows of some days, one for each, in the order of the days.          *)
Occurrences(s, p, days) ==
    [i \in 1..Cardinality(days) |->
        Occurrence(s, p, CHOOSE d \in days : Cardinality({e \in days : e < d}) = i - 1)]

(* What a client was answered, and about which rows; a call that is        *)
(* refused for another reason, or fails, leaves no answer.                 *)
NoAnswer == [outcome |-> "none"]
=============================================================================
