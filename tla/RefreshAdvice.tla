--------------------------- MODULE RefreshAdvice ---------------------------
(***************************************************************************)
(* The planning page and the advice it gives beside a schedule whose       *)
(* sources have changed: build a fresh one.  The module adds to WebClient  *)
(* one history variable, which follows the advice from the schedule it was *)
(* shown for, over the preview that was asked for, to the save.            *)
(***************************************************************************)
EXTENDS WebClient

VARIABLE advice     \* history variable: the stale schedule that was open when the
                    \* call in a slot, or the preview on the page, was asked for

Page == "page"      \* where the advice behind the preview on the page is kept; no slot

(* What renderSavedSchedule advises on the open schedule when day d is     *)
(* planned: the schedule, when it is of that day and shown as stale.       *)
Advised(d) == IF saved.day = d /\ saved.stale THEN saved ELSE NoPlan

PlanOn(s, d) == Plan(s, d) /\ advice' = [advice EXCEPT ![s] = Advised(d)]

HearPreviewOn(s) == HearPreview(s) /\ advice' = [advice EXCEPT ![Page] = advice[s]]

SaveOn(s) == Save(s) /\ advice' = [advice EXCEPT ![s] = advice[Page]]

InitAdvice == Init /\ advice = [x \in Slot \cup {Page} |-> NoPlan]

NextAdvice ==
    \/ \E s \in Slot : (\E d \in Day : PlanOn(s, d)) \/ HearPreviewOn(s) \/ SaveOn(s)
    \/ /\ \/ Elsewhere
          \/ \E s \in Slot :
                \/ \E d \in Day : Load(s, d)
                \/ EditBlock(s) \/ Travel(s)
                \/ ChangeSource(s, "task") \/ ChangeSource(s, "preferences")
                \/ Serve(s)
                \/ HearStored(s) \/ HearLoad(s) \/ HearRefresh(s)
                \/ HearTask(s) \/ HearPreferences(s) \/ HearFailure(s)
       /\ UNCHANGED advice

SpecAdvice == InitAdvice /\ [][NextAdvice]_<<vars, advice>>

(* The layout a creation sends was planned for the day of a stale schedule *)
(* while the page had that schedule open and advised to build a fresh one, *)
(* and nobody has touched the schedule since.                              *)
FollowsAdvice(s) ==
    LET old == advice[s]
        about == calls[s].about
    IN  /\ calls[s].kind = "create" /\ old # NoPlan
        /\ about.input = old.day /\ about.preview.day = old.day
        /\ version[old.day] = old.version /\ basis[old.day] = old.basis

(* "The sources of the schedule have changed; before a change or an undo,  *)
(* build a fresh schedule" (app.js, renderSavedSchedule): a layout that    *)
(* was built on that advice, from current sources, and is saved as it is,  *)
(* is not turned away because of the very schedule that was to be renewed. *)
AdviceCanBeFollowed ==
    [][\A s \in Slot :
          FollowsAdvice(s) /\ calls[s].stage = "sent" /\ calls'[s] # calls[s]
              /\ calls'[s].kind = "create" /\ calls'[s].stage = "served" =>
          calls'[s].answer.outcome # "overlap"]_vars
=============================================================================
