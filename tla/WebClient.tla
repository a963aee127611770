------------------------------ MODULE WebClient ------------------------------
(***************************************************************************)
(* The planning page of app.js against the schedules of its account.  The  *)
(* page is one thread; between sending a call and handling its answer the  *)
(* user goes on, other answers come, in any order, and other pages change  *)
(* the same schedules and what they were planned from.  A schedule is      *)
(* named by its day, for horizons do not overlap and nothing is deleted.   *)
(* Tasks and preferences are one source with one version.                  *)
(***************************************************************************)
EXTENDS Integers

CONSTANTS
    Day,            \* horizons to plan
    Slot,           \* calls that may be under way
    SourceLimit,    \* bound on the versions of tasks and preferences
    VersionLimit    \* bound on the versions of a schedule

NoDay == 0

ASSUME WebClientAssumption == {SourceLimit, VersionLimit} \subseteq Nat /\ NoDay \notin Day

NoPlan == [day |-> NoDay, version |-> 0, basis |-> 0, stale |-> FALSE]
NoPreview == [of |-> "nothing"]
NoCall == [kind |-> "none"]
Nothing == [outcome |-> "none"]

VARIABLES
    source,         \* server: version of the tasks and preferences
    version,        \* server: version of the schedule of each day, 0 for none
    basis,          \* server: source version of its current state
    calls,          \* calls under way
    saved,          \* state.saved
    preview,        \* state.preview: a planner's answer or a saved schedule
    input,          \* day of state.previewInput
    saveForm,       \* whether save-schedule-form is shown
    blockForm       \* day and version of the block that block-form shows

server == <<source, version, basis>>
page == <<saved, preview, input, saveForm, blockForm>>
vars == <<server, calls, page>>

(* A schedule as the server shows it, with its sources.stale.              *)
View(d) == [day |-> d, version |-> version[d], basis |-> basis[d], stale |-> basis[d] # source]

----------------------------------------------------------------------------
(* What the page renders.                                                  *)

OfSaved(plan) == [of |-> "saved", day |-> plan.day, version |-> plan.version]

RenderPreview ==
    saveForm' = (preview' # NoPreview /\ saved' = NoPlan /\ input' # NoDay)

RenderSaved == blockForm' = [day |-> saved'.day, version |-> saved'.version]

(* Variant with a defect: the saved schedule is not drawn anew.            *)
SetSavedUndrawn(plan) ==
    saved' = plan /\ preview' = OfSaved(plan) /\ RenderPreview /\ UNCHANGED <<input, blockForm>>
(* Variant with a defect: the preview is left as it was.                   *)
SetSavedOnly(plan) ==
    saved' = plan /\ preview' = preview /\ RenderPreview /\ RenderSaved /\ UNCHANGED input
(* Variant with a defect: the form of a first save stays.                  *)
SetSavedBesideForm(plan) ==
    saved' = plan /\ preview' = OfSaved(plan) /\ RenderSaved /\ UNCHANGED <<input, saveForm>>

(* A saved schedule arrives, by whichever call: it is shown.               *)
SetSaved(plan) ==
    saved' = plan /\ preview' = OfSaved(plan) /\ RenderPreview /\ RenderSaved /\ UNCHANGED input

----------------------------------------------------------------------------
(* What the user does.                                                     *)

Call(kind, about) == [kind |-> kind, stage |-> "sent", about |-> about, answer |-> Nothing]
Send(s, kind, about) ==
    calls[s] = NoCall /\ calls' = [calls EXCEPT ![s] = Call(kind, about)] /\ UNCHANGED server

(* schedule-form: the input is set before the answer is awaited.           *)
Plan(s, d) ==
    /\ input' = d
    /\ Send(s, "preview", [day |-> input'])
    /\ UNCHANGED <<saved, preview, saveForm, blockForm>>

(* save-schedule-form: the input as it is now, the blocks as answered.     *)
Save(s) ==
    /\ saveForm /\ preview # NoPreview /\ input # NoDay
    /\ Send(s, "create", [input |-> input, preview |-> preview])
    /\ UNCHANGED page

(* block-form: a block of the saved content takes the times of the form;   *)
(* the version and the source versions of the schedule go with it.         *)
EditBlock(s) ==
    /\ saved # NoPlan
    /\ LET plan == [day |-> saved.day, version |-> saved.version, basis |-> saved.basis]
       IN  Send(s, "replace", [plan |-> plan, form |-> blockForm])
    /\ UNCHANGED page

Travel(s) ==
    /\ saved # NoPlan
    /\ Send(s, "travel", [plan |-> [day |-> saved.day, version |-> saved.version]])
    /\ UNCHANGED page

Load(s, d) == version[d] > 0 /\ Send(s, "load", [day |-> d]) /\ UNCHANGED page

(* task-form and the other forms that change what is planned from; the     *)
(* preferences-form is the one that also drops the preview.                *)
ChangeSource(s, kind) == Send(s, kind, Nothing) /\ UNCHANGED page

----------------------------------------------------------------------------
(* The server, and the other pages.                                        *)

Store(d, fresh) ==
    /\ fresh <= VersionLimit
    /\ version' = [version EXCEPT ![d] = fresh]
    /\ basis' = [basis EXCEPT ![d] = source]
    /\ UNCHANGED source

MoveSource == source < SourceLimit /\ source' = source + 1 /\ UNCHANGED <<version, basis>>

(* What a call was about is of no use to the page that hears the answer.   *)
Answered(s, answer) ==
    calls' = [calls EXCEPT ![s] =
        IF @.stage = "unheard" THEN NoCall
        ELSE [@ EXCEPT !.stage = "served", !.about = Nothing, !.answer = answer]]
(* What a refusal says is only shown; that of an overlap is told apart.    *)
Refusal(s, outcome) == Answered(s, [outcome |-> outcome]) /\ UNCHANGED server
Refused(s) == Refusal(s, "refused")
Shown(s, plan) == Answered(s, [outcome |-> "plan", plan |-> plan])
Stored(s, d, fresh) ==
    /\ Store(d, fresh)
    /\ Shown(s, [day |-> d, version |-> fresh, basis |-> source, stale |-> FALSE])

(* POST schedules: sources, layout, horizon, in this order.                *)
Create(s, a) ==
    IF a.preview.basis # source THEN Refused(s)
    ELSE \/ Refused(s)
         \/ IF version[a.input] > 0 THEN Refusal(s, "overlap") ELSE Stored(s, a.input, 1)

(* PUT schedules: version, sources, layout.                                *)
Replace(s, a) ==
    IF a.plan.version # version[a.plan.day] THEN Refused(s)
    ELSE IF a.plan.basis # source THEN Refused(s)
    ELSE Refused(s) \/ Stored(s, a.plan.day, a.plan.version + 1)

(* POST undo or redo: the neighbour state exists and is fresh, or not.     *)
Move(s, a) ==
    IF a.plan.version # version[a.plan.day] THEN Refused(s)
    ELSE Refused(s) \/ Stored(s, a.plan.day, a.plan.version + 1)

Serve(s) ==
    LET kind == calls[s].kind
        a == calls[s].about
    IN  /\ kind # "none" /\ calls[s].stage \in {"sent", "unheard"}
        /\ \/ kind \in {"refresh", "load"} /\ UNCHANGED server
              /\ Shown(s, IF a.day = NoDay THEN NoPlan ELSE View(a.day))
           \/ kind = "preview"
              /\ \/ Refused(s)
                 \/ UNCHANGED server
                    /\ Answered(s, [outcome |-> "preview", preview |->
                           [of |-> "planner", day |-> a.day, basis |-> source]])
           \/ kind = "create" /\ Create(s, a)
           \/ kind = "replace" /\ Replace(s, a)
           \/ kind = "travel" /\ Move(s, a)
           \/ kind \in {"task", "preferences"}
              /\ \/ Refused(s)
                 \/ MoveSource /\ Answered(s, [outcome |-> "done"])
        /\ UNCHANGED page

Elsewhere ==
    /\ MoveSource \/ \E d \in Day : Store(d, version[d] + 1)
    /\ UNCHANGED <<calls, page>>

----------------------------------------------------------------------------
(* Answers, in any order.                                                  *)

Heard(s, kinds, outcome) ==
    calls[s].kind \in kinds /\ calls[s].stage = "served" /\ calls[s].answer.outcome = outcome

Free(s) == calls' = [calls EXCEPT ![s] = NoCall]
Follow(s, kind, d) == calls' = [calls EXCEPT ![s] = Call(kind, [day |-> d])]

(* applySchedule, which ends in a refresh.                                 *)
HearStored(s) ==
    /\ Heard(s, {"create", "replace", "travel"}, "plan")
    /\ SetSaved(calls[s].answer.plan)
    /\ Follow(s, "refresh", saved'.day)
    /\ UNCHANGED server

HearLoad(s) ==
    /\ Heard(s, {"load"}, "plan")
    /\ SetSaved(calls[s].answer.plan) /\ Free(s)
    /\ UNCHANGED server

(* refresh: the schedule that was open when it was sent.                   *)
HearRefresh(s) ==
    /\ Heard(s, {"refresh"}, "plan")
    /\ IF calls[s].answer.plan # NoPlan THEN SetSaved(calls[s].answer.plan)
       ELSE UNCHANGED <<saved, preview, input>> /\ RenderPreview /\ RenderSaved
    /\ Free(s)
    /\ UNCHANGED server

(* schedule-form: the saved schedule gives way.  Without an input there is *)
(* no day to draw, which ends as a failure after the change of state.      *)
HearPreview(s) ==
    /\ Heard(s, {"preview"}, "preview")
    /\ saved' = NoPlan
    /\ IF input = NoDay THEN preview' = NoPreview /\ UNCHANGED blockForm
       ELSE preview' = calls[s].answer.preview /\ RenderSaved
    /\ UNCHANGED input /\ RenderPreview /\ Free(s)
    /\ UNCHANGED server

HearTask(s) ==
    /\ Heard(s, {"task"}, "done")
    /\ Follow(s, "refresh", saved.day)
    /\ UNCHANGED <<server, page>>

HearPreferences(s) ==
    /\ Heard(s, {"preferences"}, "done")
    /\ preview' = NoPreview /\ input' = NoDay /\ UNCHANGED <<saved, blockForm>>
    /\ RenderPreview
    /\ IF saved = NoPlan THEN Free(s) ELSE Follow(s, "load", saved.day)
    /\ UNCHANGED server

Fail(s) ==
    /\ IF calls[s].kind = "preview"
       THEN preview' = NoPreview /\ UNCHANGED <<saved, input, blockForm>> /\ RenderPreview
       ELSE UNCHANGED page
    /\ UNCHANGED server

(* A refusal, a lost answer, or a lost connection under a call that the    *)
(* server may still serve, which only matters when the call changes it.    *)
HearFailure(s) ==
    /\ calls[s].kind # "none" /\ calls[s].stage \in {"sent", "served"}
    /\ \/ Free(s)
       \/ /\ calls[s].stage = "sent" /\ calls[s].kind \notin {"preview", "load", "refresh"}
          /\ calls' = [calls EXCEPT ![s].stage = "unheard"]
    /\ Fail(s)

----------------------------------------------------------------------------
Init ==
    /\ source = 1 /\ version = [d \in Day |-> 0] /\ basis = [d \in Day |-> 0]
    /\ calls = [s \in Slot |-> NoCall]
    /\ saved = NoPlan /\ preview = NoPreview /\ input = NoDay
    /\ saveForm = FALSE /\ blockForm = [day |-> NoDay, version |-> 0]

Next ==
    \/ Elsewhere
    \/ \E s \in Slot :
          \/ \E d \in Day : Plan(s, d) \/ Load(s, d)
          \/ Save(s) \/ EditBlock(s) \/ Travel(s)
          \/ ChangeSource(s, "task") \/ ChangeSource(s, "preferences")
          \/ Serve(s)
          \/ HearStored(s) \/ HearLoad(s) \/ HearRefresh(s) \/ HearPreview(s)
          \/ HearTask(s) \/ HearPreferences(s) \/ HearFailure(s)

Spec == Init /\ [][Next]_vars

----------------------------------------------------------------------------
(* However late answers come, the layout that is drawn beside a saved      *)
(* schedule is the layout of that version: the one that the next command   *)
(* names and the one that is exported.                                     *)
ShownLayoutIsSaved ==
    saved # NoPlan /\ preview # NoPreview => preview = OfSaved(saved)

(* The form of a first save is open only over a layout the planner gave,   *)
(* with an input to send, and never beside a saved schedule, of which it   *)
(* would make a second one.                                                *)
SaveFormOverPreview ==
    saveForm => saved = NoPlan /\ preview.of = "planner" /\ input # NoDay

(* An accepted edit replaces the version whose block the user saw in the   *)
(* form, in one schedule: no late answer brings the times of one version   *)
(* under the number of another, and nobody's edit is lost unseen.          *)
NoBlindReplacement ==
    [][\A s \in Slot :
          calls[s].kind = "replace" /\ calls[s].stage \in {"sent", "unheard"} /\ version' # version
              /\ calls'[s] # calls[s] =>
          LET form == calls[s].about.form
          IN  /\ form.day \in Day
              /\ version[form.day] = form.version /\ version'[form.day] = form.version + 1]_vars
=============================================================================
