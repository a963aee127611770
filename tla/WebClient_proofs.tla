-------------------------- MODULE WebClient_proofs --------------------------
(***************************************************************************)
(* Proofs about WebClient for every value of its constants.                *)
(***************************************************************************)
EXTENDS WebClient, TLAPS

Kinds == {"preview", "create", "replace", "travel", "load", "refresh", "task", "preferences"}

(* What is drawn belongs to what is saved, or comes from the planner.      *)
PageFits ==
    /\ saved = NoPlan \/ saved.day \in Day
    /\ input \in Day \cup {NoDay}
    /\ saved # NoPlan => blockForm = [day |-> saved.day, version |-> saved.version]
    /\ preview = NoPreview \/ (saved # NoPlan /\ preview = OfSaved(saved))
                           \/ (saved = NoPlan /\ preview.of = "planner")
    /\ saveForm => saved = NoPlan /\ preview.of = "planner" /\ input # NoDay

(* What a call is about was so when it was sent, until it is served, and   *)
(* what answers say.                                                       *)
CallFits(call) ==
    /\ call = [kind |-> call.kind, stage |-> call.stage, about |-> call.about, answer |-> call.answer]
    /\ call.kind \in Kinds /\ call.stage \in {"sent", "unheard", "served"}
    /\ call.stage # "served" =>
          /\ call.kind = "load" => call.about.day \in Day
          /\ call.kind = "refresh" => call.about.day \in Day \cup {NoDay}
          /\ call.kind = "create" => call.about.input \in Day
          /\ call.kind = "travel" => call.about.plan.day \in Day
          /\ call.kind = "replace" =>
                /\ call.about.plan.day \in Day
                /\ call.about.form = [day |-> call.about.plan.day, version |-> call.about.plan.version]
    /\ call.stage = "served" /\ call.answer.outcome = "plan" =>
          \/ call.answer.plan.day \in Day
          \/ call.kind = "refresh" /\ call.answer.plan = NoPlan
    /\ call.stage = "served" /\ call.answer.outcome = "preview" =>
          call.answer.preview.of = "planner"
CallsFit ==
    /\ DOMAIN calls = Slot
    /\ \A s \in Slot : calls[s] = NoCall \/ CallFits(calls[s])

ClientInv == DOMAIN version = Day /\ PageFits /\ CallsFit

LEMMA InitClientInv == Init => ClientInv
BY DEF Init, ClientInv, PageFits, CallsFit, NoPlan, NoPreview, NoDay

(* A new call, or none, in one slot.                                       *)
LEMMA SlotKeeps ==
    ASSUME CallsFit, NEW s \in Slot, NEW call, calls' = [calls EXCEPT ![s] = call],
           call = NoCall \/ CallFits(call)
    PROVE  CallsFit'
BY DEF CallsFit

LEMMA KindOfCall ==
    ASSUME CallsFit, NEW s \in Slot, calls[s].kind # "none"
    PROVE  CallFits(calls[s])
BY DEF CallsFit, NoCall

----------------------------------------------------------------------------
(* The user.                                                               *)

LEMMA PlanKeeps ==
    ASSUME ClientInv, NEW s \in Slot, NEW d \in Day, Plan(s, d)
    PROVE  ClientInv'
<1>1. PageFits'
  BY WebClientAssumption DEF Plan, ClientInv, PageFits
<1>2. CallFits(Call("preview", [day |-> input']))
  BY DEF CallFits, Call, Kinds, Nothing
<1> QED BY <1>1, <1>2, SlotKeeps DEF Plan, Send, ClientInv, server

LEMMA SaveKeeps ==
    ASSUME ClientInv, NEW s \in Slot, Save(s)
    PROVE  ClientInv'
<1>1. PageFits'
  BY DEF Save, page, ClientInv, PageFits
<1>2. CallFits(Call("create", [input |-> input, preview |-> preview]))
  BY DEF CallFits, Call, Kinds, Nothing, Save, ClientInv, PageFits
<1> QED BY <1>1, <1>2, SlotKeeps DEF Save, Send, ClientInv, server

LEMMA EditBlockKeeps ==
    ASSUME ClientInv, NEW s \in Slot, EditBlock(s)
    PROVE  ClientInv'
<1>1. PageFits'
  BY DEF EditBlock, page, ClientInv, PageFits
<1> DEFINE plan == [day |-> saved.day, version |-> saved.version, basis |-> saved.basis]
           call == Call("replace", [plan |-> plan, form |-> blockForm])
<1>2. CallFits(call)
  BY DEF CallFits, Call, Kinds, Nothing, EditBlock, ClientInv, PageFits
<1>3. calls' = [calls EXCEPT ![s] = call] /\ UNCHANGED server
  BY DEF EditBlock, Send
<1> HIDE DEF call
<1> QED BY <1>1, <1>2, <1>3, SlotKeeps DEF ClientInv, server

LEMMA TravelKeeps ==
    ASSUME ClientInv, NEW s \in Slot, Travel(s)
    PROVE  ClientInv'
<1>1. PageFits'
  BY DEF Travel, page, ClientInv, PageFits
<1>2. CallFits(Call("travel", [plan |-> [day |-> saved.day, version |-> saved.version]]))
  BY DEF CallFits, Call, Kinds, Nothing, Travel, ClientInv, PageFits
<1> QED BY <1>1, <1>2, SlotKeeps DEF Travel, Send, ClientInv, server

LEMMA LoadKeeps ==
    ASSUME ClientInv, NEW s \in Slot, NEW d \in Day, Load(s, d)
    PROVE  ClientInv'
<1>1. PageFits'
  BY DEF Load, page, ClientInv, PageFits
<1>2. CallFits(Call("load", [day |-> d]))
  BY DEF CallFits, Call, Kinds, Nothing
<1> QED BY <1>1, <1>2, SlotKeeps DEF Load, Send, ClientInv, server

LEMMA ChangeSourceKeeps ==
    ASSUME ClientInv, NEW s \in Slot, NEW kind \in {"task", "preferences"}, ChangeSource(s, kind)
    PROVE  ClientInv'
<1>1. PageFits'
  BY DEF ChangeSource, page, ClientInv, PageFits
<1>2. CallFits(Call(kind, Nothing))
  BY DEF CallFits, Call, Kinds, Nothing
<1> QED BY <1>1, <1>2, SlotKeeps DEF ChangeSource, Send, ClientInv, server

----------------------------------------------------------------------------
(* The server.                                                             *)

LEMMA StoreKeepsDays ==
    ASSUME DOMAIN version = Day, NEW d, NEW fresh, Store(d, fresh)
    PROVE  DOMAIN version' = Day
BY DEF Store

LEMMA AnsweredKeeps ==
    ASSUME CallsFit, NEW s \in Slot, calls[s].kind # "none", NEW answer, Answered(s, answer),
           answer.outcome = "plan" =>
              answer.plan.day \in Day \/ (calls[s].kind = "refresh" /\ answer.plan = NoPlan),
           answer.outcome = "preview" => answer.preview.of = "planner"
    PROVE  CallsFit'
<1> DEFINE call == IF calls[s].stage = "unheard" THEN NoCall
                   ELSE [calls[s] EXCEPT !.stage = "served", !.about = Nothing, !.answer = answer]
<1>1. CallFits(calls[s])
  BY KindOfCall
<1>2. calls[s].stage # "unheard" =>
         call = [kind |-> calls[s].kind, stage |-> "served", about |-> Nothing, answer |-> answer]
  BY <1>1 DEF CallFits
<1>3. call = NoCall \/ CallFits(call)
  BY <1>1, <1>2 DEF CallFits
<1>4. calls' = [calls EXCEPT ![s] = call]
  BY DEF Answered
<1> QED BY <1>3, <1>4, SlotKeeps

LEMMA ShownKeeps ==
    ASSUME CallsFit, NEW s \in Slot, calls[s].kind # "none", NEW plan, Shown(s, plan),
           plan.day \in Day \/ (calls[s].kind = "refresh" /\ plan = NoPlan)
    PROVE  CallsFit'
<1> DEFINE answer == [outcome |-> "plan", plan |-> plan]
<1>1. answer.outcome = "plan" /\ answer.plan = plan /\ Answered(s, answer)
  BY DEF Shown
<1> HIDE DEF answer
<1> QED BY <1>1, AnsweredKeeps

LEMMA ServeKeeps ==
    ASSUME ClientInv, NEW s \in Slot, Serve(s)
    PROVE  ClientInv'
<1> DEFINE a == calls[s].about
<1>1. /\ calls[s].kind # "none" /\ calls[s].stage # "served"
      /\ CallFits(calls[s]) /\ UNCHANGED page
  BY KindOfCall DEF Serve, ClientInv
<1>2. PageFits'
  BY <1>1 DEF page, ClientInv, PageFits
<1> SUFFICES CallsFit' /\ DOMAIN version' = Day
  BY <1>2 DEF ClientInv
<1>3. ASSUME NEW outcome, outcome \notin {"plan", "preview"}, Refusal(s, outcome)
      PROVE  CallsFit' /\ DOMAIN version' = Day
  BY <1>1, <1>3, AnsweredKeeps DEF Refusal, ClientInv, server
<1>4. ASSUME NEW d \in Day, NEW fresh, Stored(s, d, fresh)
      PROVE  CallsFit' /\ DOMAIN version' = Day
  <2>1. Store(d, fresh)
        /\ Shown(s, [day |-> d, version |-> fresh, basis |-> source, stale |-> FALSE])
    BY <1>4 DEF Stored
  <2> DEFINE plan == [day |-> d, version |-> fresh, basis |-> source, stale |-> FALSE]
  <2>2. plan.day \in Day /\ Shown(s, plan)
    BY <2>1
  <2> HIDE DEF plan
  <2> QED BY <1>1, <2>1, <2>2, ShownKeeps, StoreKeepsDays DEF ClientInv
<1>5. CASE calls[s].kind \in {"refresh", "load"}
  <2>1. UNCHANGED server /\ Shown(s, IF a.day = NoDay THEN NoPlan ELSE View(a.day))
    BY <1>5 DEF Serve
  <2>2. CASE a.day = NoDay
    <3>1. calls[s].kind = "refresh" /\ Shown(s, NoPlan)
      BY <1>1, <1>5, <2>1, <2>2, WebClientAssumption DEF CallFits
    <3> QED BY <1>1, <2>1, <3>1, ShownKeeps DEF ClientInv, server
  <2>3. CASE a.day # NoDay
    <3>1. View(a.day).day \in Day
      BY <1>1, <1>5, <2>3 DEF CallFits, View
    <3>2. Shown(s, View(a.day))
      BY <2>1, <2>3
    <3> QED BY <1>1, <2>1, <3>1, <3>2, ShownKeeps DEF ClientInv, server
  <2> QED BY <2>2, <2>3
<1>6. CASE calls[s].kind = "preview"
  <2>1. \/ Refused(s)
        \/ UNCHANGED server
           /\ Answered(s, [outcome |-> "preview", preview |->
                             [of |-> "planner", day |-> a.day, basis |-> source]])
    BY <1>6 DEF Serve
  <2> QED BY <1>1, <1>3, <2>1, AnsweredKeeps DEF Refused, ClientInv, server
<1>7. CASE calls[s].kind = "create"
  <2>1. a.input \in Day /\ Create(s, a)
    BY <1>1, <1>7 DEF CallFits, Serve
  <2> QED BY <1>3, <1>4, <2>1 DEF Create, Refused
<1>8. CASE calls[s].kind = "replace"
  <2>1. a.plan.day \in Day /\ Replace(s, a)
    BY <1>1, <1>8 DEF CallFits, Serve
  <2> QED BY <1>3, <1>4, <2>1 DEF Replace, Refused
<1>9. CASE calls[s].kind = "travel"
  <2>1. a.plan.day \in Day /\ Move(s, a)
    BY <1>1, <1>9 DEF CallFits, Serve
  <2> QED BY <1>3, <1>4, <2>1 DEF Move, Refused
<1>10. CASE calls[s].kind \in {"task", "preferences"}
  <2>1. Refused(s) \/ (MoveSource /\ Answered(s, [outcome |-> "done"]))
    BY <1>10 DEF Serve
  <2> QED BY <1>1, <1>3, <2>1, AnsweredKeeps DEF Refused, MoveSource, ClientInv
<1> QED BY <1>1, <1>5, <1>6, <1>7, <1>8, <1>9, <1>10 DEF CallFits, Kinds

LEMMA ElsewhereKeeps ==
    ASSUME ClientInv, Elsewhere
    PROVE  ClientInv'
BY StoreKeepsDays DEF Elsewhere, MoveSource, Store, page, ClientInv, PageFits, CallsFit, CallFits

----------------------------------------------------------------------------
(* Answers.                                                                *)

LEMMA SetSavedFits ==
    ASSUME PageFits, NEW plan, plan.day \in Day, SetSaved(plan)
    PROVE  PageFits' /\ saved' = plan
<1>1. plan # NoPlan
  BY WebClientAssumption DEF NoPlan
<1> QED BY <1>1 DEF SetSaved, RenderPreview, RenderSaved, OfSaved, NoPreview, PageFits

LEMMA FollowFits ==
    ASSUME NEW d \in Day \cup {NoDay}
    PROVE  /\ CallFits(Call("refresh", [day |-> d]))
           /\ d # NoDay => CallFits(Call("load", [day |-> d]))
BY DEF CallFits, Call, Kinds, Nothing

LEMMA HearStoredKeeps ==
    ASSUME ClientInv, NEW s \in Slot, HearStored(s)
    PROVE  ClientInv'
<1>1. CallFits(calls[s])
  BY KindOfCall DEF HearStored, Heard, ClientInv
<1>2. calls[s].answer.plan.day \in Day
  BY <1>1 DEF HearStored, Heard, CallFits
<1>3. PageFits' /\ saved' = calls[s].answer.plan
  BY <1>2, SetSavedFits DEF HearStored, ClientInv
<1>4. CallFits(Call("refresh", [day |-> saved'.day]))
  BY <1>2, <1>3, FollowFits
<1> QED BY <1>3, <1>4, SlotKeeps DEF HearStored, Follow, ClientInv, server

LEMMA HearLoadKeeps ==
    ASSUME ClientInv, NEW s \in Slot, HearLoad(s)
    PROVE  ClientInv'
<1>1. CallFits(calls[s])
  BY KindOfCall DEF HearLoad, Heard, ClientInv
<1>2. calls[s].answer.plan.day \in Day
  BY <1>1 DEF HearLoad, Heard, CallFits
<1>3. PageFits'
  BY <1>2, SetSavedFits DEF HearLoad, ClientInv
<1> QED BY <1>3, SlotKeeps DEF HearLoad, Free, ClientInv, server

LEMMA HearRefreshKeeps ==
    ASSUME ClientInv, NEW s \in Slot, HearRefresh(s)
    PROVE  ClientInv'
<1>1. CallFits(calls[s])
  BY KindOfCall DEF HearRefresh, Heard, ClientInv
<1>2. CASE calls[s].answer.plan # NoPlan
  BY <1>1, <1>2, SetSavedFits, SlotKeeps
     DEF HearRefresh, Heard, CallFits, Free, ClientInv, server
<1>3. CASE calls[s].answer.plan = NoPlan
  <2>1. PageFits'
    BY <1>3 DEF HearRefresh, RenderPreview, RenderSaved, OfSaved, NoPreview, ClientInv, PageFits
  <2> QED BY <2>1, SlotKeeps DEF HearRefresh, Free, ClientInv, server
<1> QED BY <1>2, <1>3

LEMMA HearPreviewKeeps ==
    ASSUME ClientInv, NEW s \in Slot, HearPreview(s)
    PROVE  ClientInv'
<1>1. calls[s].answer.preview.of = "planner"
  BY KindOfCall DEF HearPreview, Heard, CallFits, ClientInv
<1>2. PageFits'
  BY <1>1 DEF HearPreview, RenderPreview, RenderSaved, NoPreview, ClientInv, PageFits
<1> QED BY <1>2, SlotKeeps DEF HearPreview, Free, ClientInv, server

LEMMA HearTaskKeeps ==
    ASSUME ClientInv, NEW s \in Slot, HearTask(s)
    PROVE  ClientInv'
<1>1. saved.day \in Day \cup {NoDay}
  BY DEF ClientInv, PageFits, NoPlan
<1>2. PageFits'
  BY DEF HearTask, page, ClientInv, PageFits
<1> QED BY <1>1, <1>2, FollowFits, SlotKeeps DEF HearTask, Follow, ClientInv, server

LEMMA HearPreferencesKeeps ==
    ASSUME ClientInv, NEW s \in Slot, HearPreferences(s)
    PROVE  ClientInv'
<1>1. PageFits'
  BY DEF HearPreferences, RenderPreview, ClientInv, PageFits
<1>2. CASE saved = NoPlan
  BY <1>1, <1>2, SlotKeeps DEF HearPreferences, Free, ClientInv, server
<1>3. CASE saved # NoPlan
  <2>1. saved.day \in Day /\ saved.day # NoDay
    BY <1>3, WebClientAssumption DEF ClientInv, PageFits
  <2> QED BY <1>1, <1>3, <2>1, FollowFits, SlotKeeps DEF HearPreferences, Follow, ClientInv, server
<1> QED BY <1>2, <1>3

LEMMA HearFailureKeeps ==
    ASSUME ClientInv, NEW s \in Slot, HearFailure(s)
    PROVE  ClientInv'
<1>1. PageFits'
  BY DEF HearFailure, Fail, RenderPreview, page, ClientInv, PageFits
<1>2. CASE Free(s)
  BY <1>1, <1>2, SlotKeeps DEF HearFailure, Fail, Free, ClientInv, server
<1>3. CASE calls[s].stage = "sent" /\ calls' = [calls EXCEPT ![s].stage = "unheard"]
  <2> DEFINE call == [calls[s] EXCEPT !.stage = "unheard"]
  <2>1. CallFits(calls[s]) /\ calls[s].stage = "sent"
    BY <1>3, KindOfCall DEF HearFailure, ClientInv
  <2>2. call = [kind |-> calls[s].kind, stage |-> "unheard", about |-> calls[s].about,
                answer |-> calls[s].answer]
    BY <2>1 DEF CallFits
  <2>3. CallFits(call)
    BY <2>1, <2>2 DEF CallFits
  <2>4. calls' = [calls EXCEPT ![s] = call]
    BY <1>3
  <2> QED BY <1>1, <2>3, <2>4, SlotKeeps DEF HearFailure, Fail, ClientInv, server
<1> QED BY <1>2, <1>3 DEF HearFailure

----------------------------------------------------------------------------
LEMMA NextClientInv == ClientInv /\ [Next]_vars => ClientInv'
<1> SUFFICES ASSUME ClientInv, [Next]_vars PROVE ClientInv'
  OBVIOUS
<1>1. CASE Elsewhere
  BY <1>1, ElsewhereKeeps
<1>2. ASSUME NEW s \in Slot, NEW d \in Day, Plan(s, d) \/ Load(s, d)
      PROVE  ClientInv'
  BY <1>2, PlanKeeps, LoadKeeps
<1>3. ASSUME NEW s \in Slot,
             \/ Save(s) \/ EditBlock(s) \/ Travel(s)
             \/ ChangeSource(s, "task") \/ ChangeSource(s, "preferences")
      PROVE  ClientInv'
  BY <1>3, SaveKeeps, EditBlockKeeps, TravelKeeps, ChangeSourceKeeps
<1>4. ASSUME NEW s \in Slot, Serve(s) \/ HearStored(s) \/ HearLoad(s) \/ HearRefresh(s)
      PROVE  ClientInv'
  BY <1>4, ServeKeeps, HearStoredKeeps, HearLoadKeeps, HearRefreshKeeps
<1>5. ASSUME NEW s \in Slot,
             HearPreview(s) \/ HearTask(s) \/ HearPreferences(s) \/ HearFailure(s)
      PROVE  ClientInv'
  BY <1>5, HearPreviewKeeps, HearTaskKeeps, HearPreferencesKeeps, HearFailureKeeps
<1>6. CASE UNCHANGED vars
  BY <1>6 DEF vars, server, page, ClientInv, PageFits, CallsFit, CallFits
<1> QED BY <1>1, <1>2, <1>3, <1>4, <1>5, <1>6 DEF Next

LEMMA ClientInvAlways == Spec => []ClientInv
BY InitClientInv, NextClientInv, PTL DEF Spec

(* What is drawn beside a saved schedule is the layout of its version, for *)
(* any number of days, calls under way and versions.                       *)
THEOREM ClientShowsSaved == Spec => []ShownLayoutIsSaved
<1>1. ClientInv => ShownLayoutIsSaved
  BY DEF ClientInv, PageFits, ShownLayoutIsSaved
<1> QED BY <1>1, ClientInvAlways, PTL

(* The form of a first save is open only over a layout of the planner, for *)
(* any number of days, calls under way and versions.                       *)
THEOREM ClientSaveForm == Spec => []SaveFormOverPreview
<1>1. ClientInv => SaveFormOverPreview
  BY DEF ClientInv, PageFits, SaveFormOverPreview
<1> QED BY <1>1, ClientInvAlways, PTL

(* Only its own edit is served with a call, and it replaces the version    *)
(* whose block the form showed when it was sent.                           *)
LEMMA ReplacedAsShown ==
    ASSUME ClientInv, [Next]_vars, NEW s \in Slot,
           calls[s].kind = "replace", calls[s].stage \in {"sent", "unheard"},
           version' # version, calls'[s] # calls[s]
    PROVE  LET form == calls[s].about.form
           IN  /\ form.day \in Day
               /\ version[form.day] = form.version /\ version'[form.day] = form.version + 1
<1> DEFINE a == calls[s].about
<1>1. CallFits(calls[s])
  BY KindOfCall DEF ClientInv
<1>2. Serve(s)
  <2>1. ASSUME NEW r \in Slot, r # s, calls'[s] # calls[s] PROVE ~Serve(r)
    <3>1. calls[r].kind # "none" => CallFits(calls[r])
      BY KindOfCall DEF ClientInv
    <3>2. Serve(r) => \E call : calls' = [calls EXCEPT ![r] = call]
      BY DEF Serve, Create, Replace, Move, Refused, Refusal, Shown, Stored, Answered
    <3> QED BY <2>1, <3>2 DEF ClientInv, CallsFit
  <2>2. \E r \in Slot : Serve(r)
    BY DEF Next, vars, server, page, Elsewhere, Plan, Load, Save, EditBlock, Travel, ChangeSource,
           Send, HearStored, HearLoad, HearRefresh, HearPreview, HearTask, HearPreferences,
           HearFailure, Fail
  <2> QED BY <2>1, <2>2
<1>3. Replace(s, a)
  BY <1>2 DEF Serve
<1>4. Stored(s, a.plan.day, a.plan.version + 1) /\ a.plan.version = version[a.plan.day]
  BY <1>3 DEF Replace, Refused, Refusal, server
<1>5. version' = [version EXCEPT ![a.plan.day] = a.plan.version + 1]
  BY <1>4 DEF Stored, Store
<1>6. a.plan.day \in Day /\ a.form.day = a.plan.day /\ a.form.version = a.plan.version
  BY <1>1 DEF CallFits
<1> QED BY <1>4, <1>5, <1>6 DEF ClientInv

(* No accepted edit replaces a version its user has not seen, for any      *)
(* number of days, calls under way and versions.                           *)
THEOREM ClientNoBlindReplacement == Spec => NoBlindReplacement
<1>1. ClientInv /\ [Next]_vars =>
        [\A s \in Slot :
          calls[s].kind = "replace" /\ calls[s].stage \in {"sent", "unheard"} /\ version' # version
              /\ calls'[s] # calls[s] =>
          LET form == calls[s].about.form
          IN  /\ form.day \in Day
              /\ version[form.day] = form.version /\ version'[form.day] = form.version + 1]_vars
  BY ReplacedAsShown
<1> QED BY <1>1, ClientInvAlways, PTL DEF Spec, NoBlindReplacement
=============================================================================
