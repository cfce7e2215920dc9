------------------------- MODULE ManualEntryProofs -------------------------
(* What holds of the drafts and of the wizard for any contents of the parts,  *)
(* any typings, any objections of the detector and any methods.             *)
EXTENDS ManualEntry, TLAPS

-----------------------------------------------------------------------------
(* The inductive invariant. *)

\* SubmittedPassedDetector speaks of the step that files; this is the state it needs before.
SkewedFlagged == store["financial"] \in Skewed => flagged

GatesInv == GatesTypeOK /\ SubmittedIsBacked /\ SkewedFlagged

\* Nothing is stored before the local draft was looked for.
Settled == "armed" \in wizard.is => "hydrated" \in wizard.is

\* A form that neither the draft, nor the user, nor the server touched is empty.
Untouched == ~Touched => wizard.grid = NoData

\* Once the local draft was looked for, what is owed and not queued is not behind a form that shows
\* something of the server's, nor behind an untouched one: the next debounced save overwrites nothing.
FormCarries == "hydrated" \in wizard.is =>
  /\ wizard.grid \notin Typed \union {NoData} => owed \in {NoData, queue.data, wizard.grid}
  /\ ~Touched => owed \in {NoData, queue.data}

\* What is queued is something.
QueuedFull == queue.is # "none" => queue.data # NoData

ClientInv ==
  /\ mode \in Parts /\ wizard \in Form /\ draft \in Data /\ sending \in Data /\ queue \in Item /\ owed \in Data
  /\ StoredDraftSurvives /\ Settled /\ Untouched /\ FormCarries /\ QueuedFull

EntryInv == GatesInv /\ ClientInv

-----------------------------------------------------------------------------
(* The writes of DraftGates. *)

LEMMA SaveManuallyStep ==
  ASSUME GatesInv, NEW u \in Users, NEW p \in Parts, NEW t \in Contents, SaveManually(u, p, t)
  PROVE  GatesInv'
<1>1. GatesTypeOK /\ status = "draft" /\ store' = [store EXCEPT ![p] = t] /\ UNCHANGED <<status, holder, method, answered>>
  BY DEF GatesInv, SaveManually, Editable
<1>2. CASE p = "financial"
  <2>1. Detect(t) /\ section' = [section EXCEPT ![p] = "in_progress"]
    BY <1>2 DEF SaveManually, Progress
  <2>2. GatesTypeOK'
    BY <1>1, <2>1 DEF GatesTypeOK, Data, Detect
  <2>3. SkewedFlagged'
    BY <1>1, <1>2, <2>1 DEF GatesTypeOK, SkewedFlagged, Detect
  <2> QED
    BY <1>1, <2>2, <2>3 DEF GatesInv, SubmittedIsBacked
<1>3. CASE p # "financial"
  <2>1. flagged' = flagged /\ section' = [section EXCEPT ![p] = "ready"]
    BY <1>3 DEF SaveManually, Progress
  <2>2. GatesTypeOK'
    BY <1>1, <2>1 DEF GatesTypeOK, Data
  <2>3. SkewedFlagged'
    BY <1>1, <1>3, <2>1 DEF GatesInv, GatesTypeOK, SkewedFlagged, Parts
  <2> QED
    BY <1>1, <2>2, <2>3 DEF GatesInv, SubmittedIsBacked
<1> QED
  BY <1>2, <1>3

LEMMA UpdateLineItemsStep ==
  ASSUME GatesInv, NEW u \in Users, NEW t \in Contents, UpdateLineItems(u, t)
  PROVE  GatesInv'
<1>1. /\ GatesTypeOK /\ store["financial"] # NoData /\ store' = [store EXCEPT !["financial"] = t] /\ Detect(t)
      /\ UNCHANGED <<status, holder, method, section, answered>>
  BY DEF GatesInv, UpdateLineItems
<1>2. store' \in [Parts -> Data] /\ store'["financial"] = t /\ store'["non_financial"] = store["non_financial"]
  BY <1>1 DEF GatesTypeOK, Data, Parts
<1>3. GatesTypeOK'
  BY <1>1, <1>2 DEF GatesTypeOK, Detect
<1>4. SkewedFlagged'
  BY <1>1, <1>2 DEF SkewedFlagged, Detect
<1>5. SubmittedIsBacked'
  BY <1>1, <1>2, ContentsAssumption DEF GatesInv, SubmittedIsBacked, Backed, Parts
<1> QED
  BY <1>3, <1>4, <1>5 DEF GatesInv

LEMMA UploadNonFinancialStep ==
  ASSUME GatesInv, NEW u \in Users, NEW t \in Contents, UploadNonFinancial(u, t)
  PROVE  GatesInv'
<1>1. /\ GatesTypeOK /\ store' = [store EXCEPT !["non_financial"] = t]
      /\ section' = [section EXCEPT !["non_financial"] = "in_progress"]
      /\ UNCHANGED <<status, holder, method, answered, flagged>>
  BY DEF GatesInv, UploadNonFinancial, Progress
<1>2. store' \in [Parts -> Data] /\ store'["non_financial"] = t /\ store'["financial"] = store["financial"]
  BY <1>1 DEF GatesTypeOK, Data, Parts
<1>3. GatesTypeOK'
  BY <1>1, <1>2 DEF GatesTypeOK
<1>4. SkewedFlagged'
  BY <1>1, <1>2 DEF GatesInv, SkewedFlagged
<1>5. SubmittedIsBacked'
  BY <1>1, <1>2, ContentsAssumption DEF GatesInv, SubmittedIsBacked, Backed, Parts
<1> QED
  BY <1>3, <1>4, <1>5 DEF GatesInv

\* What DeletePart and ChangeMethod have in common.
LEMMA EmptiedStep ==
  ASSUME GatesInv, NEW parts \in SUBSET Parts, Emptied(parts), status = "draft",
         method' \in Methods \union {"none"}, UNCHANGED <<status, holder, answered, flagged>>
  PROVE  GatesInv'
<1>1. GatesTypeOK'
  BY DEF GatesInv, GatesTypeOK, Emptied, Data
<1>2. SkewedFlagged'
  BY ContentsAssumption DEF GatesInv, SkewedFlagged, Emptied, Parts
<1> QED
  BY <1>1, <1>2 DEF GatesInv, SubmittedIsBacked

LEMMA DeletePartStep ==
  ASSUME GatesInv, NEW u \in Users, NEW p \in Parts, DeletePart(u, p)
  PROVE  GatesInv'
<1>1. {p} \in SUBSET Parts /\ Emptied({p}) /\ status = "draft" /\ UNCHANGED <<status, holder, method, answered, flagged>>
  BY DEF DeletePart, Editable
<1>2. method' \in Methods \union {"none"}
  BY <1>1 DEF GatesInv, GatesTypeOK
<1> QED
  BY <1>1, <1>2, EmptiedStep

LEMMA ChangeMethodStep ==
  ASSUME GatesInv, NEW u \in Users, NEW m \in Methods, NEW gone \in SUBSET Parts, ChangeMethod(u, m, gone)
  PROVE  GatesInv'
<1>1. Emptied(gone) /\ status = "draft" /\ method' = m /\ UNCHANGED <<status, holder, answered, flagged>>
  BY DEF ChangeMethod, Editable
<1> QED
  BY <1>1, EmptiedStep

LEMMA SaveAnswersStep ==
  ASSUME GatesInv, NEW u \in Users, NEW p \in Parts, SaveAnswers(u, p)
  PROVE  GatesInv'
BY DEF GatesInv, GatesTypeOK, SubmittedIsBacked, SkewedFlagged, SaveAnswers, Editable, Progress

LEMMA MarkReadyStep ==
  ASSUME GatesInv, NEW u \in Users, NEW p \in Parts, MarkReady(u, p)
  PROVE  GatesInv'
BY DEF GatesInv, GatesTypeOK, SubmittedIsBacked, SkewedFlagged, MarkReady, Editable, Progress

LEMMA SubmitStep ==
  ASSUME GatesInv, NEW u \in Users, Submit(u)
  PROVE  GatesInv' /\ store["financial"] \notin Skewed
<1>1. status' \in {"submitted", "approved"} /\ UNCHANGED <<holder, method, store, section, answered, flagged>>
  BY DEF Submit
<1>2. method # "questionnaire" => \A p \in Parts : Backed(p)
  BY DEF Submit, Fileable
<1>3. ~flagged
  BY Zenon DEF Submit, Fileable
<1>4. SkewedFlagged' /\ store["financial"] \notin Skewed
  BY <1>1, <1>3 DEF GatesInv, SkewedFlagged
<1>5. GatesTypeOK'
  BY <1>1 DEF GatesInv, GatesTypeOK
<1>6. SubmittedIsBacked'
  BY <1>1, <1>2 DEF SubmittedIsBacked, Backed
<1> QED
  BY <1>4, <1>5, <1>6 DEF GatesInv

LEMMA ReturnStep ==
  ASSUME GatesInv, Return
  PROVE  GatesInv'
BY DEF GatesInv, GatesTypeOK, SubmittedIsBacked, SkewedFlagged, Return, Progress, Parts

LEMMA MovePenStep ==
  ASSUME GatesInv, MovePen
  PROVE  GatesInv'
BY DEF GatesInv, GatesTypeOK, SubmittedIsBacked, SkewedFlagged, MovePen, Backed

LEMMA PageRequestStep ==
  ASSUME GatesInv, NEW u \in Users, PageRequest(u)
  PROVE  GatesInv' /\ (status = "draft" /\ status' # "draft" => store["financial"] \notin Skewed)
<1>1. CASE Submit(u)
  BY <1>1, SubmitStep
<1>2. CASE \E p \in Parts : MarkReady(u, p) \/ DeletePart(u, p) \/ SaveAnswers(u, p) \/ \E t \in Contents : SaveManually(u, p, t)
  <2>1. status' = status
    BY <1>2 DEF MarkReady, DeletePart, SaveAnswers, SaveManually
  <2> QED
    BY <1>2, <2>1, MarkReadyStep, DeletePartStep, SaveAnswersStep, SaveManuallyStep
<1>3. CASE \E m \in Methods, gone \in SUBSET Parts : ChangeMethod(u, m, gone)
  BY <1>3, ChangeMethodStep DEF ChangeMethod
<1>4. CASE \E t \in Contents : UpdateLineItems(u, t) \/ UploadNonFinancial(u, t)
  <2>1. status' = status
    BY <1>4 DEF UpdateLineItems, UploadNonFinancial
  <2> QED
    BY <1>4, <2>1, UpdateLineItemsStep, UploadNonFinancialStep
<1> QED
  BY <1>1, <1>2, <1>3, <1>4 DEF PageRequest

-----------------------------------------------------------------------------
(* The wizard. *)

LEMMA GatesUntouched ==
  ASSUME GatesInv, UNCHANGED draftVars
  PROVE  GatesInv'
BY DEF GatesInv, GatesTypeOK, SubmittedIsBacked, SkewedFlagged, draftVars, Backed

LEMMA EmptyItem == NoItem \in Item /\ NoItem.data = NoData
BY DEF NoItem, Item, Data

LEMMA EmptyForm == ClosedForm \in Form /\ ClosedForm.is = {} /\ ClosedForm.grid = NoData
BY DEF ClosedForm, Form, Data

\* A save that takes what is owed along, or settles it, leaves no form behind that could lose it.
LEMMA GivenUp ==
  ASSUME ClientInv, wizard' = ClosedForm, mode' = mode, draft' = NoData, sending' = NoData, queue' \in Item,
         owed' \in {NoData, queue'.data}, QueuedFull'
  PROVE  ClientInv'
<1>1. mode' \in Parts /\ wizard' \in Form /\ draft' \in Data /\ sending' \in Data
  BY EmptyForm DEF ClientInv, Data
<1>2. owed' \in Data
  BY DEF Item, Data
<1>3. Settled' /\ Untouched' /\ FormCarries'
  BY EmptyForm DEF Settled, Untouched, FormCarries
<1> QED
  BY <1>1, <1>2, <1>3 DEF ClientInv, StoredDraftSurvives

\* A change of the form alone.
LEMMA FormChanges ==
  ASSUME ClientInv, UNCHANGED <<mode, draft, sending, queue, owed>>, wizard' \in Form,
         Settled', Untouched', FormCarries'
  PROVE  ClientInv'
BY DEF ClientInv, StoredDraftSurvives, QueuedFull

LEMMA OpenWizardStep == ASSUME EntryInv, OpenWizard PROVE EntryInv'
<1> DEFINE form == [grid |-> NoData, is |-> {"open"}]
<1>1. /\ wizard' = form /\ UNCHANGED <<draftVars, mode, draft, sending, queue, owed>>
  BY DEF OpenWizard
<1>2. form \in Form /\ form.is = {"open"} /\ form.grid = NoData
  BY DEF Form, Data
<1> HIDE DEF form
<1>3. Settled' /\ Untouched' /\ FormCarries'
  BY <1>1, <1>2 DEF Settled, Untouched, FormCarries
<1> QED
  BY <1>1, <1>2, <1>3, FormChanges, GatesUntouched DEF EntryInv

LEMMA HydrateStep == ASSUME EntryInv, Hydrate PROVE EntryInv'
<1>1. UNCHANGED <<draftVars, mode, draft, sending, queue, owed>>
  BY DEF Hydrate
<1>2. wizard \in Form /\ draft \in Data
  BY DEF EntryInv, ClientInv
<1>3. CASE draft = NoData
  <2> DEFINE form == [grid |-> wizard.grid, is |-> wizard.is \union {"hydrated", "armed"}]
  <2>1. wizard' = form
    BY <1>3 DEF Hydrate
  <2>2. form \in Form /\ "hydrated" \in form.is /\ form.grid = wizard.grid /\ wizard.is \subseteq form.is
    BY <1>2 DEF Form
  <2> HIDE DEF form
  <2>3. owed \in {NoData, queue.data} /\ (~Touched' => wizard'.grid = NoData)
    BY <1>3, <2>1, <2>2 DEF EntryInv, ClientInv, StoredDraftSurvives, Untouched, Touched
  <2>4. Settled' /\ Untouched' /\ FormCarries'
    BY <1>1, <2>1, <2>2, <2>3 DEF Settled, Untouched, FormCarries
  <2> QED
    BY <1>1, <2>1, <2>2, <2>4, FormChanges, GatesUntouched DEF EntryInv
<1>4. CASE draft # NoData
  <2> DEFINE form == [grid |-> draft, is |-> wizard.is \union {"hydrated", "armed", "own"}]
  <2>1. wizard' = form
    BY <1>4 DEF Hydrate
  <2>2. form \in Form /\ "hydrated" \in form.is /\ "own" \in form.is /\ form.grid = draft
    BY <1>2 DEF Form
  <2> HIDE DEF form
  <2>3. Touched'
    BY <2>1, <2>2 DEF Touched
  <2>4. owed \in {NoData, draft, queue.data}
    BY DEF EntryInv, ClientInv, StoredDraftSurvives
  <2>5. Settled' /\ Untouched' /\ FormCarries'
    BY <1>1, <2>1, <2>2, <2>3, <2>4 DEF Settled, Untouched, FormCarries
  <2> QED
    BY <1>1, <2>1, <2>2, <2>5, FormChanges, GatesUntouched DEF EntryInv
<1> QED
  BY <1>3, <1>4

LEMMA ServerDataArrivesStep == ASSUME EntryInv, ServerDataArrives PROVE EntryInv'
<1> DEFINE form == [grid |-> store[mode], is |-> wizard.is \union {"served"} \union MaySave]
<1>1. /\ wizard' = form /\ ~Touched /\ UNCHANGED <<draftVars, mode, draft, sending, queue, owed>>
  BY DEF ServerDataArrives
<1>2. wizard \in Form /\ store[mode] \in Data
  BY DEF EntryInv, ClientInv, GatesInv, GatesTypeOK
<1>3. form \in Form /\ "served" \in form.is /\ form.grid = store[mode]
  BY <1>2 DEF Form, MaySave
<1>4. /\ "armed" \in form.is => "hydrated" \in form.is
      /\ "hydrated" \in form.is => "hydrated" \in wizard.is
  BY DEF EntryInv, ClientInv, Settled, MaySave
<1> HIDE DEF form
<1>5. "hydrated" \in wizard.is => owed \in {NoData, queue.data}
  BY <1>1 DEF EntryInv, ClientInv, FormCarries
<1>6. Touched'
  BY <1>1, <1>3 DEF Touched
<1>7. Settled' /\ Untouched' /\ FormCarries'
  BY <1>1, <1>4, <1>5, <1>6 DEF Settled, Untouched, FormCarries
<1> QED
  BY <1>1, <1>3, <1>7, FormChanges, GatesUntouched DEF EntryInv

LEMMA TypeStep == ASSUME EntryInv, NEW t \in Typed \union {NoData}, Type(t) PROVE EntryInv'
<1> DEFINE form == [grid |-> t, is |-> wizard.is \union {"own"} \union MaySave]
<1>1. /\ wizard' = form /\ UNCHANGED <<draftVars, mode, draft, sending, queue, owed>>
  BY DEF Type
<1>2. wizard \in Form /\ t \in Data
  BY EntryAssumption DEF EntryInv, ClientInv, Data
<1>3. form \in Form /\ "own" \in form.is /\ form.grid = t
  BY <1>2 DEF Form, MaySave
<1>4. "armed" \in form.is => "hydrated" \in form.is
  BY DEF EntryInv, ClientInv, Settled, MaySave
<1> HIDE DEF form
<1>5. Touched'
  BY <1>1, <1>3 DEF Touched
<1>6. Settled' /\ Untouched' /\ FormCarries'
  BY <1>1, <1>3, <1>4, <1>5 DEF Settled, Untouched, FormCarries
<1> QED
  BY <1>1, <1>3, <1>6, FormChanges, GatesUntouched DEF EntryInv

LEMMA StoreDraftStep == ASSUME EntryInv, StoreDraft PROVE EntryInv'
<1> DEFINE form == [wizard EXCEPT !.is = @ \ {"armed"}]
<1>1. /\ wizard' = form /\ "hydrated" \in wizard.is /\ draft' = wizard.grid /\ owed' = Owes
      /\ UNCHANGED <<draftVars, mode, sending, queue>>
  BY DEF StoreDraft, EntryInv, ClientInv, Settled
<1>2. wizard \in Form
  BY DEF EntryInv, ClientInv
<1>3. form \in Form /\ form.is = wizard.is \ {"armed"} /\ form.grid = wizard.grid
  BY <1>2 DEF Form
<1> HIDE DEF form
<1>4. Touched' = Touched
  BY <1>1, <1>3 DEF Touched
<1>5. \/ owed' = NoData
      \/ owed' = owed /\ owed \in {NoData, queue.data, wizard.grid}
      \/ owed' = wizard.grid /\ wizard.grid \in Typed
  BY <1>1 DEF Owes, EntryInv, ClientInv, FormCarries
<1>6. ~Touched => owed' = NoData /\ wizard'.grid = NoData
  BY <1>1, <1>3 DEF Owes, EntryInv, ClientInv, Untouched
<1>7. Settled' /\ Untouched' /\ FormCarries'
  BY <1>1, <1>3, <1>4, <1>5, <1>6 DEF Settled, Untouched, FormCarries
<1>8. owed' \in Data /\ draft' \in Data
  BY <1>1, <1>2, <1>5 DEF EntryInv, ClientInv, Form, Data
<1>9. StoredDraftSurvives'
  BY <1>1, <1>5 DEF StoredDraftSurvives, EntryInv, ClientInv, FormCarries
<1> QED
  BY <1>1, <1>3, <1>7, <1>8, <1>9, GatesUntouched DEF EntryInv, ClientInv, QueuedFull

LEMMA LeaveStep == ASSUME EntryInv, Leave PROVE EntryInv'
<1>1. /\ wizard' = ClosedForm /\ UNCHANGED <<draftVars, mode, draft, sending, queue, owed>>
  BY DEF Leave
<1>2. Settled' /\ Untouched' /\ FormCarries'
  BY <1>1, EmptyForm DEF Settled, Untouched, FormCarries
<1> QED
  BY <1>1, <1>2, EmptyForm, FormChanges, GatesUntouched DEF EntryInv

LEMMA DeleteInWizardStep == ASSUME EntryInv, DeleteInWizard PROVE EntryInv'
<1> DEFINE form == [grid |-> NoData, is |-> wizard.is \union MaySave]
<1>1. /\ wizard' = form /\ owed' = NoData /\ DeletePart(Me, mode) /\ UNCHANGED <<mode, draft, sending, queue>>
  BY DEF DeleteInWizard
<1>2. wizard \in Form
  BY DEF EntryInv, ClientInv
<1>3. form \in Form /\ form.grid = NoData
  BY <1>2 DEF Form, MaySave, Data
<1>4. "armed" \in form.is => "hydrated" \in form.is
  BY DEF EntryInv, ClientInv, Settled, MaySave
<1> HIDE DEF form
<1>5. Settled' /\ Untouched' /\ FormCarries' /\ StoredDraftSurvives'
  BY <1>1, <1>3, <1>4 DEF Settled, Untouched, FormCarries, StoredDraftSurvives
<1>6. GatesInv'
  BY <1>1, DeletePartStep, EntryAssumption DEF EntryInv, ClientInv
<1> QED
  BY <1>1, <1>3, <1>5, <1>6 DEF EntryInv, ClientInv, Data, QueuedFull

-----------------------------------------------------------------------------
(* Saving. *)

LEMMA SendStep == ASSUME EntryInv, Send PROVE EntryInv'
<1>1. /\ sending' = wizard.grid /\ UNCHANGED <<draftVars, mode, wizard, draft, queue, owed>>
  BY DEF Send
<1>2. sending' \in Data
  BY <1>1 DEF EntryInv, ClientInv, Form
<1>3. StoredDraftSurvives' /\ Settled' /\ Untouched' /\ FormCarries'
  BY <1>1 DEF EntryInv, ClientInv, StoredDraftSurvives, Settled, Untouched, FormCarries, Touched
<1> QED
  BY <1>1, <1>2, <1>3, GatesUntouched DEF EntryInv, ClientInv, QueuedFull

LEMMA SaveRefusedStep == ASSUME EntryInv, SaveRefused PROVE EntryInv'
<1>1. /\ sending' = NoData /\ UNCHANGED <<draftVars, mode, wizard, draft, queue, owed>>
  BY DEF SaveRefused
<1>2. sending' \in Data
  BY <1>1 DEF Data
<1>3. StoredDraftSurvives' /\ Settled' /\ Untouched' /\ FormCarries'
  BY <1>1 DEF EntryInv, ClientInv, StoredDraftSurvives, Settled, Untouched, FormCarries, Touched
<1> QED
  BY <1>1, <1>2, <1>3, GatesUntouched DEF EntryInv, ClientInv, QueuedFull

LEMMA SendOfflineStep == ASSUME EntryInv, SendOffline PROVE EntryInv'
<1> DEFINE item == [data |-> wizard.grid, is |-> "pending"]
<1>1. /\ queue' = item /\ wizard.grid # NoData /\ sending' = sending /\ sending = NoData /\ draft' = NoData /\ wizard' = ClosedForm
      /\ owed' \in {NoData, wizard.grid} /\ mode' = mode /\ UNCHANGED draftVars
  BY DEF SendOffline, GiveUpDraft
<1>2. item \in Item /\ item.data = wizard.grid
  BY DEF EntryInv, ClientInv, Form, Item
<1> HIDE DEF item
<1>3. QueuedFull'
  BY <1>1, <1>2 DEF QueuedFull
<1> QED
  BY <1>1, <1>2, <1>3, GivenUp, GatesUntouched DEF EntryInv

LEMMA SaveAcceptedStep == ASSUME EntryInv, SaveAccepted PROVE EntryInv'
<1>1. /\ sending # NoData /\ SaveManually(Me, mode, sending) /\ sending' = NoData /\ owed' = NoData
      /\ draft' = NoData /\ wizard' = ClosedForm /\ UNCHANGED <<mode, queue>>
  BY DEF SaveAccepted, GiveUpDraft
<1>2. sending \in Contents /\ mode \in Parts /\ Me \in Users /\ queue' \in Item /\ QueuedFull'
  BY <1>1, EntryAssumption DEF EntryInv, ClientInv, Data, QueuedFull
<1> QED
  BY <1>1, <1>2, GivenUp, SaveManuallyStep DEF EntryInv

LEMMA SaveUnansweredStep == ASSUME EntryInv, SaveUnanswered PROVE EntryInv'
<1>1. /\ sending # NoData /\ sending' = NoData /\ owed' \in {NoData, sending}
      /\ draft' = NoData /\ wizard' = ClosedForm /\ mode' = mode
      /\ SaveManually(Me, mode, sending) \/ UNCHANGED draftVars
  BY DEF SaveUnanswered, GiveUpDraft
<1>2. queue' = [data |-> sending, is |-> "applied"] \/ queue' = [data |-> sending, is |-> "pending"]
  BY DEF SaveUnanswered
<1>3. sending \in Contents /\ sending \in Data /\ mode \in Parts /\ Me \in Users
  BY <1>1, EntryAssumption DEF EntryInv, ClientInv, Data
<1>4. queue' \in Item /\ queue'.data = sending /\ QueuedFull'
  BY <1>1, <1>2, <1>3 DEF Item, QueuedFull
<1>5. GatesInv'
  BY <1>1, <1>3, SaveManuallyStep, GatesUntouched DEF EntryInv
<1> QED
  BY <1>1, <1>4, <1>5, GivenUp DEF EntryInv

\* The queue goes on with its save.
LEMMA QueueKept ==
  ASSUME ClientInv, UNCHANGED <<mode, wizard, draft, sending, owed>>, queue.is # "none",
         NEW s \in {"pending", "failed"}, queue' = [queue EXCEPT !.is = s]
  PROVE  ClientInv'
<1>1. queue' \in Item /\ queue'.data = queue.data
  BY DEF ClientInv, Item
<1>2. StoredDraftSurvives' /\ Settled' /\ Untouched' /\ FormCarries' /\ QueuedFull'
  BY <1>1 DEF ClientInv, StoredDraftSurvives, Settled, Untouched, FormCarries, Touched, QueuedFull
<1> QED
  BY <1>1, <1>2 DEF ClientInv

\* The queue is done with its save.
LEMMA QueueDone ==
  ASSUME ClientInv, UNCHANGED <<mode, wizard, draft, sending>>, queue' = NoItem,
         owed' = IF owed = queue.data THEN NoData ELSE owed
  PROVE  ClientInv'
<1>1. queue' \in Item /\ owed' \in Data /\ QueuedFull'
  BY EmptyItem DEF ClientInv, Data, QueuedFull, NoItem
<1>2. owed' = NoData \/ (owed' = owed /\ owed # queue.data)
  OBVIOUS
<1>3. StoredDraftSurvives'
  BY <1>2 DEF ClientInv, StoredDraftSurvives
<1>4. Settled' /\ Untouched' /\ FormCarries'
  BY <1>2 DEF ClientInv, Settled, Untouched, FormCarries, Touched
<1> QED
  BY <1>1, <1>3, <1>4 DEF ClientInv

LEMMA FlushStep == ASSUME EntryInv, Flush PROVE EntryInv'
<1>1. ClientInv /\ GatesInv /\ UNCHANGED <<mode, wizard, draft, sending>>
  BY DEF EntryInv, Flush
<1>2. CASE /\ queue.is = "pending" /\ SaveManually(Me, mode, queue.data) /\ queue' = NoItem
           /\ owed' = IF owed = queue.data THEN NoData ELSE owed
  <2>1. queue.data \in Contents /\ mode \in Parts /\ Me \in Users
    BY <1>1, <1>2, EntryAssumption DEF ClientInv, Item, Data, QueuedFull
  <2> QED
    BY <1>1, <1>2, <2>1, SaveManuallyStep, QueueDone DEF EntryInv
<1>3. CASE /\ queue.is = "applied" /\ queue' = NoItem /\ UNCHANGED draftVars
           /\ owed' = IF owed = queue.data THEN NoData ELSE owed
  BY <1>1, <1>3, GatesUntouched, QueueDone DEF EntryInv
<1>4. CASE queue.is = "pending" /\ queue' = [queue EXCEPT !.is = "failed"] /\ UNCHANGED <<draftVars, owed>>
  BY <1>1, <1>4, GatesUntouched, QueueKept DEF EntryInv
<1> QED
  BY <1>2, <1>3, <1>4 DEF Flush

LEMMA SettleFailedStep == ASSUME EntryInv, SettleFailed PROVE EntryInv'
<1>1. ClientInv /\ GatesInv /\ queue.is = "failed" /\ UNCHANGED <<draftVars, mode, wizard, draft, sending>>
  BY DEF EntryInv, SettleFailed
<1>2. CASE queue' = [queue EXCEPT !.is = "pending"] /\ UNCHANGED owed
  BY <1>1, <1>2, GatesUntouched, QueueKept DEF EntryInv
<1>3. CASE queue' = NoItem /\ owed' = IF owed = queue.data THEN NoData ELSE owed
  BY <1>1, <1>3, GatesUntouched, QueueDone DEF EntryInv
<1> QED
  BY <1>2, <1>3 DEF SettleFailed

-----------------------------------------------------------------------------
(* The theorems. *)

LEMMA EntryStarts == EntryInit => EntryInv
<1> SUFFICES ASSUME EntryInit PROVE EntryInv
  OBVIOUS
<1>1. GatesTypeOK /\ SubmittedIsBacked /\ SkewedFlagged
  BY ContentsAssumption DEF EntryInit, GatesInit, GatesTypeOK, SubmittedIsBacked, SkewedFlagged, Data, Parts
<1>2. ClientInv
  BY EmptyForm, EmptyItem DEF EntryInit, ClientInv, StoredDraftSurvives, Settled, Untouched, FormCarries, QueuedFull,
                             NoItem, Data
<1> QED
  BY <1>1, <1>2 DEF EntryInv, GatesInv

LEMMA ClientUntouched ==
  ASSUME ClientInv, UNCHANGED clientVars
  PROVE  ClientInv'
<1>1. UNCHANGED <<mode, wizard, draft, sending, queue, owed>>
  BY DEF clientVars
<1> QED
  BY <1>1 DEF ClientInv, StoredDraftSurvives, Settled, Untouched, FormCarries, Touched, QueuedFull

LEMMA EntryStep == EntryInv /\ [EntryNext]_entryVars => EntryInv'
<1> SUFFICES ASSUME EntryInv, [EntryNext]_entryVars PROVE EntryInv'
  OBVIOUS
<1>1. CASE OpenWizard \/ Hydrate \/ ServerDataArrives \/ StoreDraft \/ Leave \/ DeleteInWizard
  BY <1>1, OpenWizardStep, HydrateStep, ServerDataArrivesStep, StoreDraftStep, LeaveStep, DeleteInWizardStep
<1>2. ASSUME NEW t \in Typed \union {NoData}, Type(t)
      PROVE  EntryInv'
  BY <1>2, TypeStep
<1>3. CASE Send \/ SendOffline \/ SaveAccepted \/ SaveRefused \/ SaveUnanswered \/ Flush \/ SettleFailed
  BY <1>3, SendStep, SendOfflineStep, SaveAcceptedStep, SaveRefusedStep, SaveUnansweredStep, FlushStep, SettleFailedStep
<1>4. ASSUME NEW u \in Users, PageRequest(u), UNCHANGED clientVars
      PROVE  EntryInv'
  BY <1>4, PageRequestStep, ClientUntouched DEF EntryInv
<1>5. CASE (Return \/ MovePen) /\ UNCHANGED clientVars
  BY <1>5, ReturnStep, MovePenStep, ClientUntouched DEF EntryInv
<1>6. CASE UNCHANGED entryVars
  BY <1>6, GatesUntouched, ClientUntouched DEF EntryInv, entryVars
<1> QED
  BY <1>1, <1>2, <1>3, <1>4, <1>5, <1>6 DEF EntryNext

\* EntryInv holds of every state of the draft and of the wizard.
THEOREM EntryInvariant == EntrySpec => []EntryInv
<1> QED
  BY EntryStarts, EntryStep, PTL DEF EntrySpec

\* What the user typed and a draft was stored for survives refreshes, lost answers and the offline
\* queue until it is settled (ManualEntryWizard.tsx, manualEntryDraftService.ts).
THEOREM TypingSurvives == EntrySpec => []StoredDraftSurvives
<1>1. EntryInv => StoredDraftSurvives
  BY DEF EntryInv, ClientInv
<1> QED
  BY <1>1, EntryInvariant, PTL

\* A filed submission has something behind each part (submission_workflow.rs, submit), whatever
\* requests reach the server afterwards.
THEOREM FiledIsBacked == EntrySpec => []SubmittedIsBacked
<1>1. EntryInv => SubmittedIsBacked
  BY DEF EntryInv, GatesInv
<1> QED
  BY <1>1, EntryInvariant, PTL

\* No step files a statement the detector objects to: the flags submit reads are always those of the
\* statement as it is (abnormality_detector, financial_statement.rs).
THEOREM FiledPassedDetector == EntrySpec => SubmittedPassedDetector
<1>1. EntryInv /\ [EntryNext]_entryVars => [status = "draft" /\ status' # "draft" => store["financial"] \notin Skewed]_draftVars
  <2> SUFFICES ASSUME EntryInv, [EntryNext]_entryVars, status = "draft", status' # "draft"
               PROVE  store["financial"] \notin Skewed
    OBVIOUS
  <2>1. CASE OpenWizard \/ Hydrate \/ ServerDataArrives \/ StoreDraft \/ Leave \/ \E t \in Typed \union {NoData} : Type(t)
    BY <2>1 DEF OpenWizard, Hydrate, ServerDataArrives, StoreDraft, Leave, Type, draftVars
  <2>2. CASE Send \/ SendOffline \/ SaveRefused \/ SettleFailed
    BY <2>2 DEF Send, SendOffline, SaveRefused, SettleFailed, draftVars
  <2>3. CASE DeleteInWizard \/ SaveAccepted \/ SaveUnanswered \/ Flush
    BY <2>3 DEF DeleteInWizard, DeletePart, SaveAccepted, SaveUnanswered, Flush, SaveManually, draftVars
  <2>4. CASE \E u \in Users : PageRequest(u)
    BY <2>4, PageRequestStep DEF EntryInv
  <2>5. CASE Return \/ MovePen
    BY <2>5 DEF Return, MovePen
  <2>6. CASE UNCHANGED entryVars
    BY <2>6 DEF entryVars, draftVars
  <2> QED
    BY <2>1, <2>2, <2>3, <2>4, <2>5, <2>6 DEF EntryNext
<1> QED
  BY <1>1, EntryInvariant, PTL DEF SubmittedPassedDetector, EntrySpec

=============================================================================
