----------------------------- MODULE ManualEntry -----------------------------
(***************************************************************************)
(* The manual-entry wizard of one user over the drafts of DraftGates.  The *)
(* wizard keeps what is typed in a local draft, restores it when it is     *)
(* opened again, fills an untouched form with the server's data, and gives *)
(* the local draft up once a save was accepted or put in the offline       *)
(* queue.  The user's other tabs and the other tier work on the same       *)
(* submission through requests of their own.                               *)
(***************************************************************************)
EXTENDS DraftGates

CONSTANTS
  Me,      \* the tier of the wizard's user
  Typed    \* the contents this user may type into the wizard

ASSUME EntryAssumption == Me \in Users /\ Typed \subseteq Contents

VARIABLES
  mode,       \* the part this user works on, in the wizard or the questionnaire
  wizard,     \* the open form
  draft,      \* the local draft, in the browser's database
  sending,    \* the save under way
  queue,      \* the save in the offline queue, and how it stands
  owed        \* the last typing a draft was stored for, until it is settled

clientVars == <<mode, wizard, draft, sending, queue, owed>>
entryVars  == <<draftVars, clientVars>>

\* "hydrated": the local draft was looked for; "own": draftAppliedRef or
\* userEditedRef; "served": serverDataAppliedRef; "armed": the debounced save waits.
Form == [grid: Data, is: SUBSET {"open", "hydrated", "own", "served", "armed"}]

ClosedForm == [grid |-> NoData, is |-> {}]

Open == "open" \in wizard.is

\* "applied": the server has it, only the answer was lost.
Item == [data: Data, is: {"none", "pending", "applied", "failed"}]
NoItem == [data |-> NoData, is |-> "none"]

EntryTypeOK ==
  /\ GatesTypeOK
  /\ mode \in Parts
  /\ wizard \in Form
  /\ draft \in Data /\ sending \in Data /\ queue \in Item
  /\ owed \in Data

EntryInit ==
  /\ GatesInit
  /\ mode \in Parts
  /\ wizard = ClosedForm
  /\ draft = NoData /\ sending = NoData /\ queue = NoItem
  /\ owed = NoData

-----------------------------------------------------------------------------
(* The wizard.                                                             *)

OpenWizard ==
  /\ ~Open
  /\ method = "manual" /\ Editable(Me)
  /\ wizard' = [grid |-> NoData, is |-> {"open"}]
  /\ UNCHANGED <<draftVars, mode, draft, sending, queue, owed>>

\* The local draft wins over whatever the form shows by then.
Hydrate ==
  /\ Open /\ "hydrated" \notin wizard.is
  /\ wizard' = IF draft = NoData
               THEN [grid |-> wizard.grid, is |-> wizard.is \union {"hydrated", "armed"}]
               ELSE [grid |-> draft, is |-> wizard.is \union {"hydrated", "armed", "own"}]
  /\ UNCHANGED <<draftVars, mode, draft, sending, queue, owed>>

\* "Only starts saving once hydration has settled."
MaySave == IF "hydrated" \in wizard.is THEN {"armed"} ELSE {}

\* The members query answers with an empty list, the statement's with nothing.
Touched == {"own", "served"} \intersect wizard.is # {}

ServerDataArrives ==
  /\ Open
  /\ ~Touched
  /\ mode = "financial" => store[mode] # NoData
  /\ wizard' = [grid |-> store[mode], is |-> wizard.is \union {"served"} \union MaySave]
  /\ UNCHANGED <<draftVars, mode, draft, sending, queue, owed>>

\* Typing, or removing the last row.
Type(t) ==
  /\ Open
  /\ t # wizard.grid
  /\ wizard' = [grid |-> t, is |-> wizard.is \union {"own"} \union MaySave]
  /\ UNCHANGED <<draftVars, mode, draft, sending, queue, owed>>

\* The claim on what is stored: a typing is owed from the first time it is, an
\* emptied form owes nothing, and what is typed over a save under way is not
\* counted (ClearedWasSent looks at it).
Owes ==
  IF wizard.grid = NoData THEN NoData
  ELSE IF wizard.grid \notin Typed \/ wizard.grid = owed THEN owed
  ELSE IF sending = NoData THEN wizard.grid ELSE NoData

StoreDraft ==
  /\ Open /\ "armed" \in wizard.is
  /\ wizard' = [wizard EXCEPT !.is = @ \ {"armed"}]
  /\ draft' = wizard.grid
  /\ owed' = Owes
  /\ UNCHANGED <<draftVars, mode, sending, queue>>

\* Another page, a refresh, a closed tab: the debounced save is dropped.
Leave ==
  /\ Open
  /\ wizard' = ClosedForm
  /\ UNCHANGED <<draftVars, mode, draft, sending, queue, owed>>

\* The user confirms the deletion of what the server has, and the form follows.
DeleteInWizard ==
  /\ Open
  /\ DeletePart(Me, mode)
  /\ wizard' = [grid |-> NoData, is |-> wizard.is \union MaySave]
  /\ owed' = NoData
  /\ UNCHANGED <<mode, draft, sending, queue>>

-----------------------------------------------------------------------------
(* Saving: runMutation keeps the save in the queue while it is under way.  *)
(* The connection may come and go at any moment, so each step that needs   *)
(* it, or its absence, may be taken at any.                                *)

\* handleSubmit*Only after the save was taken: the draft goes, and the wizard.
GiveUpDraft ==
  /\ draft' = NoData
  /\ wizard' = ClosedForm

SendAndClear ==
  /\ Open /\ wizard.grid # NoData
  /\ sending = NoData /\ queue = NoItem
  /\ sending' = wizard.grid
  /\ draft' = NoData
  /\ UNCHANGED <<draftVars, mode, wizard, queue, owed>>

\* One save of the wizard at a time, under way or queued.
Send ==
  /\ Open /\ wizard.grid # NoData
  /\ sending = NoData /\ queue = NoItem
  /\ sending' = wizard.grid
  /\ UNCHANGED <<draftVars, mode, wizard, draft, queue, owed>>

SendOffline ==
  /\ Open /\ wizard.grid # NoData
  /\ sending = NoData /\ queue = NoItem
  /\ queue' = [data |-> wizard.grid, is |-> "pending"]
  /\ GiveUpDraft
  /\ owed' = IF owed = NoData THEN NoData ELSE wizard.grid
  /\ UNCHANGED <<draftVars, mode, sending>>

SaveAccepted ==
  /\ sending # NoData
  /\ SaveManually(Me, mode, sending)
  /\ sending' = NoData /\ owed' = NoData
  /\ GiveUpDraft
  /\ UNCHANGED <<mode, queue>>

\* Any answer of the server that is not a success: the draft stays.
SaveRefused ==
  /\ sending # NoData
  /\ sending' = NoData
  /\ UNCHANGED <<draftVars, mode, wizard, draft, queue, owed>>

\* The connection breaks: the save stays in the queue, whether or not the server
\* has it, and the wizard carries on as if it were offline.
SaveUnanswered ==
  /\ sending # NoData
  /\ \/ /\ SaveManually(Me, mode, sending)
        /\ queue' = [data |-> sending, is |-> "applied"]
     \/ /\ queue' = [data |-> sending, is |-> "pending"]
        /\ UNCHANGED draftVars
  /\ sending' = NoData
  /\ GiveUpDraft
  /\ owed' = IF owed = NoData THEN NoData ELSE sending
  /\ UNCHANGED <<mode>>

\* The queue's own send; the idempotency key recognises what was applied.
Flush ==
  /\ \/ /\ queue.is = "pending"
        /\ SaveManually(Me, mode, queue.data)
        /\ queue' = NoItem
        /\ owed' = IF owed = queue.data THEN NoData ELSE owed
     \/ /\ queue.is = "applied"
        /\ queue' = NoItem
        /\ owed' = IF owed = queue.data THEN NoData ELSE owed
        /\ UNCHANGED draftVars
     \/ /\ queue.is = "pending" /\ ~Editable(Me)
        /\ queue' = [queue EXCEPT !.is = "failed"]
        /\ UNCHANGED <<draftVars, owed>>
  /\ UNCHANGED <<mode, wizard, draft, sending>>

\* A failed save is tried again or thrown away by the user.
SettleFailed ==
  /\ queue.is = "failed"
  /\ \/ queue' = [queue EXCEPT !.is = "pending"] /\ UNCHANGED owed
     \/ /\ queue' = NoItem
        /\ owed' = IF owed = queue.data THEN NoData ELSE owed
  /\ UNCHANGED <<draftVars, mode, wizard, draft, sending>>

-----------------------------------------------------------------------------
(* The page of the submission, the questionnaire and its local draft.      *)

\* useQuestionnaire: without a response at the server, the answers the user saved
\* in the browser, at any time, are shown in its place.
AnswersSeen(u, p) == p \in answered \/ (u = Me /\ p = mode)

\* hasUploadedData, as the page of user u has it.
HasData(u, p) ==
  IF p = "financial" THEN store[p] # NoData \/ AnswersSeen(u, p)
  ELSE IF method = "questionnaire" THEN AnswersSeen(u, p)
  ELSE store[p] # NoData

\* Requests from the pages of either tier, the user's other tabs included; the
\* forms of a method are reached while it is the draft's.
PageRequest(u) ==
  \/ \E p \in Parts : HasData(u, p) /\ MarkReady(u, p)
  \/ /\ method = "questionnaire" => \A p \in Parts : AnswersSeen(u, p)
     /\ Submit(u)
  \/ \E m \in Methods, gone \in SUBSET Parts : ChangeMethod(u, m, gone)
  \/ \E p \in Parts :
       \/ DeletePart(u, p)
       \/ method = "questionnaire" /\ SaveAnswers(u, p)
       \/ \E t \in Contents \ Typed :
            method = "manual" /\ SaveManually(u, p, t)
  \/ \E t \in Contents \ Typed : UpdateLineItems(u, t) \/ UploadNonFinancial(u, t)

EntryNext ==
  \/ OpenWizard \/ Hydrate \/ ServerDataArrives \/ StoreDraft \/ Leave
  \/ \E t \in Typed \union {NoData} : Type(t)
  \/ DeleteInWizard
  \/ Send \/ SendOffline \/ SaveAccepted \/ SaveRefused \/ SaveUnanswered
  \/ Flush \/ SettleFailed
  \/ \E u \in Users : PageRequest(u) /\ UNCHANGED clientVars
  \/ (Return \/ MovePen) /\ UNCHANGED clientVars

EntrySpec == EntryInit /\ [][EntryNext]_entryVars

-----------------------------------------------------------------------------

\* What the user typed and a draft was stored for is never lost: until a save of
\* it is accepted, or the user empties the form, throws a failed save away or types
\* something else, it is in the local draft or in the offline queue, through
\* closed tabs, lost answers, lost connections and a pen that moved away.
StoredDraftSurvives == owed # NoData => owed \in {draft, queue.data}

\* An accepted save closes the form as it was sent: what was typed into it while
\* the save was under way does not go with it.
ClearedWasSent ==
  [][sending # NoData /\ Open /\ sending' = NoData /\ ~Open'
       => wizard.grid = sending]_entryVars

\* A save of the wizard replaces nothing of somebody else that the wizard never
\* showed: the local draft wins over newer data of the server without a word.
NothingUnseenReplaced ==
  [][SaveAccepted /\ store[mode] \notin Typed \union {NoData}
       => "served" \in wizard.is]_entryVars

=============================================================================
