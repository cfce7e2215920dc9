----------------------- MODULE SubmissionScreenProofs -----------------------
(* Theorems about SubmissionScreen for any users and any number of pages.   *)
(* What holds of the workflow holds of it when it is used through pages.    *)
EXTENDS SubmissionScreen, SubmissionWorkflowProofs

-----------------------------------------------------------------------------
(* The pages send what the workflow accepts.                               *)

PageOps == {"submit", "apex_submit", "apex_approve", "apex_return", "delegate",
            "reclaim", "claim_coop", "claim_apex", "delete", "upload", "validate"}

LEMMA DraftersAreUsers == Drafters \subseteq Users
BY DEF Drafters, Users

LEMMA OffersArePageOps == ASSUME NEW u, NEW c PROVE Offers(u, c) \ {"save"} \subseteq PageOps
<1>1. OffersToHolder(u, c) \subseteq {"save", "apex_submit", "submit"} BY DEF OffersToHolder
<1>2. OffersToReviewer(u, c) \subseteq {"apex_approve", "apex_return"} BY DEF OffersToReviewer
<1> QED BY <1>1, <1>2 DEF Offers, PageOps

LEMMA HandlerAccepts ==
  ASSUME NEW op \in PageOps, NEW r, NEW u, Handler(op, r, u)
  PROVE  AcceptBy(r, u)
BY DEF PageOps, Handler, AcceptBy

\* What becomes of a request a page sends.
LEMMA PressShape ==
  ASSUME NEW r \in Requests, NEW u \in Drafters, NEW op,
         Press(r, u, op) \/ StartExtraction(r, u, op)
  PROVE  op \in PageOps /\ Accepted(r, u, op)
<1>1. CASE Press(r, u, op)
  BY <1>1, OffersArePageOps DEF Press
<1>2. CASE StartExtraction(r, u, op)
  BY <1>2 DEF StartExtraction, PageOps
<1> QED BY <1>1, <1>2

LEMMA ClaimShape ==
  ASSUME NEW r \in Requests, NEW u \in Drafters, ClaimArrives(r, u)
  PROVE  ClaimOp(u) \in PageOps /\ Accepted(r, u, ClaimOp(u))
BY DEF ClaimArrives, ClaimOp, PageOps

\* What a page does on its own leaves the server alone.
PageStep(u) ==
  \/ OpenPage(u) \/ Refetch(u) \/ ReviewsArrive(u)
  \/ ClosePage(u) \/ DismissLost(u) \/ SaveRefused(u)

LEMMA PageStepIsLocal ==
  ASSUME NEW u \in Drafters, PageStep(u)
  PROVE  UNCHANGED <<vars, handover, reclaims>>
BY DEF PageStep, OpenPage, Refetch, ReviewsArrive, ClosePage, DismissLost, SaveRefused

LEMMA ClaimRefusedEffect ==
  ASSUME NEW r \in Requests, NEW u \in Drafters, ClaimRefused(r, u)
  PROVE  /\ page' = [page EXCEPT ![u].claiming = FALSE]
         /\ UNCHANGED <<vars, handover, reclaims>>
BY Zenon DEF ClaimRefused

LEMMA ScreenStepShape ==
  ASSUME [ScreenNext]_screenVars
  PROVE  \/ \E u \in Drafters : Create(u) \/ (Unsettled /\ PageStep(u))
         \/ \E r \in Requests, u \in Drafters :
              \/ \E op \in PageOps : Press(r, u, op) \/ StartExtraction(r, u, op)
              \/ ClaimArrives(r, u) \/ ClaimRefused(r, u)
         \/ \E r \in Requests : ServerStep(r)
         \/ UNCHANGED screenVars
<1>1. CASE ScreenNext
  BY Zenon, <1>1, PressShape DEF ScreenNext, PageStep
<1> QED BY <1>1

LEMMA StepIsOfWorkflow ==
  ASSUME [ScreenNext]_screenVars PROVE [Next]_vars
<1>1. ASSUME NEW r \in Requests, NEW u \in Drafters, NEW op \in PageOps,
             Accepted(r, u, op)
      PROVE  Next
  <2>1. AcceptBy(r, u) /\ u \in Users
    BY <1>1, HandlerAccepts, DraftersAreUsers DEF Accepted
  <2> QED BY <2>1 DEF Next
<1>2. ASSUME NEW u \in Drafters, Create(u) PROVE Next
  BY <1>2, DraftersAreUsers DEF Create, Next
<1>3. ASSUME NEW u \in Drafters, PageStep(u) PROVE UNCHANGED vars
  BY <1>3, PageStepIsLocal
<1>4. ASSUME NEW r \in Requests, ServerStep(r) PROVE Next
  BY <1>4 DEF ServerStep, Next
<1>5. ASSUME NEW r \in Requests, NEW u \in Drafters, ClaimRefused(r, u)
      PROVE  UNCHANGED vars
  BY <1>5, ClaimRefusedEffect
<1>6. UNCHANGED screenVars => UNCHANGED vars BY DEF screenVars
<1> QED
  BY <1>1, <1>2, <1>3, <1>4, <1>5, <1>6, ScreenStepShape, PressShape, ClaimShape

\* Whatever the pages show and however late they are, the server's state only
\* moves as the workflow says: its theorems are theorems about the pages too.
THEOREM PagesRefineWorkflow == ScreenSpec => Spec
<1>1. ScreenInit => Init BY DEF ScreenInit
<1>2. [ScreenNext]_screenVars => [Next]_vars BY StepIsOfWorkflow
<1> QED BY <1>1, <1>2, PTL DEF ScreenSpec, Spec

\* So what is proved of requests sent by anyone at any moment holds of requests
\* sent from the pages: one request at a time, the lifecycle is kept, an approval
\* stands, and a filed submission has no editor.
THEOREM PagesKeepLifecycle ==
  ASSUME OneAtATime
  PROVE  ScreenSpec => ImplementsLifecycle /\ ApprovedIsFinal /\ []NoEditorOnceFiled
BY PagesRefineWorkflow, SerialImplementsLifecycle, SerialApprovalIsFinal,
   SerialNoEditorOnceFiled

-----------------------------------------------------------------------------
(* Somebody can act.                                                       *)

LegacyOps == {"federation_approve", "federation_return",
              "ministry_approve", "ministry_reject"}

\* Without a row of the four-level review, nothing ever reaches it.
TwoLevelInv ==
  /\ IInv
  /\ status \in {"none", "draft", "submitted", "approved", "deleted"}
  /\ tier \in {"cooperative", "apex"}
  /\ editor \in Drafters \union {NoUser}
  /\ \A r \in Requests :
       /\ call[r].op \notin LegacyOps
       /\ call[r].user \in Drafters \union {NoUser}
       /\ call[r].at # "hand_back"

LEMMA TwoLevelAccept ==
  ASSUME TwoLevelInv, IInv', NEW r \in Requests, NEW u \in Users,
         AcceptBy(r, u) \/ AcceptFromAbove(r)
  PROVE  TwoLevelInv'
<1>1. TypeOK BY DEF TwoLevelInv, IInv
<1>2. ~AcceptFromAbove(r)
  BY DEF AcceptFromAbove, AtFederation, FederationApprove, FederationReturn,
     MinistryApprove, MinistryReject, TwoLevelInv
<1>3. PICK op \in Endpoints \ LegacyOps, v \in Drafters, place \in EntryPlaces :
        Accept(r, op, v, place)
  BY <1>2 DEF AcceptBy, SubmitSubmission, SubmitChecks, ApexSubmitSubmission,
     ApexSubmitChecks, ApexApprove, ApexReturn, DecisionChecks, DelegateSubmission,
     DelegateChecks, ReclaimSubmission, ReclaimChecks, ClaimCooperativeEdit,
     CoopClaimChecks, ClaimApexEdit, ApexClaimChecks, DeleteSubmission, DeleteChecks,
     SaveDraft, SaveChecks, EditRecords, Drafters, UploadFinancialStatement,
     UploadChecks, ValidateExtraction, ValidateChecks, EntryPlaces, Endpoints, LegacyOps
<1>4. /\ \A q \in Requests \ {r} : call'[q] = call[q]
      /\ call'[r].at = place /\ call'[r].op = op /\ call'[r].user = v
      /\ UNCHANGED <<row, reviews>>
  BY <1>1, <1>3, AcceptEffect, DraftersAreUsers
<1> QED BY <1>3, <1>4 DEF TwoLevelInv, row, EntryPlaces

\* A request that moves on stays one of the two levels.
LEMMA TwoLevelGoto ==
  ASSUME TwoLevelInv, IInv', NEW r \in Requests,
         NEW place \in Places \ {"hand_back"}, Goto(r, place),
         status' \in {"draft", "submitted", "approved", "deleted"}
           \/ status' = status,
         tier' \in {"cooperative", "apex"},
         editor' \in Drafters \union {NoUser}
  PROVE  TwoLevelInv'
<1>1. TypeOK BY DEF TwoLevelInv, IInv
<1>2. /\ \A q \in Requests \ {r} : call'[q] = call[q]
      /\ place = "idle" => call'[r] = Idle
      /\ place # "idle" => /\ call'[r].at = place
                           /\ call'[r].op = call[r].op
                           /\ call'[r].user = call[r].user
  BY <1>1, GotoEffect
<1>3. Idle.op \notin LegacyOps /\ Idle.user = NoUser /\ Idle.at # "hand_back"
  BY DEF Idle, LegacyOps
<1>4. /\ call'[r].op \notin LegacyOps
      /\ call'[r].user \in Drafters \union {NoUser}
      /\ call'[r].at # "hand_back"
  BY <1>2, <1>3 DEF TwoLevelInv
<1> QED BY <1>2, <1>4 DEF TwoLevelInv

LEMMA TwoLevelStores ==
  ASSUME NEW op, op \notin LegacyOps, createdBy \in Roles
  PROVE  /\ NextStatus(op) \in {"draft", "submitted", "approved"}
         /\ NextTier(op) \in {"cooperative", "apex"}
         /\ AfterStore(op) \in Places \ {"hand_back"}
BY DEF LegacyOps, NextStatus, NextTier, AfterStore, Roles, Places

LEMMA TwoLevelContinue ==
  ASSUME TwoLevelInv, IInv', NEW r \in Requests, Continue(r) \/ Abort(r)
  PROVE  TwoLevelInv'
<1>1. TypeOK /\ createdBy \in Roles BY DEF TwoLevelInv, IInv, TypeOK
<1>2. /\ call[r].op \notin LegacyOps /\ call[r].at # "hand_back"
      /\ call[r].user \in Drafters \union {NoUser}
      /\ editor \in Drafters \union {NoUser}
      /\ tier \in {"cooperative", "apex"}
  BY DEF TwoLevelInv
<1>3. {"idle", "load", "attach", "extract", "take", "release"} \subseteq Places \ {"hand_back"}
  BY DEF Places
<1>4. CASE StoreStatus(r)
  BY <1>1, <1>2, <1>4, TwoLevelStores, TwoLevelGoto DEF StoreStatus, SetStatus
<1>5. CASE LoadStatus(r)
  <2>1. /\ \A q \in Requests \ {r} : call'[q] = call[q]
        /\ UNCHANGED <<row, reviews>>
    BY <1>1, <1>5 DEF LoadStatus, TypeOK
  <2>2. /\ call'[r].op = call[r].op /\ call'[r].user = call[r].user
        /\ call'[r].at \in {"transfer", "store"}
    BY <1>1, <1>5 DEF LoadStatus, TypeOK, Call
  <2> QED BY <1>2, <2>1, <2>2 DEF TwoLevelInv, row
<1>6. CASE AppendReview(r)
  <2>1. AfterReview(call[r].op) \in Places \ {"hand_back"} BY <1>3 DEF AfterReview
  <2> QED BY <1>2, <1>6, <2>1, TwoLevelGoto DEF AppendReview, row
<1>7. CASE TransferToCooperative(r) \/ DeleteRow(r)
  BY <1>2, <1>3, <1>7, TwoLevelGoto
     DEF TransferToCooperative, DeleteRow, SetStatus
<1>8. CASE ClearEditedBy(r) \/ ClaimEditedBy(r) \/ SetCurrentTier(r) \/ TakeEditedBy(r)
  BY <1>2, <1>3, <1>8, TwoLevelGoto
     DEF ClearEditedBy, ClaimEditedBy, SetCurrentTier, TakeEditedBy
<1>9. CASE \/ CheckDraft(r) \/ WriteData(r) \/ VerifyEditor(r) \/ AttachStatement(r)
           \/ ExtractionSucceeds(r) \/ ExtractionFails(r) \/ RowGone(r) \/ Abort(r)
  <2>1. UNCHANGED row /\ \E place \in Places \ {"hand_back"} : Goto(r, place)
    BY <1>3, <1>9 DEF CheckDraft, WriteData, VerifyEditor, AttachStatement,
       ExtractionSucceeds, ExtractionFails, RowGone, Abort
  <2> QED BY <1>2, <2>1, TwoLevelGoto DEF row
<1>10. ~HandBack(r) BY <1>2 DEF HandBack, At
<1> QED BY <1>4, <1>5, <1>6, <1>7, <1>8, <1>9, <1>10 DEF Continue

LEMMA TwoLevelStep ==
  ASSUME TwoLevelInv, [Next]_vars PROVE TwoLevelInv'
<1>1. IInv' BY NextKeepsIInv DEF TwoLevelInv
<1>2. ASSUME NEW u \in Users, CreateSubmission(u) PROVE TwoLevelInv'
  <2>1. u \in Drafters /\ CallerTier(u) \in {"cooperative", "apex"}
    BY <1>2 DEF CreateSubmission, Drafters, CallerTier
  <2> QED BY <1>1, <1>2, <2>1 DEF CreateSubmission, TwoLevelInv
<1>3. CASE UNCHANGED vars BY <1>1, <1>3 DEF vars, TwoLevelInv
<1>4. Official \in Users BY DEF Users
<1> QED BY <1>1, <1>2, <1>3, <1>4, TwoLevelAccept, TwoLevelContinue DEF Next

LEMMA TwoLevelInvariance == ASSUME LegacyRow = FALSE PROVE Spec => []TwoLevelInv
<1>1. Init => TwoLevelInv
  <2> SUFFICES ASSUME Init PROVE TwoLevelInv OBVIOUS
  <2>1. IInv BY InitIInv
  <2>2. \A r \in Requests : call[r] = Idle BY DEF Init
  <2> QED BY <2>1, <2>2 DEF Init, TwoLevelInv, Idle, LegacyOps
<1>2. TwoLevelInv /\ [Next]_vars => TwoLevelInv' BY TwoLevelStep
<1> QED BY <1>1, <1>2, PTL DEF Spec

\* Of a draft its editor, or whoever works at its tier, can file it; of a filed
\* one the apex can approve it.
LEMMA TwoLevelCanAct ==
  ASSUME TwoLevelInv, CoopUsers # {}, ApexUsers # {}, Unsettled
  PROVE  \E u \in Drafters :
           Offers(u, Current) \intersect {"submit", "apex_submit", "apex_approve"} # {}
<1>1. /\ Current.status = status /\ Current.tier = tier
      /\ Current.createdBy = createdBy /\ Current.editor = editor
  BY DEF Current
<1>2. status \in {"draft", "submitted"} /\ (status = "submitted" => tier = "apex")
  BY DEF TwoLevelInv, IInv, TierMatchesStatus, Unsettled, Exists, Statuses
<1>3. CASE status = "submitted"
  <2>1. PICK u \in ApexUsers : TRUE OBVIOUS
  <2>2. "apex_approve" \in Offers(u, Current)
    BY <1>1, <1>2, <1>3, <2>1 DEF Offers, OffersToReviewer
  <2> QED BY <2>1, <2>2 DEF Drafters
<1>4. CASE status = "draft"
  <2>1. \E u \in Drafters : IsEditor(u, Current)
    <3>1. CASE editor # NoUser
      BY <1>1, <1>4, <3>1 DEF TwoLevelInv, IsEditor
    <3>2. CASE editor = NoUser
      <4>1. PICK u \in Drafters : CallerTier(u) = tier
        BY UsersAssumption DEF TwoLevelInv, Drafters, CallerTier
      <4> QED BY <1>1, <1>4, <3>2, <4>1 DEF IsEditor, UnclaimedForMe
    <3> QED BY <3>1, <3>2
  <2>2. PICK u \in Drafters : IsEditor(u, Current) BY <2>1
  <2>3. "submit" \in Offers(u, Current) \/ "apex_submit" \in Offers(u, Current)
    BY <2>2 DEF Offers, OffersToHolder
  <2> QED BY <2>2, <2>3
<1> QED BY <1>2, <1>3, <1>4

\* However many requests interleave, sent by anyone and cut off anywhere or sent from
\* the pages, a submission that is not settled never gets stuck: if both tiers have
\* users and no row is of the older review, somebody who opens it is offered to file
\* or to approve it.
THEOREM SomeoneCanAlwaysAct ==
  ASSUME LegacyRow = FALSE, CoopUsers # {}, ApexUsers # {}
  PROVE  (Spec => []SomeoneCanAct) /\ (ScreenSpec => []SomeoneCanAct)
<1>1. TwoLevelInv => SomeoneCanAct BY TwoLevelCanAct DEF SomeoneCanAct
<1> QED BY <1>1, TwoLevelInvariance, PagesRefineWorkflow, PTL

-----------------------------------------------------------------------------
(* The pages keep their types.                                             *)

LEMMA PageFields ==
  ASSUME NEW p \in Page
  PROVE  /\ p.open \in BOOLEAN /\ p.asking \in BOOLEAN /\ p.tried \in BOOLEAN
         /\ p.claiming \in BOOLEAN /\ p.lost \in BOOLEAN
         /\ p.copy \in Copy /\ p.last \in Handovers /\ p.drawn \in 0 .. MaxReclaims
BY DEF Page

LEMMA CurrentIsCopy == ASSUME TypeOK, Exists PROVE Current \in Copy
BY DEF TypeOK, Exists, Current, Copy

LEMMA NoPageIsPage == NoPage \in Page
<1>1. NoPage.copy \in Copy
  BY DEF NoPage, Copy, Tiers, Roles
<1> QED BY <1>1, ScreenAssumption DEF NoPage, Page, Handovers

LEMMA AutoClaimKeeps ==
  ASSUME NEW u, NEW p \in Page
  PROVE  /\ AutoClaim(u, p) \in Page
         /\ AutoClaim(u, p).open = p.open
         /\ AutoClaim(u, p).copy = p.copy
         /\ AutoClaim(u, p).last = p.last
         /\ AutoClaim(u, p).asking = p.asking
         /\ AutoClaim(u, p).lost = p.lost
         /\ AutoClaim(u, p).drawn = p.drawn
BY DEF AutoClaim, Page

\* A redrawn page shows the row as it is; if the holder moved, a page of the
\* cooperative asks for the history.
LEMMA RedrawEffect ==
  ASSUME TypeOK, Exists, reclaims \in 0 .. MaxReclaims, NEW u, NEW p \in Page
  PROVE  /\ Redraw(u, p) \in Page
         /\ Redraw(u, p).open = p.open
         /\ Redraw(u, p).copy = Current
         /\ Redraw(u, p).last = p.last
         /\ Redraw(u, p).drawn = reclaims
         /\ Redraw(u, p).asking =
              (p.asking \/ (u \in CoopUsers /\ Holder(Current) # Holder(p.copy)))
         /\ ~p.lost /\ Kind(u, p) \notin EditableKinds => ~Redraw(u, p).lost
<1> DEFINE q == [p EXCEPT !.copy = Current, !.drawn = reclaims]
           asks == p.asking \/ (u \in CoopUsers /\ Holder(Current) # Holder(p.copy))
           loses == p.lost \/ SeesLoss(u, p, q)
           n == [q EXCEPT !.asking = asks, !.lost = loses]
<1>1. Current \in Copy BY CurrentIsCopy
<1>2. q \in Page BY <1>1 DEF Page
<1>3. q.open = p.open /\ q.copy = Current /\ q.last = p.last /\ q.drawn = reclaims
  BY DEF Page
<1>4. asks \in BOOLEAN /\ loses \in BOOLEAN BY Zenon
<1> HIDE DEF q, asks, loses
<1>5. n \in Page BY <1>2, <1>4 DEF Page
<1>6. n.open = q.open /\ n.copy = q.copy /\ n.last = q.last /\ n.drawn = q.drawn
  BY <1>2 DEF Page
<1>7. n.asking = asks BY <1>2 DEF Page
<1>8. n.lost = loses BY <1>2 DEF Page
<1>9. ~p.lost /\ Kind(u, p) \notin EditableKinds => ~loses
  BY DEF loses, SeesLoss
<1>10. Redraw(u, p) = AutoClaim(u, n) BY DEF Redraw, q, asks, loses
<1> HIDE DEF n
<1>11. /\ AutoClaim(u, n) \in Page
       /\ AutoClaim(u, n).open = n.open
       /\ AutoClaim(u, n).copy = n.copy
       /\ AutoClaim(u, n).last = n.last
       /\ AutoClaim(u, n).asking = n.asking
       /\ AutoClaim(u, n).lost = n.lost
       /\ AutoClaim(u, n).drawn = n.drawn
  BY <1>5, AutoClaimKeeps
<1>12. Redraw(u, p).asking = asks BY <1>7, <1>10, <1>11
<1>13. ~loses => ~Redraw(u, p).lost BY <1>8, <1>10, <1>11
<1> QED BY <1>3, <1>6, <1>9, <1>10, <1>11, <1>12, <1>13 DEF asks

LEMMA ClosedIsPage ==
  ASSUME NEW p \in Page
  PROVE  /\ Closed(p) \in Page
         /\ ~Closed(p).open /\ ~Closed(p).lost /\ ~Closed(p).asking
         /\ Closed(p).copy = NoPage.copy /\ Closed(p).drawn = 0
BY NoPageIsPage DEF Closed, NoPage, Page

LEMMA OpenedPage ==
  ASSUME TypeOK, Exists, reclaims \in 0 .. MaxReclaims, handover \in Handovers,
         NEW u, NEW p \in Page
  PROVE  /\ Opened(u, p) \in Page
         /\ Opened(u, p).open /\ Opened(u, p).copy = Current
         /\ Opened(u, p).drawn = reclaims
         /\ Opened(u, p).lost = p.lost /\ Opened(u, p).asking = p.asking
         /\ u \in CoopUsers => Opened(u, p).last = handover
<1> DEFINE news == IF u \in CoopUsers THEN handover ELSE "none"
           q == [p EXCEPT !.open = TRUE, !.copy = Current, !.drawn = reclaims,
                          !.last = news]
<1>1. Current \in Copy BY CurrentIsCopy
<1>2. news \in Handovers BY DEF Handovers
<1> HIDE DEF news
<1>3. q \in Page BY <1>1, <1>2 DEF Page
<1>4. q.open = TRUE /\ q.copy = Current /\ q.drawn = reclaims /\ q.last = news
  BY DEF Page
<1>5. q.lost = p.lost /\ q.asking = p.asking BY DEF Page
<1> DEFINE n == Opened(u, p)
<1>6. n = AutoClaim(u, q) BY DEF q, news, Opened
<1> HIDE DEF q, n
<1>7. /\ n \in Page /\ n.copy = q.copy /\ n.drawn = q.drawn /\ n.last = q.last
      /\ n.open = q.open /\ n.lost = q.lost /\ n.asking = q.asking
  BY <1>3, <1>6, AutoClaimKeeps
<1>8. n.open BY <1>4, <1>7
<1>9. n.lost = p.lost /\ n.asking = p.asking BY <1>5, <1>7
<1>10. u \in CoopUsers => n.last = handover BY <1>4, <1>7 DEF news
<1> QED BY <1>4, <1>7, <1>8, <1>9, <1>10 DEF n

\* The fields of a page that its own steps and requests may set alone.
LEMMA PageUpdates ==
  ASSUME NEW p \in Page
  PROVE  /\ \A h \in Handovers : [p EXCEPT !.last = h, !.asking = FALSE] \in Page
         /\ \A b \in BOOLEAN : /\ [p EXCEPT !.lost = b] \in Page
                               /\ [p EXCEPT !.claiming = b] \in Page
BY DEF Page

\* A page's own step replaces that page.
LEMMA PageStepReplaces ==
  ASSUME ScreenTypeOK, NEW u \in Drafters, Unsettled, PageStep(u)
  PROVE  \E n \in Page : page' = [page EXCEPT ![u] = n]
<1>1. TypeOK /\ Exists /\ reclaims \in 0 .. MaxReclaims /\ handover \in Handovers
      /\ page[u] \in Page
  BY DEF ScreenTypeOK, Unsettled
<1>2. CASE OpenPage(u) BY <1>1, <1>2, OpenedPage DEF OpenPage
<1>3. CASE Refetch(u) BY <1>1, <1>3, RedrawEffect DEF Refetch
<1>4. CASE ReviewsArrive(u)
  <2>1. page' = [page EXCEPT ![u] = [page[u] EXCEPT !.last = handover, !.asking = FALSE]]
    BY <1>1, <1>4 DEF ReviewsArrive, ScreenTypeOK
  <2> QED BY <1>1, <2>1, PageUpdates
<1>5. CASE ClosePage(u) BY <1>1, <1>5, ClosedIsPage DEF ClosePage
<1>6. CASE DismissLost(u) BY <1>1, <1>6, PageUpdates DEF DismissLost
<1>7. CASE SaveRefused(u)
  BY <1>1, <1>7, RedrawEffect, PageUpdates DEF SaveRefused
<1> QED BY <1>2, <1>3, <1>4, <1>5, <1>6, <1>7 DEF PageStep

LEMMA StepKeepsTypes ==
  ASSUME IInv, ScreenTypeOK, [ScreenNext]_screenVars PROVE ScreenTypeOK'
<1>1. TypeOK' BY StepIsOfWorkflow, NextKeepsIInv DEF IInv
<1>2. /\ page \in [Drafters -> Page] /\ handover \in Handovers
      /\ reclaims \in 0 .. MaxReclaims
  BY DEF ScreenTypeOK
<1>3. ASSUME NEW u \in Drafters, Create(u) PROVE ScreenTypeOK'
  BY <1>1, <1>2, <1>3 DEF Create, ScreenTypeOK
<1>4. ASSUME NEW u \in Drafters, Unsettled, PageStep(u) PROVE ScreenTypeOK'
  <2>1. UNCHANGED <<handover, reclaims>> BY <1>4, PageStepIsLocal
  <2>2. page' \in [Drafters -> Page] BY <1>2, <1>4, PageStepReplaces
  <2> QED BY <1>1, <1>2, <2>1, <2>2 DEF ScreenTypeOK
<1>5. ASSUME NEW op, RecordsReclaim(op)
      PROVE  handover' \in Handovers /\ reclaims' \in 0 .. MaxReclaims
  BY <1>2, <1>5, ScreenAssumption DEF RecordsReclaim, Handovers
<1>6. ASSUME NEW r \in Requests, NEW u \in Drafters, NEW op \in PageOps,
             Press(r, u, op) \/ StartExtraction(r, u, op)
      PROVE  ScreenTypeOK'
  <2>1. handover' \in Handovers /\ reclaims' \in 0 .. MaxReclaims
    BY <1>5, <1>6, PressShape DEF Accepted
  <2>2. page' = page \/ page' = [page EXCEPT ![u] = Closed(page[u])]
    BY <1>6 DEF Press, StartExtraction
  <2>3. page' \in [Drafters -> Page] BY <1>2, <2>2, ClosedIsPage
  <2> QED BY <1>1, <2>1, <2>3 DEF ScreenTypeOK
<1>7. ASSUME NEW r \in Requests, NEW u \in Drafters, ClaimArrives(r, u)
      PROVE  ScreenTypeOK'
  <2>1. handover' \in Handovers /\ reclaims' \in 0 .. MaxReclaims
    BY <1>5, <1>7, ClaimShape DEF Accepted
  <2>2. page' \in [Drafters -> Page]
    BY <1>2, <1>7, PageUpdates DEF ClaimArrives
  <2> QED BY <1>1, <2>1, <2>2 DEF ScreenTypeOK
<1>8. ASSUME NEW r \in Requests, NEW u \in Drafters, ClaimRefused(r, u)
      PROVE  ScreenTypeOK'
  <2>1. page' = [page EXCEPT ![u].claiming = FALSE]
        /\ UNCHANGED <<handover, reclaims>>
    BY <1>8, ClaimRefusedEffect
  <2>2. page' \in [Drafters -> Page] BY <1>2, <2>1, PageUpdates
  <2> QED BY <1>1, <1>2, <2>1, <2>2 DEF ScreenTypeOK
<1>9. ASSUME NEW r \in Requests, ServerStep(r) PROVE ScreenTypeOK'
  <2>1. handover' \in {"delegated", handover} /\ UNCHANGED <<reclaims, page>>
    BY Zenon, <1>9 DEF ServerStep
  <2> QED BY <1>1, <1>2, <2>1 DEF ScreenTypeOK, Handovers
<1>10. CASE UNCHANGED screenVars
  BY <1>1, <1>2, <1>10 DEF screenVars, ScreenTypeOK
<1> QED
  BY <1>3, <1>4, <1>6, <1>7, <1>8, <1>9, <1>10, ScreenStepShape

LEMMA InitScreenTypes == ScreenInit => ScreenTypeOK
<1>1. Init => TypeOK BY InitIInv DEF IInv
<1> QED BY <1>1, NoPageIsPage, ScreenAssumption DEF ScreenInit, ScreenTypeOK, Handovers

\* Every copy, mark and history entry of every page keeps its type.
THEOREM ScreenTypeCorrect == ScreenSpec => []ScreenTypeOK
<1>1. IInv /\ ScreenTypeOK /\ [ScreenNext]_screenVars => ScreenTypeOK'
  BY StepKeepsTypes
<1> QED BY <1>1, InitScreenTypes, PagesRefineWorkflow, Invariance, PTL DEF ScreenSpec

-----------------------------------------------------------------------------
(* The buttons of a page, and what the handlers ask.                       *)

\* A request in flight that would take the draft of the cooperative to the apex.
TakesUp(c) ==
  c.at \in {"set_tier", "take"} \/ (c.at = "claim" /\ c.user \in ApexUsers)

\* What the cooperative began stays with it until it is filed: no user of the apex
\* is its editor, or is about to become it, and no page of the apex has claimed it.
CoopDraftStays ==
  /\ status = "none" => createdBy # "apex"
  /\ createdBy # "apex" =>
       /\ status = "draft" => tier = "cooperative"
       /\ editor \notin ApexUsers
       /\ \A r \in Requests : ~TakesUp(call[r])
       /\ \A u \in ApexUsers : ~page[u].claiming

LEMMA OffersAreNoClaims ==
  ASSUME NEW u, NEW c PROVE Offers(u, c) \intersect {"claim_coop", "claim_apex"} = {}
<1>1. OffersToHolder(u, c) \subseteq {"save", "apex_submit", "submit"} BY DEF OffersToHolder
<1>2. OffersToReviewer(u, c) \subseteq {"apex_approve", "apex_return"} BY DEF OffersToReviewer
<1> QED BY <1>1, <1>2 DEF Offers

\* A page of the apex claims nothing the cooperative began.
LEMMA AutoClaimsOwnTier ==
  ASSUME NEW u \in ApexUsers, NEW p \in Page, AutoClaim(u, p).claiming
  PROVE  p.claiming \/ (p.copy.status = "draft" /\ p.copy.tier = "apex")
<1>1. CallerTier(u) = "apex" BY UsersAssumption DEF CallerTier
<1> QED BY <1>1 DEF AutoClaim, Page

LEMMA RedrawClaimsOwnTier ==
  ASSUME TypeOK, Exists, reclaims \in 0 .. MaxReclaims,
         NEW u \in ApexUsers, NEW p \in Page, Redraw(u, p).claiming
  PROVE  p.claiming \/ (status = "draft" /\ tier = "apex")
<1> DEFINE q == [p EXCEPT !.copy = Current, !.drawn = reclaims]
           asks == p.asking \/ (u \in CoopUsers /\ Holder(Current) # Holder(p.copy))
           loses == p.lost \/ SeesLoss(u, p, q)
           n == [q EXCEPT !.asking = asks, !.lost = loses]
<1>1. Current \in Copy BY CurrentIsCopy
<1>2. q \in Page /\ q.copy = Current /\ q.claiming = p.claiming BY <1>1 DEF Page
<1>3. asks \in BOOLEAN /\ loses \in BOOLEAN BY Zenon
<1>4. AutoClaim(u, n).claiming BY DEF Redraw, q, asks, loses
<1> HIDE DEF q, asks, loses
<1>5. n \in Page /\ n.copy = q.copy /\ n.claiming = q.claiming BY <1>2, <1>3 DEF Page
<1> HIDE DEF n
<1>6. n.claiming \/ (n.copy.status = "draft" /\ n.copy.tier = "apex")
  BY <1>4, <1>5, AutoClaimsOwnTier
<1> QED BY <1>2, <1>5, <1>6 DEF Current

LEMMA OpenedClaimsOwnTier ==
  ASSUME TypeOK, Exists, reclaims \in 0 .. MaxReclaims, handover \in Handovers,
         NEW u \in ApexUsers, NEW p \in Page, Opened(u, p).claiming
  PROVE  p.claiming \/ (status = "draft" /\ tier = "apex")
<1> DEFINE news == IF u \in CoopUsers THEN handover ELSE "none"
           q == [p EXCEPT !.open = TRUE, !.copy = Current, !.drawn = reclaims,
                          !.last = news]
<1>1. Current \in Copy BY CurrentIsCopy
<1>2. news \in Handovers BY DEF Handovers
<1>3. AutoClaim(u, q).claiming BY DEF q, news, Opened
<1> HIDE DEF news
<1>4. q \in Page /\ q.copy = Current /\ q.claiming = p.claiming BY <1>1, <1>2 DEF Page
<1> HIDE DEF q
<1>5. q.claiming \/ (q.copy.status = "draft" /\ q.copy.tier = "apex")
  BY <1>3, <1>4, AutoClaimsOwnTier
<1> QED BY <1>4, <1>5 DEF Current

\* A page step brings no claim of the apex on a draft the cooperative holds.
LEMMA PageStepClaims ==
  ASSUME ScreenTypeOK, NEW u \in Drafters, Unsettled, PageStep(u),
         NEW v \in ApexUsers, page'[v].claiming
  PROVE  page[v].claiming \/ (status = "draft" /\ tier = "apex")
<1>1. /\ TypeOK /\ Exists /\ reclaims \in 0 .. MaxReclaims /\ handover \in Handovers
      /\ page \in [Drafters -> Page] /\ page[u] \in Page /\ v \in Drafters
  BY DEF ScreenTypeOK, Unsettled, Drafters
<1>2. PICK n \in Page : page' = [page EXCEPT ![u] = n] BY PageStepReplaces
<1>3. CASE v # u BY <1>1, <1>2, <1>3
<1>4. CASE v = u
  <2>1. page'[u] = n /\ n.claiming BY <1>1, <1>2, <1>4
  <2>2. CASE OpenPage(u)
    <3>1. n = Opened(u, page[u]) BY <1>1, <2>1, <2>2 DEF OpenPage
    <3> QED BY <1>1, <1>4, <2>1, <3>1, OpenedClaimsOwnTier
  <2>3. CASE Refetch(u)
    <3>1. n = Redraw(u, page[u]) BY <1>1, <2>1, <2>3 DEF Refetch
    <3> QED BY <1>1, <1>4, <2>1, <3>1, RedrawClaimsOwnTier
  <2>4. CASE SaveRefused(u)
    <3>1. n = [Redraw(u, page[u]) EXCEPT !.lost = TRUE]
      BY <1>1, <2>1, <2>4 DEF SaveRefused
    <3>2. Redraw(u, page[u]) \in Page BY <1>1, RedrawEffect
    <3>3. n.claiming = Redraw(u, page[u]).claiming BY <3>1, <3>2 DEF Page
    <3> QED BY <1>1, <1>4, <2>1, <3>3, RedrawClaimsOwnTier
  <2>5. CASE ReviewsArrive(u)
    <3>1. n = [page[u] EXCEPT !.last = handover, !.asking = FALSE]
      BY <1>1, <2>1, <2>5 DEF ReviewsArrive
    <3> QED BY <1>1, <1>4, <2>1, <3>1 DEF Page
  <2>6. CASE ClosePage(u)
    <3>1. n = [NoPage EXCEPT !.claiming = page[u].claiming]
      BY <1>1, <2>1, <2>6 DEF ClosePage, Closed
    <3> QED BY <1>1, <1>4, <2>1, <3>1, NoPageIsPage DEF Page
  <2>7. CASE DismissLost(u)
    <3>1. n = [page[u] EXCEPT !.lost = FALSE] BY <1>1, <2>1, <2>7 DEF DismissLost
    <3> QED BY <1>1, <1>4, <2>1, <3>1 DEF Page
  <2> QED BY <2>2, <2>3, <2>4, <2>5, <2>6, <2>7 DEF PageStep
<1> QED BY <1>3, <1>4

\* The server's own steps bring a draft up only by a reclaim.
LEMMA ServerKeepsCoopDraft ==
  ASSUME TwoLevelInv, CoopDraftStays, NEW r \in Requests, ServerStep(r)
  PROVE  CoopDraftStays'
<1>1. TypeOK /\ createdBy \in Roles /\ call[r].op \notin LegacyOps
      /\ call[r].at # "hand_back"
  BY DEF TwoLevelInv, IInv, TypeOK
<1>2. Continue(r) /\ page' = page BY DEF ServerStep
<1>3. CASE createdBy = "apex"
  <2>1. UNCHANGED createdBy
    BY <1>1, <1>2 DEF Continue, RowGone, row, CheckDraft, LoadStatus, StoreStatus,
       TransferToCooperative, AppendReview, ClearEditedBy, ClaimEditedBy,
       SetCurrentTier, TakeEditedBy, HandBack, DeleteRow, WriteData, VerifyEditor,
       AttachStatement, ExtractionSucceeds, ExtractionFails, SetStatus
  <2>2. status # "none" BY <1>3 DEF CoopDraftStays
  <2>3. CASE StoreStatus(r)
    <3>1. NextStatus(call[r].op) # "none" BY <1>1, TwoLevelStores
    <3> QED BY <1>3, <2>1, <2>3, <3>1 DEF StoreStatus, SetStatus, CoopDraftStays
  <2>4. status' = status \/ status' \in {"draft", "deleted"} \/ StoreStatus(r)
    BY <1>2 DEF Continue, RowGone, row, CheckDraft, LoadStatus,
       TransferToCooperative, AppendReview, ClearEditedBy, ClaimEditedBy,
       SetCurrentTier, TakeEditedBy, HandBack, DeleteRow, WriteData, VerifyEditor,
       AttachStatement, ExtractionSucceeds, ExtractionFails, SetStatus
  <2> QED BY <1>3, <2>1, <2>2, <2>3, <2>4 DEF CoopDraftStays
<1>4. CASE createdBy # "apex"
  <2>1. /\ status = "draft" => tier = "cooperative"
        /\ editor \notin ApexUsers
        /\ \A q \in Requests : ~TakesUp(call[q])
        /\ \A u \in ApexUsers : ~page[u].claiming
    BY <1>4 DEF CoopDraftStays
  <2>2. call[r].at \notin {"set_tier", "take"} BY <2>1 DEF TakesUp
  <2>3. NoUser \notin ApexUsers BY UsersAssumption DEF Users
  <2> DEFINE Stays == /\ createdBy' = createdBy
                      /\ status' = "draft" => tier' = "cooperative"
                      /\ editor' \notin ApexUsers
             Calls == \A q \in Requests : ~TakesUp(call'[q])
  <2> SUFFICES Stays /\ Calls
    BY <1>2, <1>4, <2>1 DEF CoopDraftStays
  <2>4. ASSUME NEW place \in Places \ {"set_tier", "take", "claim"}, Goto(r, place)
        PROVE  Calls
    <3>1. /\ \A q \in Requests \ {r} : call'[q] = call[q]
          /\ place = "idle" => call'[r] = Idle
          /\ place # "idle" => call'[r].at = place
      BY <1>1, <2>4, GotoEffect
    <3>2. Idle.at = "idle" BY DEF Idle
    <3> QED BY <2>1, <2>4, <3>1, <3>2 DEF TakesUp
  <2>5. {"idle", "load", "attach", "extract", "release"} \subseteq
          Places \ {"set_tier", "take", "claim"}
    BY DEF Places
  <2>6. CASE StoreStatus(r)
    <3>1. AfterStore(call[r].op) \in Places \ {"set_tier", "take", "claim"}
      BY <1>1 DEF AfterStore, Places, LegacyOps
    <3>2. NextStatus(call[r].op) = "draft" => NextTier(call[r].op) = "cooperative"
      BY <1>1, <1>4 DEF NextStatus, NextTier, LegacyOps, Roles
    <3> QED BY <2>1, <2>4, <2>6, <3>1, <3>2 DEF StoreStatus, SetStatus
  <2>7. CASE LoadStatus(r)
    <3>1. /\ UNCHANGED row /\ \A q \in Requests \ {r} : call'[q] = call[q]
          /\ call'[r].at \in {"store", "transfer"}
      BY <1>1, <2>7 DEF LoadStatus, TypeOK, Call
    <3> QED BY <2>1, <3>1 DEF row, TakesUp
  <2>8. CASE AppendReview(r)
    <3>1. AfterReview(call[r].op) \in Places \ {"set_tier", "take", "claim"}
      BY <2>5 DEF AfterReview
    <3> QED BY <2>1, <2>4, <2>8, <3>1 DEF AppendReview, row
  <2>9. CASE TransferToCooperative(r) \/ DeleteRow(r) \/ ClearEditedBy(r)
    BY <2>1, <2>3, <2>4, <2>5, <2>9
       DEF TransferToCooperative, DeleteRow, ClearEditedBy, SetStatus
  <2>10. CASE ClaimEditedBy(r)
    BY <2>1, <2>4, <2>5, <2>10 DEF ClaimEditedBy, At, TakesUp
  <2>11. CASE \/ CheckDraft(r) \/ WriteData(r) \/ VerifyEditor(r) \/ AttachStatement(r)
              \/ ExtractionSucceeds(r) \/ ExtractionFails(r) \/ RowGone(r)
    <3>1. UNCHANGED row /\ \E place \in Places \ {"set_tier", "take", "claim"} :
            Goto(r, place)
      BY <2>5, <2>11 DEF CheckDraft, WriteData, VerifyEditor, AttachStatement,
         ExtractionSucceeds, ExtractionFails, RowGone
    <3> QED BY <2>1, <2>4, <3>1 DEF row
  <2>12. ~SetCurrentTier(r) /\ ~TakeEditedBy(r) /\ ~HandBack(r)
    BY <1>1, <2>2 DEF SetCurrentTier, TakeEditedBy, HandBack, At
  <2> QED
    BY <1>2, <2>6, <2>7, <2>8, <2>9, <2>10, <2>11, <2>12 DEF Continue
<1> QED BY <1>3, <1>4

\* A request of a page leaves the row, and takes no draft of the cooperative up.
LEMMA AcceptedTakesNothing ==
  ASSUME TwoLevelInv, NEW r \in Requests, NEW u \in Drafters, NEW op \in PageOps,
         Accepted(r, u, op), op = "claim_apex" => createdBy = "apex"
  PROVE  /\ UNCHANGED row
         /\ createdBy # "apex" /\ (\A q \in Requests : ~TakesUp(call[q])) =>
              \A q \in Requests : ~TakesUp(call'[q])
<1>1. TypeOK BY DEF TwoLevelInv, IInv
<1>2. AcceptBy(r, u) /\ u \in Users
  BY HandlerAccepts, DraftersAreUsers DEF Accepted
<1>3. PICK o \in Endpoints, v \in Users, place \in EntryPlaces : Accept(r, o, v, place)
  BY <1>2, AcceptShape
<1>4. UNCHANGED row /\ \A q \in Requests \ {r} : call'[q] = call[q]
  BY <1>1, <1>3, AcceptEffect
<1>5. ASSUME createdBy # "apex" PROVE ~TakesUp(call'[r])
  <2>1. CASE op = "claim_coop"
    <3>1. Accept(r, op, u, "claim") /\ u \in CoopUsers
      BY <2>1 DEF Accepted, Handler, PageOps, ClaimCooperativeEdit, CoopClaimChecks
    <3>2. op \in Endpoints /\ "claim" \in EntryPlaces
      BY <2>1 DEF Endpoints, EntryPlaces
    <3>3. call'[r].at = "claim" /\ call'[r].user = u
      BY <1>1, <1>2, <3>1, <3>2, AcceptEffect
    <3> QED BY <3>1, <3>3, UsersAssumption DEF TakesUp
  <2>2. CASE op # "claim_coop"
    <3>1. op \notin {"claim_coop", "claim_apex"} BY <1>5, <2>2
    <3>2. op # "reclaim" BY <1>5 DEF Accepted, Handler, ReclaimSubmission, ReclaimChecks
    <3>3. PICK e \in Endpoints, p \in EntryPlaces \ {"set_tier", "claim"} :
            Accept(r, e, u, p)
      BY <3>1, <3>2 DEF Accepted, Handler, PageOps, SubmitSubmission,
         ApexSubmitSubmission, ApexApprove, ApexReturn, DelegateSubmission,
         DeleteSubmission, UploadFinancialStatement, ValidateExtraction,
         EntryPlaces, Endpoints
    <3>4. call'[r].at = p BY <1>1, <1>2, <3>3, AcceptEffect
    <3> QED BY <3>3, <3>4 DEF TakesUp, EntryPlaces
  <2> QED BY <2>1, <2>2
<1> QED BY <1>4, <1>5

LEMMA StepKeepsCoopDraft ==
  ASSUME TwoLevelInv, ScreenTypeOK, CoopDraftStays, [ScreenNext]_screenVars
  PROVE  CoopDraftStays'
<1>1. ApexUsers \subseteq Drafters /\ page \in [Drafters -> Page]
  BY DEF Drafters, ScreenTypeOK
<1>2. ASSUME NEW u \in Drafters, Create(u) PROVE CoopDraftStays'
  <2>1. /\ status = "none" /\ status' = "draft"
        /\ createdBy' = CallerTier(u) /\ tier' = CallerTier(u) /\ editor' = u
        /\ UNCHANGED <<call, page>>
    BY <1>2 DEF Create, CreateSubmission
  <2>2. CASE u \in ApexUsers
    BY <2>1, <2>2, UsersAssumption DEF CallerTier, CoopDraftStays
  <2>3. CASE u \in CoopUsers
    <3>1. CallerTier(u) = "cooperative" /\ u \notin ApexUsers
      BY <2>3, UsersAssumption DEF CallerTier
    <3> QED BY <2>1, <3>1 DEF CoopDraftStays
  <2> QED BY <2>2, <2>3 DEF Drafters
<1>3. ASSUME NEW u \in Drafters, Unsettled, PageStep(u) PROVE CoopDraftStays'
  <2>1. UNCHANGED vars BY <1>3, PageStepIsLocal
  <2>2. \A v \in ApexUsers : page'[v].claiming =>
          page[v].claiming \/ (status = "draft" /\ tier = "apex")
    BY <1>3, PageStepClaims
  <2> QED BY <2>1, <2>2 DEF CoopDraftStays, vars, row
<1>4. ASSUME NEW r \in Requests, NEW u \in Drafters, NEW op \in PageOps,
             Press(r, u, op) \/ StartExtraction(r, u, op)
      PROVE  CoopDraftStays'
  <2>1. Accepted(r, u, op) BY <1>4, PressShape
  <2>2. op # "claim_apex"
    BY <1>4, OffersAreNoClaims DEF Press, StartExtraction
  <2>3. \A v \in ApexUsers : page'[v].claiming => page[v].claiming
    <3>1. CASE page' = page BY <3>1
    <3>2. CASE page' = [page EXCEPT ![u] = Closed(page[u])]
      <4>1. Closed(page[u]).claiming => page[u].claiming
        BY <1>1, NoPageIsPage DEF Closed, Page
      <4> QED BY <1>1, <3>2, <4>1
    <3> QED BY <1>4, <3>1, <3>2 DEF Press, StartExtraction
  <2>4. /\ UNCHANGED row
        /\ createdBy # "apex" /\ (\A q \in Requests : ~TakesUp(call[q])) =>
             \A q \in Requests : ~TakesUp(call'[q])
    BY <2>1, <2>2, AcceptedTakesNothing
  <2> QED BY <2>3, <2>4 DEF CoopDraftStays, row
<1>5. ASSUME NEW r \in Requests, NEW u \in Drafters, ClaimArrives(r, u)
      PROVE  CoopDraftStays'
  <2>1. ClaimOp(u) \in PageOps /\ Accepted(r, u, ClaimOp(u)) BY <1>5, ClaimShape
  <2>2. page[u].claiming /\ page' = [page EXCEPT ![u].claiming = FALSE]
    BY <1>5 DEF ClaimArrives
  <2>3. ClaimOp(u) = "claim_apex" => createdBy = "apex"
    BY <2>2 DEF ClaimOp, CoopDraftStays
  <2>4. /\ UNCHANGED row
        /\ createdBy # "apex" /\ (\A q \in Requests : ~TakesUp(call[q])) =>
             \A q \in Requests : ~TakesUp(call'[q])
    BY <2>1, <2>3, AcceptedTakesNothing
  <2>5. \A v \in ApexUsers : page'[v].claiming => page[v].claiming
    BY <1>1, <2>2 DEF Page
  <2> QED BY <2>4, <2>5 DEF CoopDraftStays, row
<1>6. ASSUME NEW r \in Requests, NEW u \in Drafters, ClaimRefused(r, u)
      PROVE  CoopDraftStays'
  <2>1. UNCHANGED vars /\ page' = [page EXCEPT ![u].claiming = FALSE]
    BY <1>6, ClaimRefusedEffect
  <2>2. \A v \in ApexUsers : page'[v].claiming => page[v].claiming
    BY <1>1, <2>1 DEF Page
  <2> QED BY <2>1, <2>2 DEF CoopDraftStays, vars, row
<1>7. CASE UNCHANGED screenVars
  BY <1>7 DEF screenVars, vars, row, CoopDraftStays
<1> QED
  BY <1>2, <1>3, <1>4, <1>5, <1>6, <1>7, ServerKeepsCoopDraft, ScreenStepShape

LEMMA InitCoopDraft == ASSUME LegacyRow = FALSE PROVE ScreenInit => CoopDraftStays
<1> SUFFICES ASSUME ScreenInit PROVE CoopDraftStays OBVIOUS
<1>1. /\ createdBy = "cooperative" /\ status = "none" /\ editor = NoUser
      /\ \A r \in Requests : call[r] = Idle
  BY DEF ScreenInit, Init
<1>2. \A u \in ApexUsers : page[u] = NoPage BY DEF ScreenInit, Drafters
<1>3. Idle.at = "idle" /\ ~NoPage.claiming BY DEF Idle, NoPage
<1>4. NoUser \notin ApexUsers BY UsersAssumption DEF Users
<1> QED BY <1>1, <1>2, <1>3, <1>4 DEF CoopDraftStays, TakesUp

\* What each button asks for is what its handler checks.
LEMMA OffersFit ==
  ASSUME TwoLevelInv, CoopDraftStays, Exists, NEW u \in Drafters,
         NEW op \in Offers(u, Current) \ Disputed(Current)
  PROVE  Passes(op, u)
<1>1. /\ Current.status = status /\ Current.tier = tier
      /\ Current.createdBy = createdBy /\ Current.editor = editor
  BY DEF Current
<1>2. u # NoUser /\ u \in CoopUsers \union ApexUsers
  BY UsersAssumption DEF Users, Drafters
<1>3. tier \in {"cooperative", "apex"} BY DEF TwoLevelInv
<1>4. CASE op \in OffersToHolder(u, Current)
  <2>1. IsEditor(u, Current) BY <1>4 DEF OffersToHolder
  <2>2. status = "draft" /\ (editor = u \/ (editor = NoUser /\ tier = CallerTier(u)))
    BY <1>1, <2>1 DEF IsEditor, UnclaimedForMe
  <2>3. CASE op = "save"
    <3>1. HoldsDraft(u) BY <1>2, <2>2 DEF HoldsDraft
    <3>2. SaveChecks(u) BY <1>2, <2>2, <3>1 DEF SaveChecks
    <3> QED BY <2>3, <3>2 DEF Passes
  <2>4. CASE op = "apex_submit" /\ u \in ApexUsers
    <3>1. CallerTier(u) = "apex" BY <2>4, UsersAssumption DEF CallerTier
    <3>2. ApexMaySubmit BY <2>2, <2>4, <3>1 DEF ApexMaySubmit, CoopDraftStays
    <3>3. ApexSubmitChecks(u) BY <2>4, <3>2 DEF ApexSubmitChecks
    <3> QED BY <2>4, <3>3 DEF Passes
  <2>5. CASE op = "submit" /\ u \notin ApexUsers
    <3>1. SubmitChecks(u) BY <1>2, <2>2, <2>5 DEF SubmitChecks
    <3> QED BY <2>5, <3>1 DEF Passes
  <2> QED BY <1>4, <2>1, <2>3, <2>4, <2>5 DEF OffersToHolder
<1>5. CASE op \in OffersToReviewer(u, Current)
  <2>1. op \in {"apex_approve", "apex_return"} /\ DecisionChecks(u)
    BY <1>1, <1>5 DEF OffersToReviewer, DecisionChecks
  <2> QED BY <2>1 DEF Passes
<1>6. CASE op = "reclaim" /\ MayReclaim(u, Current)
  <2>1. ReclaimChecks(u) BY <1>1, <1>6 DEF MayReclaim, ReclaimChecks, Unsettled
  <2> QED BY <1>6, <2>1 DEF Passes
<1>7. CASE op = "delegate" /\ MayDelegate(u, Current)
  <2>1. tier = "apex" BY <1>1, <1>3, <1>7 DEF Disputed
  <2>2. DelegateChecks(u)
    BY <1>1, <1>7, <2>1 DEF MayDelegate, DelegateChecks, Unsettled
  <2> QED BY <1>7, <2>2 DEF Passes
<1>8. op # "delete" BY DEF Disputed
<1> QED BY <1>4, <1>5, <1>6, <1>7, <1>8 DEF Offers

\* However many requests and claims are under way, and however late: what a page
\* offers of the row as it is, the checks of the server let through, whether the
\* user is its editor, may claim it, reviews it, delegates it or reclaims it.
THEOREM OffersAreAccepted ==
  ASSUME LegacyRow = FALSE PROVE ScreenSpec => []OffersAccepted
<1>1. TwoLevelInv /\ ScreenTypeOK /\ CoopDraftStays /\ [ScreenNext]_screenVars
        => CoopDraftStays'
  BY StepKeepsCoopDraft
<1>2. TwoLevelInv /\ CoopDraftStays => OffersAccepted
  BY OffersFit DEF OffersAccepted
<1> QED
  BY <1>1, <1>2, InitCoopDraft, TwoLevelInvariance, PagesRefineWorkflow,
     ScreenTypeCorrect, PTL DEF ScreenSpec

-----------------------------------------------------------------------------
(* The dialog of a user who lost the draft, with one request at a time.     *)

\* While the submission has never been filed: where a draft is tells what its
\* newest handover was, ...
HandoverFits ==
  /\ status = "draft" /\ tier = "apex" =>
       createdBy = "apex" /\ handover # "delegated"
  /\ status = "none" => handover = "none"
  /\ status = "draft" /\ createdBy = "apex" /\ handover = "none" =>
       editor \in ApexUsers
  /\ \A r \in Requests :
       /\ call[r].at \in {"set_tier", "take"} => handover = "reclaimed"
       /\ call[r].at \notin {"review", "release"}

\* ... no user of the cooperative has lost a draft the apex never delegated, and
\* a page redrawn since the last reclaim that sees the draft at the apex has read
\* of the reclaim, or has asked.
PageFits(u, p) ==
  /\ p.drawn <= reclaims
  /\ p.open => status # "none"
  /\ p.open => p.copy.status = "draft" /\ p.copy.createdBy = createdBy
  /\ ~p.open => ~p.lost
  /\ createdBy = "apex" /\ handover = "none" =>
       ~p.lost /\ (p.open => ~IsEditor(u, p.copy))
  /\ p.open /\ p.copy.tier = "apex" /\ p.drawn = reclaims
       /\ handover = "reclaimed" /\ ~p.asking => p.last = "reclaimed"

Explained ==
  ~filed => HandoverFits /\ \A u \in CoopUsers : PageFits(u, page[u])

LEMMA NotFiledIsDraft ==
  ASSUME SerialInv, ~filed
  PROVE  status \in {"none", "draft", "deleted"}
         /\ (Exists => status = "draft")
BY DEF SerialInv, IInv, DatesMatchStatus, Exists, Statuses, Editable

LEMMA FiledForGood == ASSUME [Next]_vars, filed PROVE filed'
<1>1. ASSUME NEW r \in Requests, NEW u \in Users,
             AcceptBy(r, u) \/ AcceptFromAbove(r)
      PROVE  filed'
  BY <1>1, AcceptShape DEF Accept, row
<1>2. ASSUME NEW r \in Requests, Continue(r) \/ Abort(r) PROVE filed'
  <2>1. CASE StoreStatus(r) \/ TransferToCooperative(r)
    BY Zenon, <2>1 DEF StoreStatus, TransferToCooperative, SetStatus
  <2>2. filed' = filed \/ StoreStatus(r) \/ TransferToCooperative(r)
    BY <1>2 DEF Continue, Abort, RowGone, row, CheckDraft, LoadStatus,
       AppendReview, ClearEditedBy, ClaimEditedBy, SetCurrentTier, TakeEditedBy,
       HandBack, DeleteRow, WriteData, VerifyEditor, AttachStatement,
       ExtractionSucceeds, ExtractionFails
  <2> QED BY <2>1, <2>2
<1>3. Official \in Users BY DEF Users
<1> QED BY <1>1, <1>2, <1>3 DEF Next, vars, CreateSubmission

\* A request of a page that is accepted changes the row nowhere; only a reclaim
\* is about to take the tier.
LEMMA AcceptedKeepsHandover ==
  ASSUME OneAtATime, SerialInv, HandoverFits, NEW r \in Requests,
         NEW u \in Drafters, NEW op \in PageOps, Accepted(r, u, op)
  PROVE  /\ HandoverFits'
         /\ UNCHANGED row
         /\ op = "reclaim" => handover' = "reclaimed" /\ reclaims' = reclaims + 1
         /\ op # "reclaim" => handover' = handover /\ reclaims' = reclaims
<1>1. TypeOK BY DEF SerialInv, IInv
<1>2. /\ op = "reclaim" => handover' = "reclaimed" /\ reclaims' = reclaims + 1
      /\ op # "reclaim" => handover' = handover /\ reclaims' = reclaims
  BY DEF Accepted, RecordsReclaim
<1>3. AcceptBy(r, u) /\ u \in Users
  BY HandlerAccepts, DraftersAreUsers DEF Accepted
<1>4. PICK o \in Endpoints, v \in Users, place \in EntryPlaces : Accept(r, o, v, place)
  BY <1>3, AcceptShape
<1>5. call'[r].at = place /\ UNCHANGED row /\ call[r] = Idle
  BY <1>1, <1>4, AcceptEffect
<1>6. status # "none"
  BY DEF Accepted, Handler, PageOps, SubmitSubmission, SubmitChecks,
     ApexSubmitSubmission, ApexSubmitChecks, ApexApprove, ApexReturn, DecisionChecks,
     DelegateSubmission, DelegateChecks, ReclaimSubmission, ReclaimChecks,
     ClaimCooperativeEdit, CoopClaimChecks, ClaimApexEdit, ApexClaimChecks,
     DeleteSubmission, DeleteChecks, UploadFinancialStatement, UploadChecks,
     ValidateExtraction, ValidateChecks, Unsettled, Exists, Statuses
<1>7. CASE op = "reclaim"
  <2>1. createdBy = "apex"
    BY <1>7 DEF Accepted, Handler, ReclaimSubmission, ReclaimChecks
  <2>2. call'[r].at \notin {"review", "release"} BY <1>5 DEF EntryPlaces
  <2> QED BY <1>2, <1>5, <1>6, <1>7, <2>1, <2>2 DEF HandoverFits, OneAtATime, row
<1>8. CASE op # "reclaim"
  <2>1. call'[r].at \notin {"set_tier", "take", "review", "release"}
    <3>1. PICK p \in EntryPlaces \ {"set_tier"}, e \in Endpoints : Accept(r, e, u, p)
      BY <1>8 DEF Accepted, Handler, PageOps, SubmitSubmission, SubmitChecks,
         ApexSubmitSubmission, ApexSubmitChecks, ApexApprove, ApexReturn,
         DecisionChecks, DelegateSubmission, DelegateChecks, ClaimCooperativeEdit,
         CoopClaimChecks, ClaimApexEdit, ApexClaimChecks, DeleteSubmission,
         DeleteChecks, UploadFinancialStatement, UploadChecks, ValidateExtraction,
         ValidateChecks, EntryPlaces, Endpoints
    <3>2. call'[r].at = p BY <1>1, <1>3, <3>1, AcceptEffect
    <3> QED BY <3>2 DEF EntryPlaces
  <2> QED BY <1>2, <1>5, <1>8, <2>1 DEF HandoverFits, OneAtATime, row
<1> QED BY <1>2, <1>5, <1>7, <1>8

\* The server's own steps on a draft never filed.
LEMMA ServerKeepsHandover ==
  ASSUME OneAtATime, SerialInv, ~filed, ~filed', HandoverFits,
         NEW r \in Requests, ServerStep(r)
  PROVE  /\ HandoverFits'
         /\ createdBy' = createdBy /\ reclaims' = reclaims /\ page' = page
         /\ status' # "none"
         /\ handover' \in {handover, "delegated"}
<1>1. TypeOK /\ CallFits(call[r]) /\ CallsOK BY DEF SerialInv, IInv
<1>2. Continue(r) /\ reclaims' = reclaims /\ page' = page
  BY DEF ServerStep
<1>3. call[r].at \notin {"review", "release"} BY DEF HandoverFits
<1>4. call[r].at # "transfer" => handover' = handover
  BY <1>3 DEF ServerStep
<1>5. call[r].at # "idle"
  BY <1>2 DEF Continue, At, RowGone, CheckDraft, LoadStatus, StoreStatus,
     AppendReview, ClearEditedBy, TransferToCooperative, ClaimEditedBy,
     SetCurrentTier, TakeEditedBy, HandBack, DeleteRow, WriteData, VerifyEditor,
     AttachStatement, ExtractionSucceeds, ExtractionFails
<1>6. Exists /\ status = "draft" BY <1>1, <1>5, NotFiledIsDraft DEF CallFits
<1>7. ~RowGone(r) /\ ~HandBack(r) /\ ~AppendReview(r) /\ ~ClearEditedBy(r)
  BY <1>1, <1>3, <1>6 DEF RowGone, HandBack, AppendReview, ClearEditedBy, At, CallFits
<1>8. \A q \in Places : Goto(r, q) =>
        /\ q = "idle" => call'[r] = Idle
        /\ q # "idle" => call'[r].at = q
  BY <1>1, GotoEffect
<1>9. {"idle", "load", "attach", "extract", "take"} \subseteq Places /\ Idle.at = "idle"
  BY DEF Places, Idle
<1>10. CASE TransferToCooperative(r)
  <2>1. /\ call[r].at = "transfer" /\ status' = "draft" /\ tier' = "cooperative"
        /\ Goto(r, "idle") /\ createdBy' = createdBy
    BY <1>10 DEF TransferToCooperative, At, SetStatus
  <2>2. call'[r] = Idle BY <1>8, <1>9, <2>1
  <2>3. handover' = "delegated" BY <1>6, <2>1, <2>2 DEF ServerStep
  <2>4. HandoverFits' BY <1>9, <2>1, <2>2, <2>3 DEF HandoverFits, OneAtATime
  <2> QED BY <1>2, <2>1, <2>3, <2>4
<1>11. CASE StoreStatus(r)
  <2>1. /\ call[r].at = "store" /\ status' = NextStatus(call[r].op)
        /\ tier' = NextTier(call[r].op) /\ Goto(r, AfterStore(call[r].op))
        /\ UNCHANGED <<createdBy, creator, editor>>
    BY <1>11 DEF StoreStatus, At, SetStatus
  <2>2. StoreFits(call[r]) /\ call[r].op # "delegate" BY <1>1, <2>1 DEF CallFits
  <2>3. status' \in Editable
    <3>1. call[r].prev \in Editable BY <1>1, <2>1 DEF CallsOK
    <3>2. ~RecordsFiling(call[r].prev, status')
      BY Zenon, <1>11, <2>1 DEF StoreStatus, SetStatus
    <3> QED BY <3>1, <3>2 DEF RecordsFiling
  <2>4. call[r].op \in {"upload", "validate"}
    BY <1>6, <2>1, <2>2, <2>3 DEF StoreFits, NextStatus, Editable
  <2>5. status' = "draft" /\ tier' = "cooperative" /\ Goto(r, "idle")
    BY <2>1, <2>4 DEF NextStatus, NextTier, AfterStore
  <2>6. call'[r] = Idle BY <1>8, <1>9, <2>5
  <2>7. handover' = handover BY <1>4, <2>1
  <2>8. HandoverFits'
    BY <1>6, <1>9, <2>1, <2>5, <2>6, <2>7 DEF HandoverFits, OneAtATime
  <2> QED BY <1>2, <2>1, <2>5, <2>7, <2>8
<1>12. CASE ClaimEditedBy(r)
  <2>1. /\ call[r].at = "claim" /\ Goto(r, "idle")
        /\ editor' = (IF editor = NoUser THEN call[r].user ELSE editor)
        /\ UNCHANGED <<status, tier, createdBy>>
    BY <1>12 DEF ClaimEditedBy, At
  <2>2. call'[r] = Idle /\ handover' = handover BY <1>4, <1>8, <1>9, <2>1
  <2>3. editor \in ApexUsers => editor' = editor
    BY <2>1, UsersAssumption DEF Users
  <2>4. HandoverFits'
    BY <1>6, <1>9, <2>1, <2>2, <2>3 DEF HandoverFits, OneAtATime
  <2> QED BY <1>2, <1>6, <2>1, <2>2, <2>4
<1>13. CASE SetCurrentTier(r)
  <2>1. /\ call[r].at = "set_tier" /\ Goto(r, "take")
        /\ UNCHANGED <<status, createdBy, editor>>
    BY <1>13 DEF SetCurrentTier, At
  <2>2. createdBy = "apex" /\ handover = "reclaimed"
    BY <1>1, <2>1 DEF CallFits, HandoverFits
  <2>3. call'[r].at = "take" /\ handover' = handover BY <1>4, <1>8, <1>9, <2>1
  <2>4. HandoverFits' BY <1>6, <2>1, <2>2, <2>3 DEF HandoverFits, OneAtATime
  <2> QED BY <1>2, <1>6, <2>1, <2>3, <2>4
<1>14. CASE TakeEditedBy(r)
  <2>1. /\ call[r].at = "take" /\ Goto(r, "idle")
        /\ UNCHANGED <<status, tier, createdBy>>
    BY <1>14 DEF TakeEditedBy, At
  <2>2. handover = "reclaimed" BY <2>1 DEF HandoverFits
  <2>3. call'[r] = Idle /\ handover' = handover BY <1>4, <1>8, <1>9, <2>1
  <2>4. HandoverFits' BY <1>6, <1>9, <2>1, <2>2, <2>3 DEF HandoverFits, OneAtATime
  <2> QED BY <1>2, <1>6, <2>1, <2>3, <2>4
<1>15. CASE DeleteRow(r)
  <2>1. call[r].at = "delete" /\ status' = "deleted" /\ Goto(r, "idle")
        /\ createdBy' = createdBy
    BY <1>15 DEF DeleteRow, At
  <2>2. call'[r] = Idle /\ handover' = handover BY <1>4, <1>8, <1>9, <2>1
  <2>3. HandoverFits' BY <1>9, <2>1, <2>2 DEF HandoverFits, OneAtATime
  <2> QED BY <1>2, <2>1, <2>2, <2>3
<1>16. CASE \/ CheckDraft(r) \/ LoadStatus(r) \/ WriteData(r) \/ VerifyEditor(r)
            \/ AttachStatement(r) \/ ExtractionSucceeds(r) \/ ExtractionFails(r)
  <2>1. UNCHANGED row /\ call[r].at # "transfer"
    BY <1>16 DEF CheckDraft, LoadStatus, WriteData, VerifyEditor, AttachStatement,
       ExtractionSucceeds, ExtractionFails, At
  <2>2. call'[r].at \notin {"set_tier", "take", "review", "release"}
    <3>1. CASE LoadStatus(r) BY <1>1, <3>1 DEF LoadStatus, TypeOK, Call
    <3>2. CASE ~LoadStatus(r)
      <4>1. \E q \in {"idle", "load", "attach", "extract"} : Goto(r, q)
        BY <1>16, <3>2 DEF CheckDraft, WriteData, VerifyEditor, AttachStatement,
           ExtractionSucceeds, ExtractionFails
      <4> QED BY <1>8, <1>9, <4>1
    <3> QED BY <3>1, <3>2
  <2>3. handover' = handover BY <1>4, <2>1
  <2>4. HandoverFits' BY <2>1, <2>2, <2>3 DEF HandoverFits, OneAtATime, row
  <2> QED BY <1>2, <1>6, <2>1, <2>3, <2>4 DEF row
<1> QED
  BY <1>2, <1>7, <1>10, <1>11, <1>12, <1>13, <1>14, <1>15, <1>16 DEF Continue

\* A page that the step leaves as it is, or only takes marks from.
LEMMA PageStays ==
  ASSUME NEW u \in CoopUsers, PageFits(u, page[u]),
         page'[u].open = page[u].open, page'[u].copy = page[u].copy,
         page'[u].last = page[u].last, page'[u].asking = page[u].asking,
         page'[u].lost = page[u].lost, page'[u].drawn = page[u].drawn,
         reclaims' = reclaims, createdBy' = createdBy,
         status' = status \/ status' # "none",
         handover' \in {handover, "delegated"}
  PROVE  PageFits(u, page[u])'
BY DEF PageFits, IsEditor, UnclaimedForMe

\* After a reclaim is asked for, every page has yet to be redrawn.
LEMMA PageOutdated ==
  ASSUME NEW u \in CoopUsers, PageFits(u, page[u]),
         page[u].drawn \in Nat, reclaims \in Nat,
         page'[u].open = page[u].open, page'[u].copy = page[u].copy,
         page'[u].lost = page[u].lost, page'[u].drawn = page[u].drawn,
         reclaims' = reclaims + 1, createdBy' = createdBy, status' = status,
         handover' = "reclaimed"
  PROVE  PageFits(u, page[u])'
BY DEF PageFits

LEMMA ClosedFits ==
  ASSUME NEW u \in CoopUsers, NEW p \in Page, page'[u] = Closed(p),
         reclaims' \in Nat
  PROVE  PageFits(u, page[u])'
<1>1. ~page'[u].open /\ ~page'[u].lost /\ page'[u].drawn = 0
  BY ClosedIsPage
<1> QED BY <1>1 DEF PageFits

\* A page redrawn because the holder moved has asked for the history.
LEMMA RedrawnFits ==
  ASSUME ScreenTypeOK, HandoverFits, status = "draft", NEW u \in CoopUsers,
         PageFits(u, page[u]), page[u].open,
         Holder(Current) # Holder(page[u].copy),
         UNCHANGED <<vars, handover, reclaims>>,
         NEW n, page'[u] = n, n.open, n.copy = Current, n.drawn = reclaims,
         n.asking = Redraw(u, page[u]).asking,
         createdBy = "apex" /\ handover = "none" => ~n.lost
  PROVE  PageFits(u, page[u])'
<1>1. TypeOK /\ Exists /\ reclaims \in 0 .. MaxReclaims /\ u \in Drafters
      /\ page[u] \in Page
  BY DEF ScreenTypeOK, Exists, Statuses, Drafters
<1>2. n.asking
  <2>1. Redraw(u, page[u]).asking =
          (page[u].asking \/ (u \in CoopUsers /\ Holder(Current) # Holder(page[u].copy)))
    BY <1>1, RedrawEffect
  <2> QED BY <2>1
<1>3. /\ Current.status = "draft" /\ Current.createdBy = createdBy
      /\ Current.editor = editor
  BY DEF Current
<1>4. createdBy = "apex" /\ handover = "none" => ~IsEditor(u, Current)
  BY <1>3, UsersAssumption DEF HandoverFits, IsEditor, UnclaimedForMe, Users
<1>5. reclaims <= reclaims BY <1>1
<1>6. /\ handover' = handover /\ reclaims' = reclaims /\ createdBy' = createdBy
      /\ status' = status
  BY DEF vars
<1>7. ~IsEditor(u, Current) => ~IsEditor(u, n.copy)' BY <1>6 DEF IsEditor, UnclaimedForMe
<1> QED BY <1>2, <1>3, <1>4, <1>5, <1>6, <1>7 DEF PageFits

LEMMA EditableMeansEditor ==
  ASSUME NEW u, NEW p, p.copy.status = "draft", ~IsEditor(u, p.copy)
  PROVE  Kind(u, p) \notin EditableKinds
BY DEF Kind, EditableKinds, IsEditor, UnclaimedForMe

LEMMA OffersSaveToEditor ==
  ASSUME NEW u, NEW c, "save" \in Offers(u, c) PROVE IsEditor(u, c)
BY DEF Offers, OffersToHolder, OffersToReviewer

LEMMA PageStepFits ==
  ASSUME ScreenTypeOK, SerialInv, ~filed, HandoverFits, NEW u \in CoopUsers,
         PageFits(u, page[u]), Unsettled, PageStep(u)
  PROVE  PageFits(u, page[u])'
<1> DEFINE p == page[u]
<1>1. /\ TypeOK /\ Exists /\ reclaims \in 0 .. MaxReclaims /\ u \in Drafters
      /\ p \in Page /\ handover \in Handovers /\ page \in [Drafters -> Page]
  BY DEF ScreenTypeOK, Unsettled, Drafters
<1>2. status = "draft" BY <1>1, NotFiledIsDraft
<1>3. UNCHANGED <<vars, handover, reclaims>> BY <1>1, PageStepIsLocal
<1>4. /\ handover' = handover /\ reclaims' = reclaims /\ createdBy' = createdBy
      /\ status' = status
  BY <1>3 DEF vars
<1>5. /\ p.open => p.copy.status = "draft" /\ p.copy.createdBy = createdBy
      /\ ~p.open => ~p.lost
      /\ createdBy = "apex" /\ handover = "none" =>
           ~p.lost /\ (p.open => ~IsEditor(u, p.copy))
  BY DEF PageFits
<1>6. /\ Current.status = "draft" /\ Current.createdBy = createdBy
      /\ Current.tier = tier /\ Current.editor = editor
  BY <1>2 DEF Current
<1>7. /\ Redraw(u, p) \in Page /\ Redraw(u, p).open = p.open
      /\ Redraw(u, p).copy = Current /\ Redraw(u, p).drawn = reclaims
      /\ ~p.lost /\ Kind(u, p) \notin EditableKinds => ~Redraw(u, p).lost
  BY <1>1, RedrawEffect
<1>8. CASE OpenPage(u)
  <2> DEFINE n == page'[u]
  <2>1. ~p.open /\ n = Opened(u, p) BY <1>1, <1>8 DEF OpenPage
  <2>2. /\ Opened(u, p).open /\ Opened(u, p).copy = Current
        /\ Opened(u, p).drawn = reclaims
        /\ Opened(u, p).lost = p.lost /\ Opened(u, p).last = handover
    BY <1>1, OpenedPage
  <2> HIDE DEF n
  <2>3. ~n.lost BY <1>5, <2>1, <2>2
  <2>4. createdBy = "apex" /\ handover = "none" => ~IsEditor(u, Current)
    BY <1>2, <1>6, UsersAssumption DEF HandoverFits, IsEditor, UnclaimedForMe, Users
  <2>5. reclaims <= reclaims BY <1>1
  <2>6. ~IsEditor(u, Current) => ~IsEditor(u, page[u].copy)'
    BY <2>1, <2>2 DEF n, IsEditor, UnclaimedForMe
  <2> QED BY <1>2, <1>4, <1>6, <2>1, <2>2, <2>3, <2>4,
         <2>5, <2>6 DEF PageFits, n
<1>9. CASE Refetch(u)
  <2>1. p.open /\ p.copy # Current /\ page'[u] = Redraw(u, p)
    BY <1>1, <1>9 DEF Refetch
  <2>2. Holder(Current) # Holder(p.copy)
    <3>1. p.copy \in Copy /\ Current \in Copy BY <1>1, PageFields, CurrentIsCopy
    <3>2. p.copy.status = Current.status /\ p.copy.createdBy = Current.createdBy
      BY <1>5, <1>6, <2>1
    <3> QED BY <2>1, <3>1, <3>2 DEF Holder, Copy
  <2>3. createdBy = "apex" /\ handover = "none" => ~Redraw(u, p).lost
    BY <1>5, <1>7, <2>1, EditableMeansEditor
  <2>4. Redraw(u, p).open BY <1>7, <2>1
  <2> QED BY <1>2, <1>3, <1>7, <2>1, <2>2, <2>3, <2>4, RedrawnFits
<1>10. CASE ReviewsArrive(u)
  <2>1. page'[u] = [p EXCEPT !.last = handover, !.asking = FALSE]
    BY <1>1, <1>10 DEF ReviewsArrive
  <2>2. /\ page'[u].open = p.open /\ page'[u].copy = p.copy
        /\ page'[u].lost = p.lost /\ page'[u].drawn = p.drawn
        /\ page'[u].last = handover
    BY <1>1, <2>1 DEF Page
  <2> QED BY <1>4, <2>2 DEF PageFits, IsEditor, UnclaimedForMe
<1>11. CASE ClosePage(u)
  BY <1>1, <1>4, <1>11, ClosedFits DEF ClosePage
<1>12. CASE DismissLost(u)
  <2>1. page'[u] = [p EXCEPT !.lost = FALSE] BY <1>1, <1>12 DEF DismissLost
  <2>2. /\ page'[u].open = p.open /\ page'[u].copy = p.copy
        /\ page'[u].last = p.last /\ page'[u].drawn = p.drawn
        /\ page'[u].asking = p.asking
    BY <1>1, <2>1 DEF Page
  <2>3. ~page'[u].lost BY <1>1, <2>1 DEF Page
  <2> QED BY <1>4, <2>2, <2>3 DEF PageFits, IsEditor, UnclaimedForMe
<1>13. CASE SaveRefused(u)
  <2>1. /\ p.open /\ "save" \in Offers(u, p.copy) /\ ~HoldsDraft(u)
        /\ page'[u] = [Redraw(u, p) EXCEPT !.lost = TRUE]
    BY <1>1, <1>13 DEF SaveRefused
  <2>2. IsEditor(u, p.copy) BY <2>1, OffersSaveToEditor
  <2>3. Holder(Current) # Holder(p.copy)
    BY <1>6, <2>1, <2>2, UsersAssumption
       DEF Holder, IsEditor, UnclaimedForMe, HoldsDraft, Users
  <2>4. /\ page'[u].open = Redraw(u, p).open /\ page'[u].copy = Redraw(u, p).copy
        /\ page'[u].drawn = Redraw(u, p).drawn
        /\ page'[u].asking = Redraw(u, p).asking
    BY <1>7, <2>1 DEF Page
  <2>5. ~(createdBy = "apex" /\ handover = "none") BY <1>5, <2>1, <2>2
  <2>6. page'[u].open BY <1>7, <2>1, <2>4
  <2> QED BY <1>2, <1>3, <1>7, <2>1, <2>3, <2>4, <2>5, <2>6, RedrawnFits
<1> QED BY <1>8, <1>9, <1>10, <1>11, <1>12, <1>13 DEF PageStep

\* The step of one user's page is nothing to another's.
LEMMA OtherPages ==
  ASSUME ScreenTypeOK, NEW u \in Drafters, NEW n, page' = [page EXCEPT ![u] = n],
         NEW v \in Drafters, v # u
  PROVE  page'[v] = page[v]
BY DEF ScreenTypeOK

\* A request a page sends may close it, or spend its claim.
LEMMA RequestKeepsPages ==
  ASSUME ScreenTypeOK, NEW r \in Requests, NEW u \in Drafters,
         \/ \E op \in PageOps : Press(r, u, op) \/ StartExtraction(r, u, op)
         \/ ClaimArrives(r, u) \/ ClaimRefused(r, u),
         NEW v \in CoopUsers
  PROVE  \/ page'[v] = Closed(page[v])
         \/ /\ page'[v].open = page[v].open /\ page'[v].copy = page[v].copy
            /\ page'[v].last = page[v].last /\ page'[v].asking = page[v].asking
            /\ page'[v].lost = page[v].lost /\ page'[v].drawn = page[v].drawn
<1>1. page \in [Drafters -> Page] /\ v \in Drafters BY DEF ScreenTypeOK, Drafters
<1>2. \/ page' = page
      \/ page' = [page EXCEPT ![u] = Closed(page[u])]
      \/ page' = [page EXCEPT ![u].claiming = FALSE]
  <2>1. CASE \E op \in PageOps : Press(r, u, op) \/ StartExtraction(r, u, op)
    BY <2>1 DEF Press, StartExtraction
  <2>2. CASE ClaimArrives(r, u) BY <2>2 DEF ClaimArrives
  <2>3. CASE ClaimRefused(r, u) BY <2>3, ClaimRefusedEffect
  <2> QED BY <2>1, <2>2, <2>3
<1>3. CASE page' = [page EXCEPT ![u].claiming = FALSE]
  <2>1. page'[v] = page[v] \/ page'[v] = [page[v] EXCEPT !.claiming = FALSE]
    BY <1>1, <1>3
  <2> QED BY <1>1, <2>1 DEF Page
<1>4. CASE page' = [page EXCEPT ![u] = Closed(page[u])]
  BY <1>1, <1>4
<1> QED BY <1>2, <1>3, <1>4

LEMMA StepKeepsExplained ==
  ASSUME OneAtATime, SerialInv, ScreenTypeOK, Explained, [ScreenNext]_screenVars
  PROVE  Explained'
<1> SUFFICES ASSUME ~filed'
    PROVE HandoverFits' /\ \A v \in CoopUsers : PageFits(v, page[v])'
  BY DEF Explained
<1>1. ~filed BY StepIsOfWorkflow, FiledForGood
<1>2. HandoverFits /\ \A v \in CoopUsers : PageFits(v, page[v])
  BY <1>1 DEF Explained
<1>3. /\ page \in [Drafters -> Page] /\ reclaims \in Nat
      /\ \A v \in CoopUsers : v \in Drafters /\ page[v].drawn \in Nat
  <2>1. \A v \in CoopUsers : v \in Drafters /\ page[v] \in Page
    BY DEF ScreenTypeOK, Drafters
  <2> QED BY <2>1, PageFields, ScreenAssumption DEF ScreenTypeOK
<1>4. ASSUME NEW u \in Drafters, Create(u)
      PROVE  HandoverFits' /\ \A v \in CoopUsers : PageFits(v, page[v])'
  <2>1. /\ status = "none" /\ status' = "draft" /\ tier' = CallerTier(u)
        /\ createdBy' = CallerTier(u) /\ editor' = u /\ call' = call
        /\ UNCHANGED <<handover, reclaims, page>>
    BY <1>4 DEF Create, CreateSubmission
  <2>2. \A r \in Requests : call[r].at = "idle"
    BY <2>1 DEF SerialInv, CallFits, Exists, Statuses
  <2>3. CallerTier(u) = "apex" => u \in ApexUsers BY DEF CallerTier
  <2>4. HandoverFits' BY <1>2, <2>1, <2>2, <2>3 DEF HandoverFits
  <2>5. \A v \in CoopUsers : PageFits(v, page[v])'
    BY <1>2, <2>1 DEF PageFits
  <2> QED BY <2>4, <2>5
<1>5. ASSUME NEW u \in Drafters, Unsettled, PageStep(u)
      PROVE  HandoverFits' /\ \A v \in CoopUsers : PageFits(v, page[v])'
  <2>1. UNCHANGED <<vars, handover, reclaims>> BY <1>5, PageStepIsLocal
  <2>2. HandoverFits' BY <1>2, <2>1 DEF HandoverFits, vars
  <2>3. ASSUME NEW v \in CoopUsers PROVE PageFits(v, page[v])'
    <3>1. CASE v = u BY <1>1, <1>2, <1>5, <3>1, PageStepFits
    <3>2. CASE v # u
      <4>1. page'[v] = page[v] BY <1>3, <1>5, <3>2, PageStepReplaces, OtherPages
      <4>2. reclaims' = reclaims /\ createdBy' = createdBy /\ status' = status
            /\ handover' = handover
        BY <2>1 DEF vars
      <4> QED BY <1>2, <4>1, <4>2, PageStays
    <3> QED BY <3>1, <3>2
  <2> QED BY <2>2, <2>3
<1>6. ASSUME NEW r \in Requests, NEW u \in Drafters,
             \/ \E op \in PageOps : Press(r, u, op) \/ StartExtraction(r, u, op)
             \/ ClaimArrives(r, u) \/ ClaimRefused(r, u)
      PROVE  HandoverFits' /\ \A v \in CoopUsers : PageFits(v, page[v])'
  <2>1. /\ HandoverFits' /\ UNCHANGED row
        /\ \/ handover' = "reclaimed" /\ reclaims' = reclaims + 1
           \/ handover' = handover /\ reclaims' = reclaims
    <3>1. CASE ClaimRefused(r, u)
      BY <1>2, <3>1, ClaimRefusedEffect DEF HandoverFits, vars, row
    <3>2. CASE ~ClaimRefused(r, u)
      <4>1. \E op \in PageOps : Accepted(r, u, op)
        BY <1>6, <3>2, PressShape, ClaimShape
      <4> QED BY <1>2, <4>1, AcceptedKeepsHandover
    <3> QED BY <3>1, <3>2
  <2>2. createdBy' = createdBy /\ status' = status BY <2>1 DEF row
  <2>3. ASSUME NEW v \in CoopUsers PROVE PageFits(v, page[v])'
    <3>1. CASE page'[v] = Closed(page[v])
      BY <1>3, <2>1, <3>1, ClosedFits
    <3>2. CASE page'[v] # Closed(page[v])
      <4>1. /\ page'[v].open = page[v].open /\ page'[v].copy = page[v].copy
            /\ page'[v].last = page[v].last /\ page'[v].asking = page[v].asking
            /\ page'[v].lost = page[v].lost /\ page'[v].drawn = page[v].drawn
        BY <1>6, <3>2, RequestKeepsPages
      <4> QED BY <1>2, <1>3, <2>1, <2>2, <4>1, PageStays, PageOutdated
    <3> QED BY <3>1, <3>2
  <2> QED BY <2>1, <2>3
<1>7. ASSUME NEW r \in Requests, ServerStep(r)
      PROVE  HandoverFits' /\ \A v \in CoopUsers : PageFits(v, page[v])'
  <2>1. /\ HandoverFits'
        /\ createdBy' = createdBy /\ reclaims' = reclaims /\ page' = page
        /\ status' # "none" /\ handover' \in {handover, "delegated"}
    BY <1>1, <1>2, <1>7, ServerKeepsHandover
  <2> QED BY <1>2, <2>1, PageStays
<1>8. CASE UNCHANGED screenVars
  BY <1>2, <1>8, PageStays DEF screenVars, vars, HandoverFits
<1> QED BY <1>4, <1>5, <1>6, <1>7, <1>8, ScreenStepShape

LEMMA InitExplained == ScreenInit => Explained
<1> SUFFICES ASSUME ScreenInit, ~filed
    PROVE HandoverFits /\ \A u \in CoopUsers : PageFits(u, page[u])
  BY DEF Explained
<1>1. /\ status = "none" /\ handover = "none" /\ reclaims = 0
      /\ \A r \in Requests : call[r] = Idle
      /\ \A u \in CoopUsers : page[u] = NoPage
  <2>1. status = "none" BY DEF ScreenInit, Init
  <2>2. handover = "none" /\ reclaims = 0 BY DEF ScreenInit
  <2>3. \A r \in Requests : call[r] = Idle BY DEF ScreenInit, Init
  <2>4. page = [u \in Drafters |-> NoPage] BY DEF ScreenInit
  <2>5. \A u \in CoopUsers : page[u] = NoPage BY <2>4 DEF Drafters
  <2> QED BY <2>1, <2>2, <2>3, <2>5
<1>2. HandoverFits BY <1>1 DEF HandoverFits, Idle
<1>3. NoPage.drawn = 0 /\ ~NoPage.open /\ ~NoPage.lost BY DEF NoPage
<1>4. ASSUME NEW u \in CoopUsers PROVE PageFits(u, page[u])
  <2>1. page[u].drawn <= reclaims /\ ~page[u].open /\ ~page[u].lost
    BY <1>1, <1>3
  <2> QED BY <2>1 DEF PageFits
<1> QED BY <1>2, <1>4

LEMMA WithApexShown ==
  ASSUME NEW u, NEW p, Kind(u, p) = "withApex"
  PROVE  p.copy.status = "draft" /\ p.copy.tier = "apex" /\ p.last # "reclaimed"
<1>1. p.copy.status = "draft" BY DEF Kind
<1>2. p.copy.editor # u BY <1>1 DEF Kind
<1>3. p.copy.tier # CallerTier(u) BY <1>1, <1>2 DEF Kind
<1>4. CallerTier(u) = "cooperative" /\ p.copy.tier = "apex"
  BY <1>1, <1>2, <1>3 DEF Kind
<1>5. p.last # "reclaimed" BY <1>1, <1>2, <1>3, <1>4 DEF Kind
<1> QED BY <1>1, <1>4, <1>5

LEMMA ExplainedExplains ==
  ASSUME ScreenTypeOK, Explained PROVE ReclaimExplained
<1> SUFFICES ASSUME ~filed, NEW u \in CoopUsers, page[u].lost, ~page[u].asking,
                    page[u].copy = Current, page[u].drawn = reclaims,
                    Kind(u, page[u]) = "withApex"
    PROVE FALSE
  BY DEF ReclaimExplained
<1>1. HandoverFits /\ PageFits(u, page[u]) BY DEF Explained
<1>2. /\ page[u].copy.status = "draft" /\ page[u].copy.tier = "apex"
      /\ page[u].last # "reclaimed"
  BY WithApexShown
<1>3. status = "draft" /\ tier = "apex" BY <1>2 DEF Current
<1>4. createdBy = "apex" /\ handover # "delegated" BY <1>1, <1>3 DEF HandoverFits
<1>5. handover # "none" /\ page[u].open BY <1>1, <1>4 DEF PageFits
<1>6. handover # "reclaimed" BY <1>1, <1>2, <1>5 DEF PageFits
<1> QED BY <1>4, <1>5, <1>6 DEF ScreenTypeOK, Handovers

\* With one request at a time, however often a draft goes back and forth, however
\* many pages are open, and in whatever order their queries answer: a user whose
\* page was redrawn since the last reclaim is told that the draft was reclaimed.
THEOREM ReclaimsExplained ==
  ASSUME OneAtATime PROVE ScreenSpec => []ReclaimExplained
<1>1. SerialInv /\ ScreenTypeOK /\ Explained /\ [ScreenNext]_screenVars => Explained'
  BY StepKeepsExplained
<1>2. ScreenTypeOK /\ Explained => ReclaimExplained BY ExplainedExplains
<1> QED
  BY <1>1, <1>2, InitExplained, SerialInvariance, PagesRefineWorkflow,
     ScreenTypeCorrect, PTL DEF ScreenSpec

=============================================================================
