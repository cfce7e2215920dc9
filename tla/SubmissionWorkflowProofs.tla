---------------------- MODULE SubmissionWorkflowProofs ----------------------
(* Theorems about SubmissionWorkflow for any users and any number of        *)
(* requests.  Safety of the row first, then the refinement of the lifecycle *)
(* by a server that works on one request at a time.                         *)
EXTENDS SubmissionWorkflow, TLAPS

\* What a request in progress remembers, in terms of the row.
CallsOK ==
  \A r \in Requests :
    /\ call[r].op \in UsesTransition => call[r].seen \in Tiers
    /\ call[r].at \in {"store", "transfer"} =>
         /\ call[r].prev \in Statuses
         /\ call[r].prev \notin Editable => filed

IInv == TypeOK /\ CallsOK /\ TierMatchesStatus /\ DatesMatchStatus

-----------------------------------------------------------------------------
(* Lemmas about the helpers.                                               *)

\* Where an accepted request may start.
EntryPlaces == {"check", "load", "set_tier", "claim", "delete", "write",
                "verify", "extract"}

LEMMA CallFields ==
  ASSUME NEW c \in Call
  PROVE  /\ c.op \in Endpoints \union {"none"}
         /\ c.user \in Users \union {NoUser}
         /\ c.at \in Places
         /\ c.prev \in Statuses \union {"none"}
         /\ c.seen \in Tiers \union {"none"}
BY DEF Call

LEMMA IdleIsCall == Idle \in Call
BY DEF Idle, Call, Places

\* Moving a request on keeps its record well formed, and touches no other.
LEMMA GotoEffect ==
  ASSUME TypeOK, NEW r \in Requests, NEW place \in Places, Goto(r, place)
  PROVE  /\ call' \in [Requests -> Call]
         /\ \A q \in Requests \ {r} : call'[q] = call[q]
         /\ place = "idle" => call'[r] = Idle
         /\ place # "idle" =>
              /\ call'[r].at = place
              /\ call'[r].op = call[r].op
              /\ call'[r].user = call[r].user
              /\ call'[r].seen = call[r].seen
<1>1. call \in [Requests -> Call] /\ call[r] \in Call BY DEF TypeOK
<1>2. CASE place = "idle" BY <1>1, <1>2, IdleIsCall DEF Goto
<1>3. CASE place # "idle"
  <2>1. call' = [call EXCEPT ![r] = [call[r] EXCEPT !.at = place, !.prev = "none"]]
    BY <1>3 DEF Goto
  <2>2. [call[r] EXCEPT !.at = place, !.prev = "none"] \in Call
    BY <1>1 DEF Call
  <2> QED BY <1>1, <1>3, <2>1, <2>2 DEF Call
<1> QED BY <1>2, <1>3

\* Every request is accepted the same way, at one of the entry places.
LEMMA AcceptShape ==
  ASSUME NEW r \in Requests, NEW u \in Users,
         AcceptBy(r, u) \/ AcceptFromAbove(r)
  PROVE  \E op \in Endpoints, v \in Users, place \in EntryPlaces :
           Accept(r, op, v, place)
<1>1. Official \in Users BY DEF Users
<1> DEFINE Shape(op, v, place) == Accept(r, op, v, place)
<1>2. CASE AcceptBy(r, u)
  BY <1>2 DEF AcceptBy, SubmitSubmission, SubmitChecks, ApexSubmitSubmission,
     ApexSubmitChecks, ApexApprove, ApexReturn, DecisionChecks, DelegateSubmission,
     DelegateChecks, ReclaimSubmission, ReclaimChecks, ClaimCooperativeEdit,
     CoopClaimChecks, ClaimApexEdit, ApexClaimChecks, DeleteSubmission, DeleteChecks,
     SaveDraft, SaveChecks, EditRecords, UploadFinancialStatement, UploadChecks,
     ValidateExtraction, ValidateChecks, EntryPlaces, Endpoints
<1>3. CASE AcceptFromAbove(r)
  BY <1>1, <1>3 DEF AcceptFromAbove, FederationApprove, FederationReturn,
     MinistryApprove, MinistryReject, EntryPlaces, Endpoints
<1> QED BY <1>2, <1>3

LEMMA AcceptEffect ==
  ASSUME TypeOK, NEW r \in Requests, NEW op \in Endpoints, NEW u \in Users,
         NEW place \in EntryPlaces, Accept(r, op, u, place)
  PROVE  /\ call' \in [Requests -> Call]
         /\ \A q \in Requests \ {r} : call'[q] = call[q]
         /\ call[r] = Idle
         /\ call'[r].at = place
         /\ call'[r].op = op
         /\ call'[r].user = u
         /\ call'[r].op \in UsesTransition => call'[r].seen \in Tiers
         /\ UNCHANGED <<row, reviews>>
<1> DEFINE new == [op |-> op, user |-> u, at |-> place, prev |-> "none",
                   seen |-> IF op \in UsesTransition THEN tier ELSE "none"]
<1>1. call \in [Requests -> Call] /\ tier \in Tiers BY DEF TypeOK
<1>2. call' = [call EXCEPT ![r] = new] BY DEF Accept
<1>3. new \in Call BY <1>1 DEF Call, EntryPlaces, Places
<1>4. call[r] = Idle /\ UNCHANGED <<row, reviews>> BY DEF Accept
<1> QED BY <1>1, <1>2, <1>3, <1>4

LEMMA NextStatusType ==
  ASSUME NEW op PROVE NextStatus(op) \in Statuses
BY DEF NextStatus, Statuses

LEMMA NextTierType ==
  ASSUME NEW op, createdBy \in Roles PROVE NextTier(op) \in Tiers
BY DEF NextTier, Roles, Tiers

LEMMA AfterStorePlace ==
  ASSUME NEW op PROVE AfterStore(op) \in {"release", "hand_back", "idle", "review"}
BY DEF AfterStore

LEMMA DecisionType ==
  ASSUME NEW c, c.op \in UsesTransition => c.seen \in Tiers
  PROVE  Decision(c) \in Review
BY DEF Decision, Review, Tiers

\* The status and the tier an update stores always go together.
LEMMA StoredTierMatches ==
  ASSUME NEW op, createdBy \in Roles
  PROVE  /\ NextTier(op) = "cooperative" => NextStatus(op) = "draft"
         /\ NextStatus(op) = "submitted" => NextTier(op) = "apex"
         /\ NextStatus(op) = "rejected" => NextTier(op) \in {"ministry", "apex"}
BY DEF NextTier, NextStatus, Roles

\* A request that moves on, other than to a write of the status, keeps what
\* the requests know, as long as a filing date is never erased.
LEMMA GotoKeepsCalls ==
  ASSUME TypeOK, CallsOK, NEW r \in Requests,
         NEW place \in Places \ {"store", "transfer"}, Goto(r, place),
         filed => filed'
  PROVE  CallsOK'
<1>1. /\ \A q \in Requests \ {r} : call'[q] = call[q]
      /\ place = "idle" => call'[r] = Idle
      /\ place # "idle" =>
           /\ call'[r].at = place
           /\ call'[r].op = call[r].op
           /\ call'[r].seen = call[r].seen
  BY GotoEffect
<1>2. Idle.op \notin UsesTransition /\ Idle.at = "idle" BY DEF Idle, UsesTransition
<1> SUFFICES ASSUME NEW q \in Requests
    PROVE /\ call'[q].op \in UsesTransition => call'[q].seen \in Tiers
          /\ call'[q].at \in {"store", "transfer"} =>
               /\ call'[q].prev \in Statuses
               /\ call'[q].prev \notin Editable => filed'
  BY DEF CallsOK
<1>3. CASE q = r BY <1>1, <1>2, <1>3 DEF CallsOK, Places
<1>4. CASE q # r BY <1>1, <1>4 DEF CallsOK
<1> QED BY <1>3, <1>4

-----------------------------------------------------------------------------
(* The row's columns agree in every reachable state.                       *)

LEMMA InitIInv == Init => IInv
<1> SUFFICES ASSUME Init PROVE IInv OBVIOUS
<1>1. TypeOK
  BY IdleIsCall DEF Init, TypeOK, Statuses, Tiers, Roles, Users
<1>2. CallsOK BY DEF Init, CallsOK, Idle, UsesTransition
<1>3. TierMatchesStatus BY DEF Init, TierMatchesStatus, Exists, Statuses
<1>4. DatesMatchStatus BY DEF Init, DatesMatchStatus, Exists, Statuses
<1> QED BY <1>1, <1>2, <1>3, <1>4 DEF IInv

LEMMA AcceptKeepsIInv ==
  ASSUME IInv, NEW r \in Requests, NEW op \in Endpoints, NEW u \in Users,
         NEW place \in EntryPlaces, Accept(r, op, u, place)
  PROVE  IInv'
<1>1. TypeOK /\ CallsOK BY DEF IInv
<1>2. /\ call' \in [Requests -> Call]
      /\ \A q \in Requests \ {r} : call'[q] = call[q]
      /\ call'[r].at = place
      /\ call'[r].op \in UsesTransition => call'[r].seen \in Tiers
      /\ UNCHANGED <<row, reviews>>
  BY <1>1, AcceptEffect
<1>3. TypeOK' BY <1>1, <1>2 DEF TypeOK, row
<1>4. CallsOK'
  <2> SUFFICES ASSUME NEW q \in Requests
      PROVE /\ call'[q].op \in UsesTransition => call'[q].seen \in Tiers
            /\ call'[q].at \in {"store", "transfer"} =>
                 /\ call'[q].prev \in Statuses
                 /\ call'[q].prev \notin Editable => filed'
    BY DEF CallsOK
  <2>1. CASE q = r BY <1>2, <2>1 DEF EntryPlaces
  <2>2. CASE q # r BY <1>1, <1>2, <2>2 DEF CallsOK, row
  <2> QED BY <2>1, <2>2
<1>5. TierMatchesStatus' /\ DatesMatchStatus'
  BY <1>2 DEF IInv, TierMatchesStatus, DatesMatchStatus, Exists, row
<1> QED BY <1>3, <1>4, <1>5 DEF IInv

\* The update of the status, from what the request remembers.
LEMMA SetStatusEffect ==
  ASSUME IInv, NEW r \in Requests, call[r].at \in {"store", "transfer"},
         NEW next \in Statuses, NEW place \in Tiers,
         SetStatus(call[r].prev, next, place)
  PROVE  /\ status' = next
         /\ tier' = place
         /\ filed' \in BOOLEAN /\ (filed => filed')
         /\ reviewed' \in BOOLEAN
         /\ next \notin Editable => filed'
         /\ next = "approved" => reviewed'
<1>1. filed \in BOOLEAN /\ reviewed \in BOOLEAN BY DEF IInv, TypeOK
<1>2. call[r].prev \notin Editable => filed BY DEF IInv, CallsOK
<1> QED BY <1>1, <1>2 DEF SetStatus, RecordsFiling, RecordsReview

\* A step that changes at most the editor and the reviews.
LEMMA EditorStepKeepsIInv ==
  ASSUME IInv, NEW r \in Requests,
         NEW place \in Places \ {"store", "transfer"}, Goto(r, place),
         UNCHANGED <<status, tier, createdBy, creator, filed, reviewed>>,
         editor' \in Users \union {NoUser}, reviews' \subseteq Review
  PROVE  IInv'
<1>1. TypeOK /\ CallsOK BY DEF IInv
<1>2. call' \in [Requests -> Call] BY <1>1, GotoEffect
<1>3. TypeOK' BY <1>1, <1>2 DEF TypeOK
<1>4. CallsOK' BY <1>1, GotoKeepsCalls
<1>5. TierMatchesStatus' /\ DatesMatchStatus'
  BY DEF IInv, TierMatchesStatus, DatesMatchStatus, Exists
<1> QED BY <1>3, <1>4, <1>5 DEF IInv

LEMMA LoadStatusKeepsIInv ==
  ASSUME IInv, NEW r \in Requests, LoadStatus(r)
  PROVE  IInv'
<1> DEFINE next == [call[r] EXCEPT !.prev = status, !.at =
                      IF call[r].op = "delegate" THEN "transfer" ELSE "store"]
<1>1. TypeOK /\ CallsOK /\ DatesMatchStatus BY DEF IInv
<1>2. /\ call \in [Requests -> Call] /\ call[r] \in Call
      /\ status \in Statuses
      /\ UNCHANGED <<row, reviews>>
  BY <1>1 DEF TypeOK, LoadStatus, At, Exists
<1>3. call' = [call EXCEPT ![r] = next] BY <1>2 DEF LoadStatus, Call
<1>4. next \in Call BY <1>2 DEF Call, Places
<1>5. TypeOK' BY <1>1, <1>2, <1>3, <1>4 DEF TypeOK, row
<1>6. next.op = call[r].op /\ next.seen = call[r].seen /\ next.prev = status
  BY <1>2 DEF Call
<1>7. CallsOK'
  <2> SUFFICES ASSUME NEW q \in Requests
      PROVE /\ call'[q].op \in UsesTransition => call'[q].seen \in Tiers
            /\ call'[q].at \in {"store", "transfer"} =>
                 /\ call'[q].prev \in Statuses
                 /\ call'[q].prev \notin Editable => filed'
    BY DEF CallsOK
  <2>1. CASE q = r
    <3>1. call'[q] = next BY <1>2, <1>3, <2>1
    <3>2. status \notin Editable => filed BY <1>1, <1>2 DEF DatesMatchStatus, Exists
    <3> QED BY <1>1, <1>2, <1>6, <2>1, <3>1, <3>2 DEF CallsOK, row
  <2>2. CASE q # r
    <3>1. call'[q] = call[q] BY <1>2, <1>3, <2>2
    <3> QED BY <1>1, <1>2, <3>1 DEF CallsOK, row
  <2> QED BY <2>1, <2>2
<1>8. TierMatchesStatus' /\ DatesMatchStatus'
  BY <1>2 DEF IInv, TierMatchesStatus, DatesMatchStatus, Exists, row
<1> QED BY <1>5, <1>7, <1>8 DEF IInv

LEMMA StoreStatusKeepsIInv ==
  ASSUME IInv, NEW r \in Requests, StoreStatus(r)
  PROVE  IInv'
<1> DEFINE next == NextStatus(call[r].op)
           place == NextTier(call[r].op)
<1>1. TypeOK /\ CallsOK BY DEF IInv
<1>2. /\ SetStatus(call[r].prev, next, place)
      /\ Goto(r, AfterStore(call[r].op))
      /\ call[r].at = "store"
      /\ UNCHANGED <<createdBy, creator, editor, reviews>>
  BY DEF StoreStatus, At
<1>3. next \in Statuses BY NextStatusType
<1>4. createdBy \in Roles BY <1>1 DEF TypeOK
<1>5. place \in Tiers BY <1>4, NextTierType
<1>6. AfterStore(call[r].op) \in Places \ {"store", "transfer"}
  BY AfterStorePlace DEF Places
<1> HIDE DEF next, place
<1>7. /\ status' = next /\ tier' = place
      /\ filed' \in BOOLEAN /\ (filed => filed')
      /\ reviewed' \in BOOLEAN
      /\ next \notin Editable => filed'
      /\ next = "approved" => reviewed'
  BY <1>2, <1>3, <1>5, SetStatusEffect
<1>8. TypeOK'
  <2>1. call' \in [Requests -> Call] BY <1>1, <1>2, <1>6, GotoEffect
  <2> QED BY <1>1, <1>2, <1>3, <1>5, <1>7, <2>1 DEF TypeOK
<1>9. CallsOK' BY <1>1, <1>2, <1>6, <1>7, GotoKeepsCalls
<1>10. TierMatchesStatus'
  <2>1. /\ place = "cooperative" => next = "draft"
        /\ next = "submitted" => place = "apex"
        /\ next = "rejected" => place \in {"ministry", "apex"}
    BY <1>4, StoredTierMatches DEF next, place
  <2> QED BY <1>7, <2>1 DEF TierMatchesStatus
<1>11. DatesMatchStatus' BY <1>7 DEF DatesMatchStatus
<1> QED BY <1>8, <1>9, <1>10, <1>11 DEF IInv

LEMMA AppendReviewKeepsIInv ==
  ASSUME IInv, NEW r \in Requests, AppendReview(r)
  PROVE  IInv'
<1>1. TypeOK /\ CallsOK BY DEF IInv
<1>2. Decision(call[r]) \in Review BY <1>1, DecisionType DEF CallsOK
<1>3. reviews' \subseteq Review BY <1>1, <1>2 DEF AppendReview, TypeOK
<1>4. AfterReview(call[r].op) \in Places \ {"store", "transfer"}
  BY DEF AfterReview, Places
<1> QED
  BY <1>1, <1>3, <1>4, EditorStepKeepsIInv DEF AppendReview, row, TypeOK

LEMMA TransferKeepsIInv ==
  ASSUME IInv, NEW r \in Requests, TransferToCooperative(r)
  PROVE  IInv'
<1>1. TypeOK /\ CallsOK BY DEF IInv
<1>2. /\ call[r].at = "transfer"
      /\ SetStatus(call[r].prev, "draft", "cooperative")
      /\ reviews' = reviews \union {[tier |-> "apex", action |-> "return"]}
      /\ editor' = NoUser
      /\ Goto(r, "idle")
      /\ UNCHANGED <<createdBy, creator>>
  BY DEF TransferToCooperative, At
<1>3. /\ status' = "draft" /\ tier' = "cooperative"
      /\ filed' \in BOOLEAN /\ (filed => filed') /\ reviewed' \in BOOLEAN
  BY <1>2, SetStatusEffect DEF Statuses, Tiers
<1>4. "idle" \in Places \ {"store", "transfer"} BY DEF Places
<1>5. TypeOK'
  <2>1. call' \in [Requests -> Call] BY <1>1, <1>2, <1>4, GotoEffect
  <2>2. reviews' \subseteq Review BY <1>1, <1>2 DEF TypeOK, Review, Tiers
  <2> QED BY <1>1, <1>2, <1>3, <2>1, <2>2 DEF TypeOK, Statuses, Tiers
<1>6. CallsOK' BY <1>1, <1>2, <1>3, <1>4, GotoKeepsCalls
<1>7. TierMatchesStatus' /\ DatesMatchStatus'
  BY <1>3 DEF TierMatchesStatus, DatesMatchStatus, Editable
<1> QED BY <1>5, <1>6, <1>7 DEF IInv

\* Reclaim takes the tier away from the cooperative and leaves the status: no
\* status is wrong at the apex.
LEMMA SetCurrentTierKeepsIInv ==
  ASSUME IInv, NEW r \in Requests, SetCurrentTier(r)
  PROVE  IInv'
<1>1. TypeOK /\ CallsOK BY DEF IInv
<1>2. /\ tier' = "apex" /\ Goto(r, "take")
      /\ UNCHANGED <<status, createdBy, creator, editor, filed, reviewed, reviews>>
  BY DEF SetCurrentTier
<1>3. "take" \in Places \ {"store", "transfer"} BY DEF Places
<1>4. TypeOK' BY <1>1, <1>2, <1>3, GotoEffect DEF TypeOK, Tiers
<1>5. CallsOK' BY <1>1, <1>2, <1>3, GotoKeepsCalls
<1>6. TierMatchesStatus' /\ DatesMatchStatus'
  BY <1>2 DEF IInv, TierMatchesStatus, DatesMatchStatus, Exists
<1> QED BY <1>4, <1>5, <1>6 DEF IInv

LEMMA DeleteRowKeepsIInv ==
  ASSUME IInv, NEW r \in Requests, DeleteRow(r)
  PROVE  IInv'
<1>1. TypeOK /\ CallsOK BY DEF IInv
<1>2. /\ status' = "deleted" /\ editor' = NoUser /\ reviews' = {}
      /\ Goto(r, "idle")
      /\ UNCHANGED <<tier, createdBy, creator, filed, reviewed>>
  BY DEF DeleteRow
<1>3. "idle" \in Places \ {"store", "transfer"} BY DEF Places
<1>4. TypeOK' BY <1>1, <1>2, <1>3, GotoEffect DEF TypeOK
<1>5. CallsOK' BY <1>1, <1>2, <1>3, GotoKeepsCalls
<1>6. TierMatchesStatus' /\ DatesMatchStatus'
  BY <1>2 DEF TierMatchesStatus, DatesMatchStatus, Exists, Statuses
<1> QED BY <1>4, <1>5, <1>6 DEF IInv

LEMMA CreateKeepsIInv ==
  ASSUME IInv, NEW u \in Users, CreateSubmission(u)
  PROVE  IInv'
<1>1. TypeOK /\ CallsOK BY DEF IInv
<1>2. CallerTier(u) \in Roles /\ CallerTier(u) \in Tiers
  BY DEF CreateSubmission, CallerTier, Roles, Tiers
<1>3. TypeOK' BY <1>1, <1>2 DEF TypeOK, CreateSubmission, Statuses
<1>4. CallsOK' BY <1>1 DEF CallsOK, CreateSubmission
<1>5. TierMatchesStatus' /\ DatesMatchStatus'
  BY DEF CreateSubmission, TierMatchesStatus, DatesMatchStatus, Editable
<1> QED BY <1>3, <1>4, <1>5 DEF IInv

LEMMA ContinueKeepsIInv ==
  ASSUME IInv, NEW r \in Requests, Continue(r) \/ Abort(r)
  PROVE  IInv'
<1>1. TypeOK BY DEF IInv
<1>2. creator \in Users \union {NoUser} /\ editor \in Users \union {NoUser}
      /\ reviews \subseteq Review /\ call[r].user \in Users \union {NoUser}
  BY <1>1, CallFields DEF TypeOK
<1>3. {"idle", "load", "attach", "extract", "review"}
        \subseteq Places \ {"store", "transfer"}
  BY DEF Places
<1>4. CASE CheckDraft(r)
  BY <1>2, <1>3, <1>4, EditorStepKeepsIInv DEF CheckDraft, row
<1>5. CASE LoadStatus(r) BY <1>5, LoadStatusKeepsIInv
<1>6. CASE StoreStatus(r) BY <1>6, StoreStatusKeepsIInv
<1>7. CASE AppendReview(r) BY <1>7, AppendReviewKeepsIInv
<1>8. CASE ClearEditedBy(r)
  BY <1>2, <1>3, <1>8, EditorStepKeepsIInv DEF ClearEditedBy
<1>9. CASE TransferToCooperative(r) BY <1>9, TransferKeepsIInv
<1>10. CASE ClaimEditedBy(r)
  BY <1>2, <1>3, <1>10, EditorStepKeepsIInv DEF ClaimEditedBy
<1>11. CASE SetCurrentTier(r) BY <1>11, SetCurrentTierKeepsIInv
<1>12. CASE TakeEditedBy(r)
  BY <1>2, <1>3, <1>12, EditorStepKeepsIInv DEF TakeEditedBy
<1>13. CASE HandBack(r)
  BY <1>2, <1>3, <1>13, EditorStepKeepsIInv DEF HandBack
<1>14. CASE DeleteRow(r) BY <1>14, DeleteRowKeepsIInv
<1>15. CASE WriteData(r)
  BY <1>2, <1>3, <1>15, EditorStepKeepsIInv DEF WriteData, row
<1>16. CASE VerifyEditor(r)
  BY <1>2, <1>3, <1>16, EditorStepKeepsIInv DEF VerifyEditor, row
<1>17. CASE AttachStatement(r)
  BY <1>2, <1>3, <1>17, EditorStepKeepsIInv DEF AttachStatement, row
<1>18. CASE ExtractionSucceeds(r)
  BY <1>2, <1>3, <1>18, EditorStepKeepsIInv DEF ExtractionSucceeds, row
<1>19. CASE ExtractionFails(r)
  BY <1>2, <1>3, <1>19, EditorStepKeepsIInv DEF ExtractionFails, row
<1>20. CASE RowGone(r)
  BY <1>2, <1>3, <1>20, EditorStepKeepsIInv DEF RowGone, row
<1>21. CASE Abort(r)
  BY <1>2, <1>3, <1>21, EditorStepKeepsIInv DEF Abort, row
<1> QED
  BY <1>4, <1>5, <1>6, <1>7, <1>8, <1>9, <1>10, <1>11, <1>12, <1>13, <1>14,
     <1>15, <1>16, <1>17, <1>18, <1>19, <1>20, <1>21 DEF Continue

LEMMA NextKeepsIInv == IInv /\ [Next]_vars => IInv'
<1> SUFFICES ASSUME IInv, [Next]_vars PROVE IInv' OBVIOUS
<1>1. ASSUME NEW u \in Users, CreateSubmission(u) PROVE IInv'
  BY <1>1, CreateKeepsIInv
<1>2. ASSUME NEW r \in Requests, NEW u \in Users,
             AcceptBy(r, u) \/ AcceptFromAbove(r)
      PROVE  IInv'
  BY <1>2, AcceptShape, AcceptKeepsIInv
<1>3. ASSUME NEW r \in Requests, Continue(r) \/ Abort(r) PROVE IInv'
  BY <1>3, ContinueKeepsIInv
<1>4. CASE UNCHANGED vars
  BY <1>4 DEF vars, IInv, TypeOK, CallsOK, TierMatchesStatus,
     DatesMatchStatus, Exists
<1>5. Official \in Users BY DEF Users
<1> QED BY <1>1, <1>2, <1>3, <1>4, <1>5 DEF Next

THEOREM Invariance == Spec => []IInv
BY InitIInv, NextKeepsIInv, PTL DEF Spec

\* Every variable keeps its type, for any number of users and requests.
THEOREM TypeCorrect == Spec => []TypeOK
<1>1. IInv => TypeOK BY DEF IInv
<1> QED BY <1>1, Invariance, PTL

\* Whatever requests interleave, on new rows or rows of the older review, and
\* wherever they are cut off: the tier agrees with the status.
THEOREM TierAlwaysMatches == Spec => []TierMatchesStatus
<1>1. IInv => TierMatchesStatus BY DEF IInv
<1> QED BY <1>1, Invariance, PTL

\* ... and the filing and review dates are there when the status needs them,
\* although they are decided on a stale read.
THEOREM DatesAlwaysMatch == Spec => []DatesMatchStatus
<1>1. IInv => DatesMatchStatus BY DEF IInv
<1> QED BY <1>1, Invariance, PTL

-----------------------------------------------------------------------------
(* A deleted row, and the pen.                                             *)

LEMMA StepKeepsDeleted ==
  ASSUME [Next]_vars, status = "deleted" PROVE status' = "deleted"
<1>1. ~Exists BY DEF Exists, Statuses
<1>2. ASSUME NEW r \in Requests, NEW u \in Users,
             AcceptBy(r, u) \/ AcceptFromAbove(r)
      PROVE  status' = status
  BY <1>2, AcceptShape DEF Accept, row
<1>3. ASSUME NEW r \in Requests, Continue(r) \/ Abort(r)
      PROVE  status' = status
  BY <1>1, <1>3 DEF Continue, Abort, RowGone, At, row, CheckDraft, LoadStatus,
     StoreStatus, AppendReview, ClearEditedBy, TransferToCooperative,
     ClaimEditedBy, SetCurrentTier, TakeEditedBy, HandBack, DeleteRow,
     WriteData, VerifyEditor, AttachStatement, ExtractionSucceeds,
     ExtractionFails
<1>4. Official \in Users BY DEF Users
<1> QED BY <1>2, <1>3, <1>4 DEF Next, vars, CreateSubmission

\* No request in flight, however many there are, brings a deleted row back.
THEOREM DeletedForGood == Spec => DeletedStays
<1>1. [Next]_vars => [status = "deleted" => status' = "deleted"]_vars
  BY StepKeepsDeleted
<1> QED BY <1>1, PTL DEF Spec, DeletedStays

\* Before the INSERT there is no pen to take.
NewRowIsFree == status = "none" => editor = NoUser

LEMMA StepKeepsNewRowFree ==
  ASSUME NewRowIsFree, [Next]_vars PROVE NewRowIsFree'
<1> SUFFICES ASSUME status' = "none" PROVE editor' = NoUser BY DEF NewRowIsFree
<1>1. ASSUME NEW r \in Requests, NEW u \in Users,
             AcceptBy(r, u) \/ AcceptFromAbove(r)
      PROVE  editor' = NoUser
  BY <1>1, AcceptShape DEF Accept, row, NewRowIsFree
<1>2. ASSUME NEW r \in Requests, Continue(r) \/ Abort(r)
      PROVE  editor' = NoUser
  <2>1. CASE RowGone(r) \/ Abort(r)
    BY <2>1 DEF RowGone, Abort, row, NewRowIsFree
  <2>2. CASE StoreStatus(r)
    BY <2>2, NextStatusType DEF StoreStatus, SetStatus, Statuses
  <2>3. CASE Continue(r) /\ ~RowGone(r) /\ ~StoreStatus(r)
    BY <2>3 DEF Continue, At, Exists, Statuses, row, CheckDraft, LoadStatus,
       AppendReview, ClearEditedBy, TransferToCooperative, SetStatus,
       ClaimEditedBy, SetCurrentTier, TakeEditedBy, HandBack, DeleteRow,
       WriteData, VerifyEditor, AttachStatement, ExtractionSucceeds,
       ExtractionFails
  <2> QED BY <1>2, <2>1, <2>2, <2>3
<1>3. Official \in Users BY DEF Users
<1> QED
  BY <1>1, <1>2, <1>3 DEF Next, vars, CreateSubmission, NewRowIsFree

HandOver == {"release", "transfer", "take", "hand_back", "delete"}

LEMMA StepHandsOver ==
  ASSUME TypeOK, NewRowIsFree, [Next]_vars, editor # NoUser, editor' # editor
  PROVE  \E r \in Requests : call[r].at \in HandOver /\ call'[r] # call[r]
<1>1. ASSUME NEW r \in Requests, NEW u \in Users,
             AcceptBy(r, u) \/ AcceptFromAbove(r)
      PROVE  FALSE
  BY <1>1, AcceptShape DEF Accept, row
<1>2. ASSUME NEW r \in Requests, Continue(r) \/ Abort(r)
      PROVE  call[r].at \in HandOver /\ call'[r] # call[r]
  <2>1. call[r].at \in HandOver
    BY <1>2 DEF HandOver, Continue, Abort, RowGone, At, row, CheckDraft,
       LoadStatus, StoreStatus, AppendReview, ClearEditedBy,
       TransferToCooperative, ClaimEditedBy, SetCurrentTier, TakeEditedBy,
       HandBack, DeleteRow, WriteData, VerifyEditor, AttachStatement,
       ExtractionSucceeds, ExtractionFails
  <2>2. PICK place \in {"idle", "review"} : Goto(r, place)
    BY <1>2, <2>1 DEF HandOver, Continue, Abort, RowGone, At, row, CheckDraft,
       LoadStatus, StoreStatus, AppendReview, ClearEditedBy,
       TransferToCooperative, ClaimEditedBy, SetCurrentTier, TakeEditedBy,
       HandBack, DeleteRow, WriteData, VerifyEditor, AttachStatement,
       ExtractionSucceeds, ExtractionFails
  <2>3. call'[r].at = place
    BY <2>2, GotoEffect DEF Places, Idle
  <2> QED BY <2>1, <2>3 DEF HandOver
<1>3. Official \in Users BY DEF Users
<1> QED
  BY <1>1, <1>2, <1>3 DEF Next, vars, CreateSubmission, NewRowIsFree

\* However many users claim, delegate and reclaim at once, a user who has the
\* pen loses it only to an update that ends or transfers the editing.
THEOREM PenOnlyHandedOver == Spec => PenIsHandedOver
<1>1. Init => NewRowIsFree BY DEF Init, NewRowIsFree
<1>2. NewRowIsFree /\ [Next]_vars => NewRowIsFree' BY StepKeepsNewRowFree
<1>3. Spec => []NewRowIsFree BY <1>1, <1>2, PTL DEF Spec
<1>4. TypeOK /\ NewRowIsFree /\ [Next]_vars =>
        [editor # NoUser /\ editor' # editor =>
           \E r \in Requests :
             /\ call[r].at \in {"release", "transfer", "take", "hand_back", "delete"}
             /\ call'[r] # call[r]]_vars
  BY StepHandsOver DEF HandOver
<1> QED BY <1>3, <1>4, TypeCorrect, PTL DEF Spec, PenIsHandedOver

-----------------------------------------------------------------------------
(* Every approval is signed.                                               *)

LEMMA ApprovalThenReview ==
  ASSUME NEW op, NextStatus(op) = "approved" PROVE AfterStore(op) = "review"
BY DEF NextStatus, AfterStore

LEMMA ApprovalSigns ==
  ASSUME NEW c, NextStatus(c.op) = "approved"
  PROVE  Decision(c).action = "approve"
BY DEF NextStatus, Decision

\* A request that is not about to sign may move on.
LEMMA OthersKeepSignature ==
  ASSUME TypeOK, ApprovalIsSigned, NEW r \in Requests, NEW place \in Places,
         Goto(r, place), call[r].at # "review",
         status' = status, reviews \subseteq reviews'
  PROVE  ApprovalIsSigned'
<1>1. \A q \in Requests \ {r} : call'[q] = call[q] BY GotoEffect
<1> QED BY <1>1 DEF ApprovalIsSigned

LEMMA StepKeepsSignature ==
  ASSUME Abortable = FALSE, IInv, ApprovalIsSigned, [Next]_vars
  PROVE  ApprovalIsSigned'
<1>1. TypeOK BY DEF IInv
<1>2. ASSUME NEW r \in Requests, NEW u \in Users,
             AcceptBy(r, u) \/ AcceptFromAbove(r)
      PROVE  ApprovalIsSigned'
  <2>1. PICK op \in Endpoints, v \in Users, place \in EntryPlaces :
          Accept(r, op, v, place)
    BY <1>2, AcceptShape
  <2>2. /\ \A q \in Requests \ {r} : call'[q] = call[q]
        /\ call[r] = Idle
        /\ UNCHANGED <<row, reviews>>
    BY <1>1, <2>1, AcceptEffect
  <2> QED BY <2>2 DEF ApprovalIsSigned, row, Idle
<1>3. ASSUME NEW r \in Requests, Continue(r) PROVE ApprovalIsSigned'
  <2>1. CASE StoreStatus(r)
    <3> SUFFICES ASSUME status' = "approved" PROVE ApprovalIsSigned' BY DEF ApprovalIsSigned
    <3>1. NextStatus(call[r].op) = "approved" BY <2>1 DEF StoreStatus, SetStatus
    <3>2. Goto(r, "review") BY <2>1, <3>1, ApprovalThenReview DEF StoreStatus
    <3>3. call'[r].at = "review" /\ call'[r].op = call[r].op
      BY <1>1, <3>2, GotoEffect DEF Places
    <3> QED BY <3>1, <3>3 DEF ApprovalIsSigned, NextStatus
  <2>2. CASE AppendReview(r)
    <3>1. reviews' = reviews \union {Decision(call[r])} /\ status' = status
      BY <2>2 DEF AppendReview, row
    <3>2. AfterReview(call[r].op) \in Places BY DEF AfterReview, Places
    <3>3. \A q \in Requests \ {r} : call'[q] = call[q]
      BY <1>1, <2>2, <3>2, GotoEffect DEF AppendReview
    <3>4. NextStatus(call[r].op) = "approved" =>
            \E v \in reviews' : v.action = "approve"
      BY <3>1, ApprovalSigns
    <3> QED BY <3>1, <3>3, <3>4 DEF ApprovalIsSigned
  <2>3. CASE TransferToCooperative(r) \/ DeleteRow(r)
    BY <2>3 DEF TransferToCooperative, DeleteRow, SetStatus, ApprovalIsSigned
  <2>4. CASE LoadStatus(r)
    <3>1. call[r].at = "load" /\ UNCHANGED <<row, reviews>>
      BY <2>4 DEF LoadStatus, At
    <3>2. \A q \in Requests \ {r} : call'[q] = call[q]
      BY <1>1, <2>4 DEF LoadStatus, TypeOK
    <3> QED BY <3>1, <3>2 DEF ApprovalIsSigned, row
  <2>5. CASE RowGone(r)
    BY <2>5 DEF RowGone, row, ApprovalIsSigned, Exists, Statuses
  <2>6. CASE \/ CheckDraft(r) \/ ClearEditedBy(r) \/ ClaimEditedBy(r)
             \/ SetCurrentTier(r) \/ TakeEditedBy(r) \/ HandBack(r)
             \/ WriteData(r) \/ VerifyEditor(r) \/ AttachStatement(r)
             \/ ExtractionSucceeds(r) \/ ExtractionFails(r)
    <3>1. {"idle", "load", "take", "review", "attach", "extract"} \subseteq Places
      BY DEF Places
    <3>2. PICK place \in Places : Goto(r, place)
      BY <2>6, <3>1 DEF CheckDraft, ClearEditedBy, ClaimEditedBy,
         SetCurrentTier, TakeEditedBy, HandBack, WriteData, VerifyEditor,
         AttachStatement, ExtractionSucceeds, ExtractionFails
    <3>3. call[r].at # "review" /\ status' = status /\ reviews' = reviews
      BY <2>6 DEF At, row, CheckDraft, ClearEditedBy, ClaimEditedBy,
         SetCurrentTier, TakeEditedBy, HandBack, WriteData, VerifyEditor,
         AttachStatement, ExtractionSucceeds, ExtractionFails
    <3> QED BY <1>1, <3>2, <3>3, OthersKeepSignature
  <2> QED BY <1>3, <2>1, <2>2, <2>3, <2>4, <2>5, <2>6 DEF Continue
<1>4. CASE UNCHANGED vars BY <1>4 DEF vars, ApprovalIsSigned
<1>5. ASSUME NEW u \in Users, CreateSubmission(u) PROVE ApprovalIsSigned'
  BY <1>5 DEF CreateSubmission, ApprovalIsSigned
<1>6. Official \in Users BY DEF Users
<1> QED BY <1>2, <1>3, <1>4, <1>5, <1>6 DEF Next, Abort

\* If no request is cut off, a submission is never approved without an approve
\* entry in its reviews, or a request that adds it next.
THEOREM ApprovalAlwaysSigned ==
  ASSUME Abortable = FALSE PROVE Spec => []ApprovalIsSigned
<1>1. Init => ApprovalIsSigned BY DEF Init, ApprovalIsSigned
<1>2. IInv /\ ApprovalIsSigned /\ [Next]_vars => ApprovalIsSigned'
  BY StepKeepsSignature
<1> QED BY <1>1, <1>2, Invariance, PTL DEF Spec

-----------------------------------------------------------------------------
(* A server that works on one request at a time, lets each one finish and   *)
(* has no row of the four-level review implements SubmissionLifecycle.      *)

OneAtATime ==
  /\ \A r, q \in Requests : r = q
  /\ LegacyRow = FALSE
  /\ Abortable = FALSE

-----------------------------------------------------------------------------
(* What the request in progress still knows about the row: with nobody to   *)
(* change it in between, all that its checks found.                         *)

\* ... before it stores a status,
StoreFits(c) ==
  /\ c.op \in {"submit", "apex_submit", "apex_approve", "apex_return",
               "delegate", "upload", "validate"}
  /\ c.op \in {"submit", "apex_submit", "upload"} => status = "draft"
  /\ c.op \in {"apex_approve", "apex_return"} => status = "submitted"
  /\ c.op = "apex_submit" => ApexMaySubmit
  /\ c.op = "delegate" => createdBy = "apex" /\ tier = "apex"
  /\ c.op \in {"delegate", "validate"} => status \in {"draft", "submitted"}

\* ... and wherever it is.
CallFits(c) ==
  /\ c.at # "idle" => Exists
  /\ c.at # "hand_back"
  /\ c.at = "check" => c.op = "apex_submit" /\ ApexMaySubmit
  /\ c.at \in {"load", "store", "transfer"} => StoreFits(c)
  /\ c.at = "store" => c.op # "delegate"
  /\ c.at = "transfer" => c.op = "delegate"
  /\ c.at = "review" => c.op \in {"apex_submit", "apex_approve", "apex_return"}
  /\ c.at = "release" => c.op \in {"submit", "apex_submit", "apex_return"}
  /\ c.at \in {"set_tier", "take"} =>
       /\ c.user \in ApexUsers
       /\ status = "draft" /\ createdBy = "apex"
       /\ tier = IF c.at = "take" THEN "apex" ELSE "cooperative"
  /\ c.at = "claim" =>
       /\ status = "draft"
       /\ c.user \in CoopUsers \union ApexUsers
       /\ c.user \in CoopUsers => tier = "cooperative"
  /\ c.at = "delete" => status = "draft"
  /\ c.at \in {"verify", "attach"} => c.op = "upload" /\ status = "draft"
  /\ c.at = "extract" => c.op \in {"upload", "validate"} /\ StoreFits(c)

SerialInv ==
  /\ IInv
  /\ status \in {"none", "draft", "submitted", "approved", "deleted"}
  /\ tier \in {"cooperative", "apex"}
  /\ status \in {"submitted", "approved"} => Pen = NoUser
  /\ \A r \in Requests : CallFits(call[r])

-----------------------------------------------------------------------------

LEMMA MappedByTheRequest ==
  ASSUME OneAtATime, NEW r \in Requests
  PROVE  /\ Desk  = IF Reclaiming(r) THEN "cooperative" ELSE tier
         /\ Desk' = IF Reclaiming(r)' THEN "cooperative" ELSE tier'
         /\ Pen   = IF Releasing(r) THEN NoUser ELSE editor
         /\ Pen'  = IF Releasing(r)' THEN NoUser ELSE editor'
BY DEF OneAtATime, Desk, Pen, Reclaiming, Releasing

LEMMA InitSerialInv == ASSUME OneAtATime PROVE Init => SerialInv
<1> SUFFICES ASSUME Init PROVE SerialInv OBVIOUS
<1>1. IInv BY InitIInv
<1>2. \A r \in Requests : CallFits(call[r])
  BY DEF Init, Idle, CallFits
<1> QED BY <1>1, <1>2 DEF Init, SerialInv, OneAtATime

LEMMA InitRefines == ASSUME OneAtATime PROVE Init => Lifecycle!Init
<1> SUFFICES ASSUME Init PROVE Lifecycle!Init OBVIOUS
<1>1. \A r \in Requests : ~Reclaiming(r) /\ ~Releasing(r)
  BY DEF Init, Idle, Reclaiming, Releasing
<1>2. Phase = "none" /\ Desk = "cooperative" /\ Pen = NoUser
      /\ createdBy = "cooperative"
  BY <1>1 DEF Init, OneAtATime, Phase, Desk, Pen
<1> QED BY <1>2 DEF Lifecycle!Init

\* What one step of a request must show: the invariant's parts about the row
\* and the request, and the lifecycle's step.
Good(r) ==
  /\ status' \in {"none", "draft", "submitted", "approved", "deleted"}
  /\ tier' \in {"cooperative", "apex"}
  /\ status' \in {"submitted", "approved"} => Pen' = NoUser
  /\ CallFits(call[r])'
  /\ Lifecycle!Next \/ UNCHANGED Lifecycle!vars

LEMMA GoodStep ==
  ASSUME OneAtATime, IInv', NEW r \in Requests, Good(r)
  PROVE  SerialInv' /\ [Lifecycle!Next]_(Lifecycle!vars)
BY DEF Good, SerialInv, OneAtATime

-----------------------------------------------------------------------------
(* Steps the lifecycle does not see.                                       *)

LEMMA QuietIsGood ==
  ASSUME OneAtATime, SerialInv, NEW r \in Requests, UNCHANGED row,
         Releasing(r)' = Releasing(r), Reclaiming(r)' = Reclaiming(r),
         CallFits(call[r])'
  PROVE  Good(r)
<1>1. Desk' = Desk /\ Pen' = Pen /\ Phase' = Phase
  BY MappedByTheRequest DEF row, Phase
<1> QED BY <1>1 DEF Good, SerialInv, row, Lifecycle!vars

LEMMA AcceptIsQuiet ==
  ASSUME OneAtATime, SerialInv, NEW r \in Requests, NEW op \in Endpoints,
         NEW u \in Users, NEW place \in EntryPlaces, Accept(r, op, u, place),
         CallFits(call[r])'
  PROVE  Good(r)
<1>1. TypeOK BY DEF SerialInv, IInv
<1>2. /\ call[r] = Idle
      /\ call'[r].at = place
      /\ UNCHANGED row
  BY <1>1, AcceptEffect
<1>3. Releasing(r)' = Releasing(r) /\ Reclaiming(r)' = Reclaiming(r)
  BY <1>2 DEF Releasing, Reclaiming, Idle, EntryPlaces
<1> QED BY <1>2, <1>3, QuietIsGood

LEMMA AcceptIsGood ==
  ASSUME OneAtATime, SerialInv, NEW r \in Requests, NEW u \in Users,
         AcceptBy(r, u) \/ AcceptFromAbove(r)
  PROVE  Good(r)
<1>1. TypeOK BY DEF SerialInv, IInv
<1>2. ~AcceptFromAbove(r)
  BY DEF AcceptFromAbove, AtFederation, FederationApprove, FederationReturn,
     MinistryApprove, MinistryReject, SerialInv
<1>3. PICK op \in Endpoints, v \in Users, place \in EntryPlaces :
        Accept(r, op, v, place)
  BY AcceptShape
<1>4. \A o \in Endpoints, w \in Users, q \in EntryPlaces :
        Accept(r, o, w, q) => /\ call'[r].at = q /\ call'[r].op = o
                              /\ call'[r].user = w
                              /\ UNCHANGED row
  BY <1>1, AcceptEffect
<1>5. {"submit", "apex_submit", "apex_approve", "apex_return", "delegate",
       "reclaim", "claim_coop", "claim_apex", "delete", "save",
       "edit_records", "upload", "validate"} \subseteq Endpoints
  BY DEF Endpoints
<1>6. EntryPlaces = {"check", "load", "set_tier", "claim", "delete", "write",
                     "verify", "extract"}
  BY DEF EntryPlaces
<1>7. /\ status \in {"none", "draft", "submitted", "approved", "deleted"}
      /\ tier \in {"cooperative", "apex"} /\ TierMatchesStatus
  BY DEF SerialInv, IInv
<1>8. CallFits(call[r])'
  <2>1. CASE SubmitSubmission(r, u)
    BY <1>4, <1>5, <1>6, <2>1 DEF SubmitSubmission, SubmitChecks, CallFits,
       StoreFits, row, Exists, Statuses
  <2>2. CASE ApexSubmitSubmission(r, u)
    BY <1>4, <1>5, <1>6, <2>2 DEF ApexSubmitSubmission, ApexSubmitChecks, CallFits,
       row, Exists, ApexMaySubmit
  <2>3. CASE ApexApprove(r, u)
    BY <1>4, <1>5, <1>6, <2>3 DEF ApexApprove, DecisionChecks, CallFits, StoreFits,
       row, Exists, Statuses
  <2>4. CASE ApexReturn(r, u)
    BY <1>4, <1>5, <1>6, <2>4 DEF ApexReturn, DecisionChecks, CallFits, StoreFits,
       row, Exists, Statuses
  <2>5. CASE DelegateSubmission(r, u)
    BY <1>4, <1>5, <1>6, <1>7, <2>5
       DEF DelegateSubmission, DelegateChecks, CallFits, StoreFits, row, Unsettled,
       Exists, Statuses
  <2>6. CASE ReclaimSubmission(r, u)
    BY <1>4, <1>5, <1>6, <1>7, <2>6
       DEF ReclaimSubmission, ReclaimChecks, CallFits, row, Unsettled, Exists,
       TierMatchesStatus
  <2>7. CASE ClaimCooperativeEdit(r, u)
    BY <1>4, <1>5, <1>6, <2>7 DEF ClaimCooperativeEdit, CoopClaimChecks, CallFits,
       row, Exists, Statuses
  <2>8. CASE ClaimApexEdit(r, u)
    BY <1>4, <1>5, <1>6, <2>8, UsersAssumption
       DEF ClaimApexEdit, ApexClaimChecks, CallFits, row, Exists, Statuses
  <2>9. CASE DeleteSubmission(r, u)
    BY <1>4, <1>5, <1>6, <1>7, <2>9
       DEF DeleteSubmission, DeleteChecks, CallFits, row, Exists, Statuses
  <2>10. CASE SaveDraft(r, u)
    BY <1>4, <1>5, <1>6, <2>10 DEF SaveDraft, SaveChecks, CallFits, row, Exists,
       Statuses
  <2>11. CASE EditRecords(r, u)
    BY <1>4, <1>5, <1>6, <2>11 DEF EditRecords, CallFits, row, Exists
  <2>12. CASE UploadFinancialStatement(r, u)
    BY <1>4, <1>5, <1>6, <2>12 DEF UploadFinancialStatement, UploadChecks, CallFits,
       row, Exists, Statuses
  <2>13. CASE ValidateExtraction(r, u)
    BY <1>4, <1>5, <1>6, <1>7, <2>13
       DEF ValidateExtraction, ValidateChecks, CallFits, StoreFits, row, Exists,
       Statuses
  <2> QED BY <1>2, <2>1, <2>2, <2>3, <2>4, <2>5, <2>6, <2>7, <2>8, <2>9,
             <2>10, <2>11, <2>12, <2>13 DEF AcceptBy
<1> QED BY <1>3, <1>8, AcceptIsQuiet

\* A request that ends leaves nothing to fit.
LEMMA EndFits ==
  ASSUME NEW r \in Requests, call'[r] = Idle
  PROVE  CallFits(call[r])' /\ ~Releasing(r)' /\ ~Reclaiming(r)'
BY DEF CallFits, Idle, Releasing, Reclaiming

\* Moving on without touching the row, where the lifecycle sees nothing.
LEMMA QuietContinueIsGood ==
  ASSUME OneAtATime, SerialInv, NEW r \in Requests,
         \/ CheckDraft(r) \/ LoadStatus(r) \/ AppendReview(r) \/ WriteData(r)
         \/ VerifyEditor(r) \/ AttachStatement(r) \/ ExtractionSucceeds(r)
         \/ ExtractionFails(r)
  PROVE  Good(r)
<1>1. TypeOK /\ CallFits(call[r]) BY DEF SerialInv, IInv
<1>2. UNCHANGED row
  BY DEF CheckDraft, LoadStatus, AppendReview, WriteData, VerifyEditor,
     AttachStatement, ExtractionSucceeds, ExtractionFails
<1>3. /\ Exists' = Exists /\ ApexMaySubmit' = ApexMaySubmit
      /\ status' = status /\ tier' = tier /\ createdBy' = createdBy
  BY <1>2 DEF row, Exists, ApexMaySubmit
<1>4. {"idle", "load", "attach", "extract", "release"} \subseteq Places
  BY DEF Places
<1>5. \A q \in Places : Goto(r, q) =>
        /\ q = "idle" => call'[r] = Idle
        /\ q # "idle" => call'[r].at = q /\ call'[r].op = call[r].op
                         /\ call'[r].user = call[r].user
  BY <1>1, GotoEffect
<1>6. CASE CheckDraft(r)
  <2>1. Goto(r, IF status = "draft" THEN "load" ELSE "idle") /\ At(r, "check")
    BY <1>6 DEF CheckDraft
  <2>2. call'[r] = Idle \/ (status = "draft" /\ call'[r].at = "load"
                            /\ call'[r].op = call[r].op)
    BY <1>4, <1>5, <2>1
  <2>3. CallFits(call[r])' /\ ~Releasing(r)' /\ ~Reclaiming(r)'
    BY <1>1, <1>3, <2>1, <2>2, EndFits
       DEF At, CallFits, StoreFits, Releasing, Reclaiming
  <2> QED BY <1>2, <2>1, <2>3, QuietIsGood DEF At, Releasing, Reclaiming
<1>7. CASE LoadStatus(r)
  <2>1. /\ At(r, "load") /\ call[r] \in Call
        /\ call'[r].op = call[r].op
        /\ call'[r].at = IF call[r].op = "delegate" THEN "transfer" ELSE "store"
    BY <1>1, <1>7 DEF LoadStatus, TypeOK, Call
  <2>2. CallFits(call[r])' /\ ~Releasing(r)' /\ ~Reclaiming(r)'
    BY <1>1, <1>3, <2>1 DEF At, CallFits, StoreFits, Releasing, Reclaiming
  <2> QED BY <1>2, <2>1, <2>2, QuietIsGood DEF At, Releasing, Reclaiming
<1>8. CASE AppendReview(r)
  <2>1. Goto(r, AfterReview(call[r].op)) /\ At(r, "review")
    BY <1>8 DEF AppendReview
  <2>2. call[r].op \in {"apex_submit", "apex_approve", "apex_return"}
    BY <1>1, <2>1 DEF At, CallFits
  <2>3. CASE call[r].op = "apex_approve"
    <3>1. call'[r] = Idle BY <1>4, <1>5, <2>1, <2>3 DEF AfterReview
    <3> QED BY <1>2, <2>1, <2>3, <3>1, EndFits, QuietIsGood
            DEF At, Releasing, Reclaiming
  <2>4. CASE call[r].op # "apex_approve"
    <3>1. call'[r].at = "release" /\ call'[r].op = call[r].op
      BY <1>4, <1>5, <2>1, <2>2, <2>4 DEF AfterReview
    <3>2. CallFits(call[r])' BY <1>3, <2>1, <2>2, <2>4, <3>1 DEF At, CallFits
    <3> QED BY <1>2, <2>1, <2>2, <2>4, <3>1, <3>2, QuietIsGood
            DEF At, Releasing, Reclaiming
  <2> QED BY <2>3, <2>4
<1>9. CASE WriteData(r) \/ ExtractionFails(r)
  <2>1. Goto(r, "idle") /\ call[r].at \in {"write", "extract"}
    BY <1>9 DEF WriteData, ExtractionFails, At
  <2>2. call'[r] = Idle BY <1>4, <1>5, <2>1
  <2> QED BY <1>2, <2>1, <2>2, EndFits, QuietIsGood DEF Releasing, Reclaiming
<1>10. CASE VerifyEditor(r) \/ AttachStatement(r) \/ ExtractionSucceeds(r)
  <2>1. /\ Exists
        /\ \/ call[r].at = "verify" /\ (Goto(r, "attach") \/ Goto(r, "idle"))
           \/ call[r].at = "attach" /\ Goto(r, "extract")
           \/ call[r].at = "extract" /\ Goto(r, "load")
    BY <1>10 DEF VerifyEditor, AttachStatement, ExtractionSucceeds, At
  <2>2. \/ call'[r] = Idle
        \/ /\ call'[r].op = call[r].op
           /\ \/ call[r].at = "verify"  /\ call'[r].at = "attach"
              \/ call[r].at = "attach"  /\ call'[r].at = "extract"
              \/ call[r].at = "extract" /\ call'[r].at = "load"
    BY <1>4, <1>5, <2>1
  <2>3. CallFits(call[r])' /\ ~Releasing(r)' /\ ~Reclaiming(r)'
    BY <1>1, <1>3, <2>1, <2>2, EndFits
       DEF CallFits, StoreFits, Releasing, Reclaiming
  <2> QED BY <1>2, <2>1, <2>3, QuietIsGood DEF Releasing, Reclaiming
<1> QED BY <1>6, <1>7, <1>8, <1>9, <1>10

-----------------------------------------------------------------------------
(* Steps that are an operation of the lifecycle.                           *)

LEMMA StoreStatusIsGood ==
  ASSUME OneAtATime, SerialInv, NEW r \in Requests, StoreStatus(r)
  PROVE  Good(r)
<1> DEFINE op == call[r].op
<1>1. TypeOK /\ TierMatchesStatus /\ CallFits(call[r]) BY DEF SerialInv, IInv
<1>2. /\ call[r].at = "store" /\ Exists
      /\ status' = NextStatus(op) /\ tier' = NextTier(op)
      /\ Goto(r, AfterStore(op))
      /\ UNCHANGED <<createdBy, creator, editor>>
  BY DEF StoreStatus, At, SetStatus
<1>3. StoreFits(call[r]) /\ op # "delegate" BY <1>1, <1>2 DEF CallFits
<1>4. op \in {"submit", "apex_submit", "apex_approve", "apex_return", "upload", "validate"}
  BY <1>3 DEF StoreFits
<1>5. createdBy \in {"cooperative", "apex"} BY <1>1 DEF TypeOK, Roles
<1>6. ~Releasing(r) /\ ~Reclaiming(r) BY <1>2 DEF Releasing, Reclaiming
<1>7. Desk = tier /\ Pen = editor
      /\ Desk' = (IF Reclaiming(r)' THEN "cooperative" ELSE tier')
      /\ Pen' = (IF Releasing(r)' THEN NoUser ELSE editor')
  BY <1>6, MappedByTheRequest
<1>8. \A q \in {"release", "review", "idle"} : Goto(r, q) =>
        /\ q = "idle" => call'[r] = Idle
        /\ q # "idle" => call'[r].at = q /\ call'[r].op = op
  BY <1>1, GotoEffect DEF Places
<1>9. CASE op = "submit"
  <2>1. status = "draft" /\ status' = "submitted" /\ tier' = "apex"
    BY <1>2, <1>3, <1>9 DEF StoreFits, NextStatus, NextTier
  <2>2. call'[r].at = "release" /\ call'[r].op = "submit"
    BY <1>2, <1>8, <1>9 DEF AfterStore
  <2>3. Releasing(r)' /\ ~Reclaiming(r)' BY <2>2 DEF Releasing, Reclaiming
  <2>4. Lifecycle!File
    BY <1>2, <1>7, <2>1, <2>3 DEF Lifecycle!File, Phase
  <2>5. CallFits(call[r])' BY <2>1, <2>2 DEF CallFits, Exists, Statuses
  <2> QED BY <1>7, <2>1, <2>3, <2>4, <2>5 DEF Good, Lifecycle!Next
<1>10. CASE op = "apex_submit"
  <2>1. status = "draft" /\ status' = "approved" /\ tier' = "apex"
        /\ (createdBy = "apex" \/ tier = "apex")
    BY <1>2, <1>3, <1>10 DEF StoreFits, NextStatus, NextTier, ApexMaySubmit
  <2>2. call'[r].at = "review" /\ call'[r].op = "apex_submit"
    BY <1>2, <1>8, <1>10 DEF AfterStore
  <2>3. Releasing(r)' /\ ~Reclaiming(r)' BY <2>2 DEF Releasing, Reclaiming
  <2>4. Lifecycle!Settle
    BY <1>2, <1>7, <2>1, <2>3 DEF Lifecycle!Settle, Phase
  <2>5. CallFits(call[r])' BY <2>1, <2>2 DEF CallFits, Exists, Statuses
  <2> QED BY <1>7, <2>1, <2>3, <2>4, <2>5 DEF Good, Lifecycle!Next
<1>11. CASE op = "apex_approve"
  <2>1. status = "submitted" /\ status' = "approved" /\ tier' = "apex"
    BY <1>2, <1>3, <1>11 DEF StoreFits, NextStatus, NextTier
  <2>2. tier = "apex" /\ Pen = NoUser
    BY <1>1, <1>2, <2>1 DEF TierMatchesStatus, SerialInv
  <2>3. call'[r].at = "review" /\ call'[r].op = "apex_approve"
    BY <1>2, <1>8, <1>11 DEF AfterStore
  <2>4. ~Releasing(r)' /\ ~Reclaiming(r)' BY <2>3 DEF Releasing, Reclaiming
  <2>5. Lifecycle!Approve
    BY <1>2, <1>7, <2>1, <2>2, <2>4 DEF Lifecycle!Approve, Phase
  <2>6. CallFits(call[r])' BY <2>1, <2>3 DEF CallFits, Exists, Statuses
  <2> QED BY <1>2, <1>7, <2>1, <2>2, <2>4, <2>5, <2>6 DEF Good, Lifecycle!Next
<1>12. CASE op = "apex_return"
  <2>1. status = "submitted" /\ status' = "draft" /\ tier' = createdBy
    BY <1>2, <1>3, <1>12 DEF StoreFits, NextStatus, NextTier
  <2>2. call'[r].at = "review" /\ call'[r].op = "apex_return"
    BY <1>2, <1>8, <1>12 DEF AfterStore
  <2>3. Releasing(r)' /\ ~Reclaiming(r)' BY <2>2 DEF Releasing, Reclaiming
  <2>4. Lifecycle!GiveBack
    BY <1>2, <1>7, <2>1, <2>3 DEF Lifecycle!GiveBack, Phase
  <2>5. CallFits(call[r])' BY <2>1, <2>2 DEF CallFits, Exists, Statuses
  <2> QED BY <1>5, <1>7, <2>1, <2>3, <2>4, <2>5 DEF Good, Lifecycle!Next
<1>13. CASE op \in {"upload", "validate"}
  <2>1. status \in {"draft", "submitted"} /\ status' = "draft" /\ tier' = "cooperative"
    BY <1>2, <1>3, <1>13 DEF StoreFits, NextStatus, NextTier
  <2>2. call'[r] = Idle BY <1>2, <1>8, <1>13 DEF AfterStore
  <2>3. CallFits(call[r])' /\ ~Releasing(r)' /\ ~Reclaiming(r)' BY <2>2, EndFits
  <2>4. Lifecycle!Extract
    BY <1>2, <1>7, <2>1, <2>3 DEF Lifecycle!Extract, Phase
  <2> QED BY <2>1, <2>3, <2>4 DEF Good, Lifecycle!Next
<1> QED BY <1>4, <1>9, <1>10, <1>11, <1>12, <1>13

LEMMA RowStepIsGood ==
  ASSUME OneAtATime, SerialInv, NEW r \in Requests,
         \/ ClearEditedBy(r) \/ TransferToCooperative(r) \/ ClaimEditedBy(r)
         \/ SetCurrentTier(r) \/ TakeEditedBy(r) \/ DeleteRow(r)
  PROVE  Good(r)
<1>1. TypeOK /\ CallFits(call[r]) BY DEF SerialInv, IInv
<1>2. /\ status \in {"none", "draft", "submitted", "approved", "deleted"}
      /\ tier \in {"cooperative", "apex"}
      /\ status \in {"submitted", "approved"} => Pen = NoUser
  BY DEF SerialInv
<1>3. /\ Desk = (IF Reclaiming(r) THEN "cooperative" ELSE tier)
      /\ Pen = (IF Releasing(r) THEN NoUser ELSE editor)
      /\ Desk' = (IF Reclaiming(r)' THEN "cooperative" ELSE tier')
      /\ Pen' = (IF Releasing(r)' THEN NoUser ELSE editor')
  BY MappedByTheRequest
<1>4. Goto(r, "idle") => /\ CallFits(call[r])'
                         /\ ~Releasing(r)' /\ ~Reclaiming(r)'
  BY <1>1, GotoEffect, EndFits DEF Places
<1>5. CASE ClearEditedBy(r)
  <2>1. /\ call[r].at = "release" /\ editor' = NoUser /\ Goto(r, "idle")
        /\ UNCHANGED <<status, tier, createdBy>>
    BY <1>5 DEF ClearEditedBy, At
  <2>2. Releasing(r) /\ ~Reclaiming(r)
    BY <1>1, <2>1 DEF CallFits, Releasing, Reclaiming
  <2>3. UNCHANGED Lifecycle!vars
    BY <1>3, <1>4, <2>1, <2>2 DEF Lifecycle!vars, Phase
  <2> QED BY <1>2, <1>3, <1>4, <2>1, <2>3 DEF Good
<1>6. CASE TransferToCooperative(r)
  <2>1. /\ call[r].at = "transfer" /\ editor' = NoUser /\ Goto(r, "idle")
        /\ status' = "draft" /\ tier' = "cooperative" /\ UNCHANGED createdBy
    BY <1>6 DEF TransferToCooperative, At, SetStatus
  <2>2. ~Releasing(r) /\ ~Reclaiming(r) BY <2>1 DEF Releasing, Reclaiming
  <2>3. status \in {"draft", "submitted"} /\ createdBy = "apex" /\ tier = "apex"
    BY <1>1, <2>1 DEF CallFits, StoreFits
  <2>4. Lifecycle!Delegate
    BY <1>3, <1>4, <2>1, <2>2, <2>3 DEF Lifecycle!Delegate, Phase
  <2> QED BY <1>4, <2>1, <2>4 DEF Good, Lifecycle!Next
<1>7. CASE ClaimEditedBy(r)
  <2>1. /\ call[r].at = "claim" /\ Goto(r, "idle")
        /\ editor' = IF editor = NoUser THEN call[r].user ELSE editor
        /\ UNCHANGED <<status, tier, createdBy>>
    BY <1>7 DEF ClaimEditedBy, At
  <2>2. ~Releasing(r) /\ ~Reclaiming(r) BY <2>1 DEF Releasing, Reclaiming
  <2>3. /\ status = "draft" /\ call[r].user \in CoopUsers \union ApexUsers
        /\ call[r].user \in CoopUsers => tier = "cooperative"
    BY <1>1, <2>1 DEF CallFits
  <2>4. editor = NoUser => Lifecycle!Claim(call[r].user)
    BY <1>3, <1>4, <2>1, <2>2, <2>3 DEF Lifecycle!Claim, Phase
  <2>5. editor # NoUser => UNCHANGED Lifecycle!vars
    BY <1>3, <1>4, <2>1, <2>2 DEF Lifecycle!vars, Phase
  <2> QED BY <1>2, <1>4, <2>1, <2>3, <2>4, <2>5 DEF Good, Lifecycle!Next
<1>8. CASE SetCurrentTier(r)
  <2>1. /\ call[r].at = "set_tier" /\ tier' = "apex" /\ Goto(r, "take")
        /\ UNCHANGED <<status, createdBy, editor>>
    BY <1>8 DEF SetCurrentTier, At
  <2>2. /\ call[r].user \in ApexUsers /\ status = "draft"
        /\ createdBy = "apex" /\ tier = "cooperative"
    BY <1>1, <2>1 DEF CallFits
  <2>3. call'[r].at = "take" /\ call'[r].user = call[r].user
    BY <1>1, <2>1, GotoEffect DEF Places
  <2>4. ~Releasing(r) /\ ~Reclaiming(r) /\ ~Releasing(r)' /\ Reclaiming(r)'
    BY <2>1, <2>3 DEF Releasing, Reclaiming
  <2>5. CallFits(call[r])' BY <2>1, <2>2, <2>3 DEF CallFits, Exists, Statuses
  <2>6. UNCHANGED Lifecycle!vars
    BY <1>3, <2>1, <2>2, <2>4 DEF Lifecycle!vars, Phase
  <2> QED BY <2>1, <2>2, <2>5, <2>6 DEF Good
<1>9. CASE TakeEditedBy(r)
  <2>1. /\ call[r].at = "take" /\ editor' = call[r].user /\ Goto(r, "idle")
        /\ UNCHANGED <<status, tier, createdBy>>
    BY <1>9 DEF TakeEditedBy, At
  <2>2. /\ call[r].user \in ApexUsers /\ status = "draft"
        /\ createdBy = "apex" /\ tier = "apex"
    BY <1>1, <2>1 DEF CallFits
  <2>3. ~Releasing(r) /\ Reclaiming(r) BY <2>1 DEF Releasing, Reclaiming
  <2>4. Lifecycle!Reclaim(call[r].user)
    BY <1>3, <1>4, <2>1, <2>2, <2>3 DEF Lifecycle!Reclaim, Phase
  <2> QED BY <1>4, <2>1, <2>2, <2>4 DEF Good, Lifecycle!Next
<1>10. CASE DeleteRow(r)
  <2>1. /\ call[r].at = "delete" /\ status' = "deleted" /\ editor' = NoUser
        /\ Goto(r, "idle") /\ UNCHANGED <<tier, createdBy>>
    BY <1>10 DEF DeleteRow, At
  <2>2. status = "draft" /\ ~Releasing(r) /\ ~Reclaiming(r)
    BY <1>1, <2>1 DEF CallFits, Releasing, Reclaiming
  <2>3. Lifecycle!Discard
    BY <1>3, <1>4, <2>1, <2>2 DEF Lifecycle!Discard, Phase
  <2> QED BY <1>2, <1>4, <2>1, <2>3 DEF Good, Lifecycle!Next
<1> QED BY <1>5, <1>6, <1>7, <1>8, <1>9, <1>10

LEMMA CreateRefines ==
  ASSUME OneAtATime, SerialInv, IInv', NEW u \in Users, CreateSubmission(u)
  PROVE  SerialInv' /\ [Lifecycle!Next]_(Lifecycle!vars)
<1>1. /\ status = "none" /\ u \in CoopUsers \union ApexUsers
      /\ status' = "draft" /\ tier' = CallerTier(u) /\ createdBy' = CallerTier(u)
      /\ editor' = u /\ call' = call
  BY DEF CreateSubmission
<1>2. CallerTier(u) = Lifecycle!DeskOf(u)
      /\ CallerTier(u) \in {"cooperative", "apex"}
  BY <1>1 DEF CallerTier, Lifecycle!DeskOf
<1>3. \A r \in Requests : call[r].at = "idle"
  BY <1>1 DEF SerialInv, CallFits, Exists, Statuses
<1>4. \A r \in Requests : ~Releasing(r)' /\ ~Reclaiming(r)'
  BY <1>1, <1>3 DEF Releasing, Reclaiming
<1>5. Phase = "none" /\ Phase' = "draft" /\ Desk' = CallerTier(u) /\ Pen' = u
  BY <1>1, <1>4 DEF Phase, Desk, Pen
<1>6. Lifecycle!Open(u) BY <1>1, <1>2, <1>5 DEF Lifecycle!Open
<1>7. \A r \in Requests : CallFits(call[r])'
  BY <1>1, <1>3 DEF CallFits
<1> QED BY <1>1, <1>2, <1>6, <1>7 DEF SerialInv, Lifecycle!Next

-----------------------------------------------------------------------------

LEMMA StepRefines ==
  ASSUME OneAtATime, SerialInv, [Next]_vars
  PROVE  SerialInv' /\ [Lifecycle!Next]_(Lifecycle!vars)
<1>1. IInv' BY NextKeepsIInv DEF SerialInv
<1>2. ASSUME NEW r \in Requests, NEW u \in Users,
             AcceptBy(r, u) \/ AcceptFromAbove(r)
      PROVE  Good(r)
  BY <1>2, AcceptIsGood
<1>3. ASSUME NEW r \in Requests, Continue(r) \/ Abort(r) PROVE Good(r)
  <2>1. CallFits(call[r]) BY DEF SerialInv
  <2>2. ~Abort(r) BY DEF Abort, OneAtATime
  <2>3. ~RowGone(r) /\ ~HandBack(r)
    BY <2>1 DEF CallFits, RowGone, HandBack, At
  <2> QED BY <1>3, <2>2, <2>3, QuietContinueIsGood, StoreStatusIsGood, RowStepIsGood
          DEF Continue
<1>4. CASE UNCHANGED vars
  <2>1. Desk' = Desk /\ Pen' = Pen /\ Phase' = Phase
    BY <1>4 DEF vars, Desk, Pen, Phase, Reclaiming, Releasing
  <2>2. SerialInv'
    BY <1>1, <1>4, <2>1
       DEF vars, SerialInv, CallFits, StoreFits, Exists, ApexMaySubmit
  <2> QED BY <1>4, <2>1, <2>2 DEF vars, Lifecycle!vars
<1>5. Official \in Users BY DEF Users
<1> QED BY <1>1, <1>2, <1>3, <1>4, <1>5, GoodStep, CreateRefines DEF Next

\* Served one at a time and let finish, the many-step handlers do what the
\* lifecycle promises in one step each, for any users: a filed submission has
\* no editor, an approval is final, only drafts are deleted.
THEOREM SerialImplementsLifecycle ==
  ASSUME OneAtATime PROVE Spec => ImplementsLifecycle
<1>1. Init => SerialInv /\ Lifecycle!Init BY InitSerialInv, InitRefines
<1>2. SerialInv /\ [Next]_vars => SerialInv' /\ [Lifecycle!Next]_(Lifecycle!vars)
  BY StepRefines
<1> QED BY <1>1, <1>2, PTL DEF Spec, ImplementsLifecycle, Lifecycle!Spec

LEMMA SerialInvariance == ASSUME OneAtATime PROVE Spec => []SerialInv
<1>1. Init => SerialInv BY InitSerialInv
<1>2. SerialInv /\ [Next]_vars => SerialInv' BY StepRefines
<1> QED BY <1>1, <1>2, PTL DEF Spec

\* Served one at a time, nothing takes an approval back (requests that
\* interleave do).
THEOREM SerialApprovalIsFinal == ASSUME OneAtATime PROVE Spec => ApprovedIsFinal
<1>1. SerialInv /\ [Next]_vars => [status = "approved" => status' = "approved"]_vars
  <2> SUFFICES ASSUME SerialInv, [Next]_vars, status = "approved"
      PROVE status' = "approved"
    OBVIOUS
  <2>1. [Lifecycle!Next]_(Lifecycle!vars) /\ SerialInv' BY StepRefines
  <2>2. Phase = "approved" BY DEF Phase
  <2>3. Phase' = "approved"
    BY <2>1, <2>2 DEF Lifecycle!Next, Lifecycle!vars, Lifecycle!Open,
       Lifecycle!Claim, Lifecycle!Reclaim, Lifecycle!File, Lifecycle!Settle,
       Lifecycle!Approve, Lifecycle!GiveBack, Lifecycle!Delegate,
       Lifecycle!Extract, Lifecycle!Discard
  <2> QED BY <2>3 DEF Phase
<1> QED BY <1>1, SerialInvariance, PTL DEF Spec, ApprovedIsFinal

\* Served one at a time, a submission under review or approved has no editor.
THEOREM SerialNoEditorOnceFiled ==
  ASSUME OneAtATime PROVE Spec => []NoEditorOnceFiled
<1>1. SerialInv => NoEditorOnceFiled
  BY DEF SerialInv, Pen, Releasing, NoEditorOnceFiled
<1> QED BY <1>1, SerialInvariance, PTL

=============================================================================
