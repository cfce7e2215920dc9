------------------------- MODULE SubmissionWorkflow -------------------------
(***************************************************************************)
(* The life of one submission row: the review workflow (submit, approve,   *)
(* return, reject), the exclusive editor (claim, delegate, reclaim), the   *)
(* writes of submission data and the extraction pipeline that resets the   *)
(* row when it finishes.                                                   *)
(*                                                                         *)
(* No handler locks the row.  Each one SELECTs it, checks what it read,    *)
(* and later issues separate UPDATEs that set only the columns it names.   *)
(* The model therefore splits a handler at its database calls: a request   *)
(* is accepted in the step that reads and checks the row, and then runs    *)
(* its remaining calls one step at a time, interleaved with the others.    *)
(* A request that a check refuses changes nothing and is not modelled.     *)
(*                                                                         *)
(* The data of the submission has no variable here: a write is the step    *)
(* that makes it, and the gates of submit() over the data (flags,          *)
(* sections, figures) either pass or refuse the request.                   *)
(*                                                                         *)
(* Some definitions are preceded by a variant that no action uses: the     *)
(* same definition with a plausible fault, which a property must reject.   *)
(***************************************************************************)

CONSTANTS
  CoopUsers,    \* users with the cooperative role, all of the owning cooperative
  ApexUsers,    \* users with the apex role, all of the apex above it
  Official,     \* a federation or ministry reviewer: no drafting tier
  NoUser,       \* SQL NULL in a user column
  Requests,     \* how many requests the server handles at once
  Operations,   \* the endpoints clients call
  LegacyRow,    \* TRUE: the row may date from the four-level review
  Abortable     \* TRUE: a request may be cut off between two calls

Endpoints == {"submit", "apex_submit", "apex_approve", "apex_return",
              "federation_approve", "federation_return",
              "ministry_approve", "ministry_reject",
              "delegate", "reclaim", "claim_coop", "claim_apex",
              "delete", "save", "edit_records", "upload", "validate"}

Users == CoopUsers \union ApexUsers \union {Official}

ASSUME UsersAssumption ==
  /\ CoopUsers \intersect ApexUsers = {}
  /\ Official \notin CoopUsers \union ApexUsers
  /\ NoUser \notin Users

ASSUME ParametersAssumption ==
  /\ Operations \subseteq Endpoints
  /\ LegacyRow \in BOOLEAN
  /\ Abortable \in BOOLEAN

VARIABLES
  status,       \* "none" before the INSERT, "deleted" after the DELETE
  tier,         \* current_tier
  createdBy,    \* created_by_role
  creator,      \* created_by_user_id
  editor,       \* edited_by
  filed,        \* submitted_at is set
  reviewed,     \* last_reviewed_at is set
  reviews,      \* the decisions signed in submission_reviews, no comments
  call          \* the requests in progress

row  == <<status, tier, createdBy, creator, editor, filed, reviewed>>
vars == <<status, tier, createdBy, creator, editor, filed, reviewed,
          reviews, call>>

Tiers    == {"cooperative", "apex", "federation", "ministry"}
Statuses == {"draft", "submitted", "in_review", "approved", "rejected"}
Roles    == {"cooperative", "apex"}

\* Where a request stands: the database call it makes next.
Places == {"idle", "check", "load", "store", "review", "release", "transfer",
           "claim", "set_tier", "take", "hand_back", "delete", "write",
           "verify", "attach", "extract"}

Review == [tier: Tiers, action: {"approve", "return", "reject"}]

Idle == [op |-> "none", user |-> NoUser, at |-> "idle",
         prev |-> "none", seen |-> "none"]

Call == [op: Endpoints \union {"none"}, user: Users \union {NoUser},
         at: Places, prev: Statuses \union {"none"},
         seen: Tiers \union {"none"}]

TypeOK ==
  /\ status \in Statuses \union {"none", "deleted"}
  /\ tier \in Tiers
  /\ createdBy \in Roles
  /\ creator \in Users \union {NoUser}
  /\ editor \in Users \union {NoUser}
  /\ filed \in BOOLEAN
  /\ reviewed \in BOOLEAN
  /\ reviews \subseteq Review
  /\ call \in [Requests -> Call]

Exists == status \in Statuses

-----------------------------------------------------------------------------
(* Initial rows.  The current code never moves a row to the federation; a  *)
(* row it finds there was filed by the older, four-level review.           *)

Init ==
  /\ \/ /\ status = "none"
        /\ tier = "cooperative"
        /\ createdBy = "cooperative"
        /\ creator = NoUser
        /\ filed = FALSE
     \/ /\ LegacyRow
        /\ status = "in_review"
        /\ tier \in {"federation", "ministry"}
        /\ \/ createdBy = "cooperative" /\ creator \in CoopUsers
           \/ createdBy = "apex" /\ creator \in ApexUsers
        /\ filed = TRUE
  /\ editor = NoUser
  /\ reviewed = FALSE
  /\ reviews = {}
  /\ call = [r \in Requests |-> Idle]

-----------------------------------------------------------------------------
(* Rules shared by the handlers.                                           *)

\* The tier a user edits drafts at; reviewers above the apex have none.
CallerTier(u) == IF u \in CoopUsers THEN "cooperative"
                 ELSE IF u \in ApexUsers THEN "apex" ELSE "none"

\* check_editor: the editor holds the draft; an unclaimed one belongs to
\* whoever works at its tier.
HoldsDraft(u) == IF editor # NoUser THEN editor = u
                 ELSE CallerTier(u) \in {tier, "none"}

ApexMaySubmit == createdBy = "apex" \/ tier = "apex"

\* status_change_dates ("returned" is never stored by this code).
Editable == {"draft", "rejected"}
FilesOnlySubmitted(prev, next) == prev \in Editable /\ next = "submitted"
RecordsFiling(prev, next) == prev \in Editable /\ next \notin Editable
RecordsReview(prev, next) == prev \in Editable => next = "approved"

\* What update_status is called with.
NextStatus(op) ==
  CASE op = "submit"                                       -> "submitted"
    [] op \in {"apex_submit", "apex_approve", "ministry_approve"} -> "approved"
    [] op = "federation_approve"                           -> "in_review"
    [] op = "federation_return"                            -> "submitted"
    [] op = "ministry_reject"                              -> "rejected"
    [] OTHER                                               -> "draft"

NextTier(op) ==
  CASE op \in {"submit", "apex_submit", "apex_approve",
               "federation_return"}                        -> "apex"
    [] op \in {"federation_approve", "ministry_approve",
               "ministry_reject"}                          -> "ministry"
    [] op = "apex_return"                                  -> createdBy
    [] OTHER                                               -> "cooperative"

\* The call that follows update_status.
ApexSubmitUnsigned(op) ==
  CASE op \in {"submit", "apex_submit"} -> "release"
    [] op = "federation_return"         -> "hand_back"
    [] op \in {"upload", "validate"}    -> "idle"
    [] OTHER                            -> "review"

AfterStore(op) ==
  CASE op = "submit"                 -> "release"
    [] op = "federation_return"      -> "hand_back"
    [] op \in {"upload", "validate"} -> "idle"
    [] OTHER                         -> "review"

ApexSubmitKeepsPen(op) == IF op = "apex_return" THEN "release" ELSE "idle"

AfterReview(op) == IF op \in {"apex_submit", "apex_return"}
                   THEN "release" ELSE "idle"

\* transition() signs a decision with the tier it read before the update.
UsesTransition == {"apex_approve", "apex_return",
                   "ministry_approve", "ministry_reject"}

Decision(c) ==
  [tier   |-> CASE c.op \in UsesTransition -> c.seen
                [] c.op = "apex_submit"    -> "apex"
                [] OTHER                   -> "federation",
   action |-> CASE c.op \in {"apex_return", "federation_return"} -> "return"
                [] c.op = "ministry_reject" -> "reject"
                [] OTHER                    -> "approve"]

AcceptUnread(r, op, u, place) ==
  /\ op \in Operations
  /\ call[r] = Idle
  /\ call' = [call EXCEPT ![r] = [op |-> op, user |-> u, at |-> place,
                                  prev |-> "none", seen |-> "none"]]
  /\ UNCHANGED <<row, reviews>>

Accept(r, op, u, place) ==
  /\ op \in Operations
  /\ call[r] = Idle
  /\ call' = [call EXCEPT ![r] =
                [op |-> op, user |-> u, at |-> place, prev |-> "none",
                 seen |-> IF op \in UsesTransition THEN tier ELSE "none"]]
  /\ UNCHANGED <<row, reviews>>

\* Go on with the next call; a request that has none left is forgotten.
Goto(r, place) ==
  call' = [call EXCEPT ![r] = IF place = "idle" THEN Idle
                              ELSE [@ EXCEPT !.at = place, !.prev = "none"]]

AtAnyRow(r, place) == call[r].at = place

At(r, place) == call[r].at = place /\ Exists

-----------------------------------------------------------------------------
(* Accepting a request: the first SELECT and the checks made on it.        *)

CreateSubmission(u) ==
  /\ status = "none"
  /\ u \in CoopUsers \union ApexUsers
  /\ status' = "draft"
  /\ tier' = CallerTier(u)
  /\ createdBy' = CallerTier(u)
  /\ creator' = u
  /\ editor' = u
  /\ UNCHANGED <<filed, reviewed, reviews, call>>

SubmitAnyStatus(u) == u \in CoopUsers /\ Exists

SubmitChecks(u) ==
  /\ u \in CoopUsers
  /\ status = "draft"

SubmitSubmission(r, u) == SubmitChecks(u) /\ Accept(r, "submit", u, "load")

\* The handler checks who may submit, the workflow reads the row again.
ApexSubmitChecks(u) ==
  /\ u \in ApexUsers
  /\ Exists
  /\ ApexMaySubmit

ApexSubmitSubmission(r, u) == ApexSubmitChecks(u) /\ Accept(r, "apex_submit", u, "check")

DecisionChecks(u) ==
  /\ u \in ApexUsers
  /\ status = "submitted"

ApexApprove(r, u) == DecisionChecks(u) /\ Accept(r, "apex_approve", u, "load")

ApexReturn(r, u) == DecisionChecks(u) /\ Accept(r, "apex_return", u, "load")

AtFederation == tier = "federation" /\ status \in {"in_review", "submitted"}

FederationApprove(r) ==
  AtFederation /\ Accept(r, "federation_approve", Official, "load")

FederationReturn(r) ==
  AtFederation /\ Accept(r, "federation_return", Official, "load")

MinistryApprove(r) ==
  status = "in_review" /\ Accept(r, "ministry_approve", Official, "load")

MinistryReject(r) ==
  status = "in_review" /\ Accept(r, "ministry_reject", Official, "load")

Unsettled == Exists /\ status \notin {"approved", "rejected"}

DelegateChecks(u) ==
  /\ u \in ApexUsers
  /\ createdBy = "apex"
  /\ Unsettled
  /\ tier = "apex"

DelegateSubmission(r, u) == DelegateChecks(u) /\ Accept(r, "delegate", u, "load")

ReclaimChecks(u) ==
  /\ u \in ApexUsers
  /\ createdBy = "apex"
  /\ Unsettled
  /\ tier = "cooperative"

ReclaimSubmission(r, u) == ReclaimChecks(u) /\ Accept(r, "reclaim", u, "set_tier")

CoopClaimChecks(u) ==
  /\ u \in CoopUsers
  /\ status = "draft"
  /\ tier = "cooperative"

ClaimCooperativeEdit(r, u) == CoopClaimChecks(u) /\ Accept(r, "claim_coop", u, "claim")

ApexClaimChecks(u) ==
  /\ u \in ApexUsers
  /\ status = "draft"

ClaimApexEdit(r, u) == ApexClaimChecks(u) /\ Accept(r, "claim_apex", u, "claim")

DeleteChecks(u) ==
  /\ \/ u \in ApexUsers /\ createdBy = "apex" /\ creator = u
     \/ u \in CoopUsers /\ createdBy # "apex"
  /\ status \in {"draft", "rejected"}

DeleteSubmission(r, u) == DeleteChecks(u) /\ Accept(r, "delete", u, "delete")

\* Section status, submission method and the other writes that ask for a draft.
SaveChecks(u) ==
  /\ u \in CoopUsers \union ApexUsers
  /\ status = "draft"
  /\ HoldsDraft(u)

SaveDraft(r, u) == SaveChecks(u) /\ Accept(r, "save", u, "write")

\* Line items and non-financial records: the editor check only.
EditRecords(r, u) ==
  /\ u \in CoopUsers \union ApexUsers
  /\ Exists
  /\ HoldsDraft(u)
  /\ Accept(r, "edit_records", u, "write")

\* The status is checked on one read, the editor on a second (VerifyEditor).
UploadChecks(u) ==
  /\ u \in CoopUsers \union ApexUsers
  /\ status = "draft"

UploadFinancialStatement(r, u) == UploadChecks(u) /\ Accept(r, "upload", u, "verify")

\* Re-run the extraction on the stored files: every status but approved.
ValidateChecks(u) ==
  /\ u \in CoopUsers \union ApexUsers
  /\ Exists
  /\ status # "approved"

ValidateExtraction(r, u) == ValidateChecks(u) /\ Accept(r, "validate", u, "extract")

-----------------------------------------------------------------------------
(* The calls an accepted request still has to make, one step each.         *)

\* SubmissionWorkflow::submit reads the row again.
CheckDraft(r) ==
  /\ At(r, "check")
  /\ Goto(r, IF status = "draft" THEN "load" ELSE "idle")
  /\ UNCHANGED <<row, reviews>>

\* update_status reads the row, only to see which dates the change records.
LoadStatus(r) ==
  /\ At(r, "load")
  /\ call' = [call EXCEPT ![r].prev = status, ![r].at =
                IF call[r].op = "delegate" THEN "transfer" ELSE "store"]
  /\ UNCHANGED <<row, reviews>>

SetStatusOnly(prev, next, place) ==
  /\ status' = next
  /\ tier' = tier
  /\ filed' = (filed \/ RecordsFiling(prev, next))
  /\ reviewed' = (reviewed \/ RecordsReview(prev, next))

SetStatus(prev, next, place) ==
  /\ status' = next
  /\ tier' = place
  /\ filed' = (filed \/ RecordsFiling(prev, next))
  /\ reviewed' = (reviewed \/ RecordsReview(prev, next))

\* ... and updates status and tier, whatever they have become since the check.
StoreStatus(r) ==
  LET c == call[r] IN
  /\ At(r, "store")
  /\ SetStatus(c.prev, NextStatus(c.op), NextTier(c.op))
  /\ Goto(r, AfterStore(c.op))
  /\ UNCHANGED <<createdBy, creator, editor, reviews>>

AppendReview(r) ==
  /\ At(r, "review")
  /\ reviews' = reviews \union {Decision(call[r])}
  /\ Goto(r, AfterReview(call[r].op))
  /\ UNCHANGED <<row>>

ClearEditedBy(r) ==
  /\ At(r, "release")
  /\ editor' = NoUser
  /\ Goto(r, "idle")
  /\ UNCHANGED <<status, tier, createdBy, creator, filed, reviewed,
                 reviews>>

\* delegate: status, review and editor in one transaction.
TransferToCooperative(r) ==
  /\ At(r, "transfer")
  /\ SetStatus(call[r].prev, "draft", "cooperative")
  /\ reviews' = reviews \union {[tier |-> "apex", action |-> "return"]}
  /\ editor' = NoUser
  /\ Goto(r, "idle")
  /\ UNCHANGED <<createdBy, creator>>

\* UPDATE ... WHERE edited_by IS NULL; a taken row answers Conflict.
ClaimAnyway(r) ==
  /\ At(r, "claim")
  /\ editor' = call[r].user
  /\ Goto(r, "idle")
  /\ UNCHANGED <<status, tier, createdBy, creator, filed, reviewed,
                 reviews>>

ClaimEditedBy(r) ==
  /\ At(r, "claim")
  /\ editor' = IF editor = NoUser THEN call[r].user ELSE editor
  /\ Goto(r, "idle")
  /\ UNCHANGED <<status, tier, createdBy, creator, filed, reviewed,
                 reviews>>

\* reclaim: the tier first, the editor in a second update.
SetCurrentTier(r) ==
  /\ At(r, "set_tier")
  /\ tier' = "apex"
  /\ Goto(r, "take")
  /\ UNCHANGED <<status, createdBy, creator, editor, filed, reviewed,
                 reviews>>

TakeEditedBy(r) ==
  /\ At(r, "take")
  /\ editor' = call[r].user
  /\ Goto(r, "idle")
  /\ UNCHANGED <<status, tier, createdBy, creator, filed, reviewed,
                 reviews>>

\* federation_return makes the creator the editor.
HandBack(r) ==
  /\ At(r, "hand_back")
  /\ editor' = creator
  /\ Goto(r, "review")
  /\ UNCHANGED <<status, tier, createdBy, creator, filed, reviewed,
                 reviews>>

\* The reviews go with the row (foreign key ON DELETE CASCADE).
DeleteRow(r) ==
  /\ At(r, "delete")
  /\ status' = "deleted"
  /\ editor' = NoUser
  /\ reviews' = {}
  /\ Goto(r, "idle")
  /\ UNCHANGED <<tier, createdBy, creator, filed, reviewed>>

WriteData(r) ==
  /\ At(r, "write")
  /\ Goto(r, "idle")
  /\ UNCHANGED <<row, reviews>>

VerifyEditor(r) ==
  /\ At(r, "verify")
  /\ Goto(r, IF HoldsDraft(call[r].user) THEN "attach" ELSE "idle")
  /\ UNCHANGED <<row, reviews>>

\* The upload replaces the statement and spawns the pipeline.
AttachStatement(r) ==
  /\ At(r, "attach")
  /\ Goto(r, "extract")
  /\ UNCHANGED <<row, reviews>>

\* The pipeline has rebuilt the line items; update_status comes next.
ExtractionSucceeds(r) ==
  /\ At(r, "extract")
  /\ Goto(r, "load")
  /\ UNCHANGED <<row, reviews>>

ExtractionFails(r) ==
  /\ At(r, "extract")
  /\ Goto(r, "idle")
  /\ UNCHANGED <<row, reviews>>

\* The row was deleted meanwhile: the next call answers NotFound.
RetryForever(r) ==
  /\ call[r].at # "idle"
  /\ ~Exists
  /\ UNCHANGED vars

RowGone(r) ==
  /\ call[r].at # "idle"
  /\ ~Exists
  /\ Goto(r, "idle")
  /\ UNCHANGED <<row, reviews>>

\* A dropped connection or a crash ends the handler between two calls.
Abort(r) ==
  /\ Abortable
  /\ call[r].at # "idle"
  /\ Goto(r, "idle")
  /\ UNCHANGED <<row, reviews>>

-----------------------------------------------------------------------------

AcceptBy(r, u) ==
  \/ SubmitSubmission(r, u)      \/ ApexSubmitSubmission(r, u)
  \/ ApexApprove(r, u)           \/ ApexReturn(r, u)
  \/ DelegateSubmission(r, u)    \/ ReclaimSubmission(r, u)
  \/ ClaimCooperativeEdit(r, u)  \/ ClaimApexEdit(r, u)
  \/ DeleteSubmission(r, u)      \/ SaveDraft(r, u)
  \/ EditRecords(r, u)           \/ UploadFinancialStatement(r, u)
  \/ ValidateExtraction(r, u)

AcceptFromAbove(r) ==
  \/ FederationApprove(r)  \/ FederationReturn(r)
  \/ MinistryApprove(r)    \/ MinistryReject(r)

\* The calls the server makes on its own once a request is accepted.
Continue(r) ==
  \/ CheckDraft(r)      \/ LoadStatus(r)      \/ StoreStatus(r)
  \/ AppendReview(r)    \/ ClearEditedBy(r)   \/ TransferToCooperative(r)
  \/ ClaimEditedBy(r)   \/ SetCurrentTier(r)  \/ TakeEditedBy(r)
  \/ HandBack(r)        \/ DeleteRow(r)       \/ WriteData(r)
  \/ VerifyEditor(r)    \/ AttachStatement(r) \/ ExtractionSucceeds(r)
  \/ ExtractionFails(r) \/ RowGone(r)

Next ==
  \/ \E u \in Users : CreateSubmission(u)
  \/ \E r \in Requests :
       \/ \E u \in Users : AcceptBy(r, u)
       \/ AcceptFromAbove(r)
       \/ Continue(r)
       \/ Abort(r)

Spec == Init /\ [][Next]_vars

\* The runtime polls every accepted request until it is done; nobody makes
\* a client send one.
FairSpec == Spec /\ \A r \in Requests : WF_vars(Continue(r))

-----------------------------------------------------------------------------
(* What holds however the requests interleave, and wherever they stop.     *)

\* The tier and the status are two columns that every handler sets on its own
\* read of the row, reclaim sets one without the other; still no interleaving
\* leaves a row under review with the cooperative, or one that waits for the
\* apex, or was decided, at a tier that has no say in it.
TierMatchesStatus ==
  Exists => /\ tier = "cooperative" => status = "draft"
            /\ status = "submitted" => tier = "apex"
            /\ status = "rejected" => tier \in {"ministry", "apex"}

\* submitted_at and last_reviewed_at are set by the update that changes the
\* status, judged by a previous status that may be stale by then; still no row
\* under review or approved lacks its filing date, none approved its review date.
DatesMatchStatus ==
  Exists => /\ status \notin Editable => filed
            /\ status = "approved" => reviewed

\* A claim never takes the pen from somebody: a user loses it only when a
\* request that ends or transfers the editing reaches that update.
PenIsHandedOver ==
  [][ editor # NoUser /\ editor' # editor =>
        \E r \in Requests :
          /\ call[r].at \in {"release", "transfer", "take", "hand_back", "delete"}
          /\ call'[r] # call[r] ]_vars

\* A request in flight when the row is deleted never brings it back.
DeletedStays == [][ status = "deleted" => status' = "deleted" ]_vars

\* If no request is cut off, an approval always has its signature: some
\* reviewer's approve entry, or a request about to append one.
ApprovalIsSigned ==
  status = "approved" =>
    \/ \E v \in reviews : v.action = "approve"
    \/ \E r \in Requests : /\ call[r].at = "review"
                           /\ NextStatus(call[r].op) = "approved"

\* Every accepted request ends, whatever the others do to the row meanwhile.
RequestsFinish == \A r \in Requests : call[r].at # "idle" ~> call[r].at = "idle"

-----------------------------------------------------------------------------
(* What holds when requests come one at a time.                            *)

\* The last decision on a submission stays: nothing moves it out of approved.
ApprovedIsFinal == [][ status = "approved" => status' = "approved" ]_vars

\* A submission that left the drafting stage has no editor, once the request
\* that moved it is done.
NoEditorOnceFiled ==
  status \in {"submitted", "approved"} =>
    \/ editor = NoUser
    \/ \E r \in Requests : call[r].at \in {"review", "release"}

\* One request at a time, none cut off and no row of the older review: the
\* handlers do what the lifecycle says, each in one step.  Its operation takes
\* effect with the status; an editor about to be cleared counts as cleared,
\* and a reclaim as done when its second update is.
Releasing(r) == /\ call[r].op \in {"submit", "apex_submit", "apex_return"}
                /\ call[r].at \in {"review", "release"}
Reclaiming(r) == call[r].at = "take"

Phase == IF status = "submitted" THEN "filed" ELSE status
Desk  == IF \E r \in Requests : Reclaiming(r) THEN "cooperative" ELSE tier
Pen   == IF \E r \in Requests : Releasing(r) THEN NoUser ELSE editor

Lifecycle == INSTANCE SubmissionLifecycle WITH
  Nobody <- NoUser, phase <- Phase, desk <- Desk, owner <- createdBy, pen <- Pen

\* The refinement, as a property TLC checks.
ImplementsLifecycle == Lifecycle!Spec

=============================================================================
