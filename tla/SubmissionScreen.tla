-------------------------- MODULE SubmissionScreen --------------------------
(***************************************************************************)
(* The submission page of the cooperative and of the apex, over the review *)
(* workflow of the server.  A page draws its buttons from a copy of the    *)
(* row and of the review history, fetched at some earlier time, and the    *)
(* server judges the request by the row as it is when it arrives.  Here    *)
(* the users act through their pages only, so the requests the server      *)
(* sees are the ones a page really offers.                                 *)
(*                                                                         *)
(* Whether the data of the draft is complete is left open: a page whose    *)
(* user may submit shows the button, in some step, with the data ready.    *)
(***************************************************************************)
EXTENDS SubmissionWorkflow, Naturals, FiniteSets

CONSTANTS
  LateClaims,   \* TRUE: other requests may overtake an automatic claim
  MaxReclaims,  \* bound on the reclaims of a behaviour
  MaxPages      \* bound on the pages open at the same time

ASSUME ScreenAssumption == LateClaims \in BOOLEAN /\ MaxReclaims \in Nat /\ MaxPages \in Nat

VARIABLES
  handover,   \* the newest delegation or reclaim in the review history
  reclaims,   \* how many reclaims were asked for
  page        \* what each user's open page shows

screenVars == <<vars, handover, reclaims, page>>

Drafters  == CoopUsers \union ApexUsers
Handovers == {"none", "delegated", "reclaimed"}
Kinds == {"editing", "waiting", "colleague", "reclaimed", "withApex",
          "withCooperative", "none"}

Copy == [status: Statuses \union {"none"}, tier: Tiers, createdBy: Roles,
         editor: Users \union {NoUser}]

Page == [open: BOOLEAN, copy: Copy, last: Handovers,
         asking: BOOLEAN,   \* the review history is being fetched again
         tried: BOOLEAN,    \* hasClaimedRef: the one automatic claim is used up
         claiming: BOOLEAN, \* that claim is on its way
         lost: BOOLEAN,     \* the "you can no longer edit" dialog is shown
         drawn: 0 .. MaxReclaims]  \* history variable: reclaims, when it was drawn

Current == [status |-> status, tier |-> tier, createdBy |-> createdBy,
            editor |-> editor]

NoPage == [open |-> FALSE,
           copy |-> [status |-> "none", tier |-> "cooperative",
                     createdBy |-> "cooperative", editor |-> NoUser],
           last |-> "none", asking |-> FALSE, tried |-> FALSE,
           claiming |-> FALSE, lost |-> FALSE, drawn |-> 0]

ScreenTypeOK ==
  /\ TypeOK
  /\ handover \in Handovers
  /\ reclaims \in 0 .. MaxReclaims
  /\ page \in [Drafters -> Page]

ScreenInit ==
  /\ Init
  /\ handover = "none"
  /\ reclaims = 0
  /\ page = [u \in Drafters |-> NoPage]

-----------------------------------------------------------------------------
(* What the page tells from its copy.                                      *)

\* submissionAccess: who holds the draft, seen from this user.
Kind(u, p) ==
  LET c == p.copy IN
  IF c.status # "draft" THEN "none"
  ELSE CASE c.editor = u -> "editing"
         [] c.editor # u /\ c.tier = CallerTier(u) ->
              IF c.editor = NoUser THEN "waiting" ELSE "colleague"
         [] c.editor # u /\ CallerTier(u) = "cooperative" /\ c.tier = "apex" ->
              IF p.last = "reclaimed" THEN "reclaimed" ELSE "withApex"
         [] c.editor # u /\ CallerTier(u) = "apex" /\ c.tier = "cooperative" ->
              "withCooperative"
         [] OTHER -> "none"

EditableKinds    == {"editing", "waiting"}
InvoluntaryKinds == {"reclaimed", "withApex", "colleague"}

Holder(c) == <<c.tier, c.editor>>

UnclaimedUnseen(u, c) == FALSE

\* isDelegatedToMe: unclaimed, at the user's own tier.
UnclaimedForMe(u, c) ==
  c.status = "draft" /\ c.editor = NoUser /\ c.tier = CallerTier(u)

IsEditor(u, c) ==
  c.status = "draft" /\ (c.editor = u \/ UnclaimedForMe(u, c))

\* The buttons of the page that write data, file or review the submission.
OffersToHolder(u, c) ==
  IF ~IsEditor(u, c) THEN {}
  ELSE {"save", IF u \in ApexUsers THEN "apex_submit" ELSE "submit"}

OffersToReviewer(u, c) ==
  IF u \in ApexUsers /\ c.status = "submitted" /\ c.tier = "apex"
  THEN {"apex_approve", "apex_return"} ELSE {}

ReclaimOfAnyDraft(u, c) ==
  u \in ApexUsers /\ c.status \notin {"approved", "rejected"}
  /\ c.tier = "cooperative" /\ c.editor # u

MayReclaim(u, c) ==
  u \in ApexUsers /\ c.status \notin {"approved", "rejected"}
  /\ c.tier = "cooperative" /\ c.createdBy = "apex" /\ c.editor # u

MayDelegate(u, c) ==
  u \in ApexUsers /\ c.status = "draft" /\ c.createdBy = "apex" /\ c.editor = u

\* Deleting: from the page by the editor, from the list by the creating role.
DeleteOnPage(u, c) == IsEditor(u, c) /\ c.status # "approved"
DeleteInList(u, c) == CallerTier(u) = c.createdBy /\ c.status # "approved"

Offers(u, c) ==
  OffersToHolder(u, c) \union OffersToReviewer(u, c)
    \union {op \in {"reclaim"}  : MayReclaim(u, c)}
    \union {op \in {"delegate"} : MayDelegate(u, c)}
    \union {op \in {"delete"}   : DeleteOnPage(u, c) \/ DeleteInList(u, c)}

\* The operations after which the page goes back to the list.
Leaves == {"submit", "apex_submit", "apex_approve", "apex_return", "delete"}

-----------------------------------------------------------------------------
(* Drawing a new copy: the effects that run after it.                      *)

\* Noticing that somebody else took the draft.
SeesLoss(u, before, after) ==
  Kind(u, before) \in EditableKinds /\ Kind(u, after) \in InvoluntaryKinds

\* The automatic claim: once per page, spent by the first unclaimed draft.
AutoClaim(u, p) ==
  IF p.copy.status = "draft" /\ p.copy.editor = NoUser /\ ~p.tried
  THEN [p EXCEPT !.tried = TRUE,
                 !.claiming = (p.claiming \/ p.copy.tier = CallerTier(u))]
  ELSE p

ForgetsHistory(u, p) ==
  LET q == [p EXCEPT !.copy = Current, !.drawn = reclaims] IN
  AutoClaim(u, [q EXCEPT !.lost = (p.lost \/ SeesLoss(u, p, q))])

\* A new copy whose holder moved makes the page fetch the history again; only
\* the cooperative's view of a draft reads it.
Redraw(u, p) ==
  LET q == [p EXCEPT !.copy = Current, !.drawn = reclaims] IN
  AutoClaim(u, [q EXCEPT
    !.asking = (p.asking \/ (/\ u \in CoopUsers
                             /\ Holder(Current) # Holder(p.copy))),
    !.lost   = (p.lost \/ SeesLoss(u, p, q))])

Opened(u, p) ==
  AutoClaim(u, [p EXCEPT !.open = TRUE, !.copy = Current, !.drawn = reclaims,
                         !.last = IF u \in CoopUsers THEN handover ELSE "none"])

OpenPage(u) ==
  /\ ~page[u].open
  /\ Cardinality({v \in Drafters : page[v].open}) < MaxPages
  /\ page' = [page EXCEPT ![u] = Opened(u, page[u])]
  /\ UNCHANGED <<vars, handover, reclaims>>

Refetch(u) ==
  /\ page[u].open
  /\ page[u].copy # Current
  /\ page' = [page EXCEPT ![u] = Redraw(u, page[u])]
  /\ UNCHANGED <<vars, handover, reclaims>>

ReviewsArrive(u) ==
  /\ page[u].asking
  /\ page' = [page EXCEPT ![u].last = handover, ![u].asking = FALSE]
  /\ UNCHANGED <<vars, handover, reclaims>>

\* A claim on its way outlives the page.
Closed(p) == [NoPage EXCEPT !.claiming = p.claiming]

ClosePage(u) ==
  /\ page[u].open
  /\ page' = [page EXCEPT ![u] = Closed(page[u])]
  /\ UNCHANGED <<vars, handover, reclaims>>

DismissLost(u) ==
  /\ page[u].lost
  /\ page' = [page EXCEPT ![u].lost = FALSE]
  /\ UNCHANGED <<vars, handover, reclaims>>

-----------------------------------------------------------------------------
(* Requests from the pages.                                                *)

Handler(op, r, u) ==
  CASE op = "submit"       -> SubmitSubmission(r, u)
    [] op = "apex_submit"  -> ApexSubmitSubmission(r, u)
    [] op = "apex_approve" -> ApexApprove(r, u)
    [] op = "apex_return"  -> ApexReturn(r, u)
    [] op = "delegate"     -> DelegateSubmission(r, u)
    [] op = "reclaim"      -> ReclaimSubmission(r, u)
    [] op = "claim_coop"   -> ClaimCooperativeEdit(r, u)
    [] op = "claim_apex"   -> ClaimApexEdit(r, u)
    [] op = "delete"       -> DeleteSubmission(r, u)
    [] op = "save"         -> SaveDraft(r, u)
    [] op = "upload"       -> UploadFinancialStatement(r, u)
    [] op = "validate"     -> ValidateExtraction(r, u)

\* What the handler asks of the row before it accepts the request.
Passes(op, u) ==
  CASE op = "submit"       -> SubmitChecks(u)
    [] op = "apex_submit"  -> ApexSubmitChecks(u)
    [] op = "apex_approve" -> DecisionChecks(u)
    [] op = "apex_return"  -> DecisionChecks(u)
    [] op = "delegate"     -> DelegateChecks(u)
    [] op = "reclaim"      -> ReclaimChecks(u)
    [] op = "claim_coop"   -> CoopClaimChecks(u)
    [] op = "claim_apex"   -> ApexClaimChecks(u)
    [] op = "delete"       -> DeleteChecks(u)
    [] op = "save"         -> SaveChecks(u)

\* The review of a reclaim is written before the row changes hands.
RecordsReclaim(op) ==
  /\ op = "reclaim" => reclaims < MaxReclaims
  /\ reclaims' = IF op = "reclaim" THEN reclaims + 1 ELSE reclaims
  /\ handover' = IF op = "reclaim" THEN "reclaimed" ELSE handover

Accepted(r, u, op) ==
  /\ Handler(op, r, u)
  /\ RecordsReclaim(op)

Create(u) ==
  /\ CreateSubmission(u)
  /\ UNCHANGED <<handover, reclaims, page>>

\* A save the server accepts changes nothing a page shows: it takes no step.
Press(r, u, op) ==
  /\ page[u].open
  /\ op \in Offers(u, page[u].copy) \ {"save"}
  /\ LateClaims \/ \A v \in Drafters : ~page[v].claiming
  /\ Accepted(r, u, op)
  /\ page' = IF op \in Leaves THEN [page EXCEPT ![u] = Closed(page[u])]
              ELSE page

\* A refused save tells who holds the draft now (409 not_editor).
SaveRefused(u) ==
  /\ page[u].open
  /\ "save" \in Offers(u, page[u].copy)
  /\ status = "draft" /\ ~HoldsDraft(u)
  /\ page' = [page EXCEPT ![u] = [Redraw(u, page[u]) EXCEPT !.lost = TRUE]]
  /\ UNCHANGED <<vars, handover, reclaims>>

\* The holder of a draft drops a file on the page, or re-validates the extraction.
StartExtraction(r, u, op) ==
  /\ op \in {"upload", "validate"}
  /\ page[u].open
  /\ IsEditor(u, page[u].copy)
  /\ Accepted(r, u, op)
  /\ UNCHANGED page

ClaimOp(u) == IF u \in ApexUsers THEN "claim_apex" ELSE "claim_coop"

ClaimArrives(r, u) ==
  /\ page[u].claiming
  /\ Accepted(r, u, ClaimOp(u))
  /\ page' = [page EXCEPT ![u].claiming = FALSE]

ClaimRefused(r, u) ==
  /\ page[u].claiming
  /\ call[r] = Idle
  /\ ~Passes(ClaimOp(u), u)
  /\ page' = [page EXCEPT ![u].claiming = FALSE]
  /\ UNCHANGED <<vars, handover, reclaims>>

\* The server goes on; a transfer and a return write the review they sign.
ServerStep(r) ==
  /\ Continue(r)
  /\ handover' =
       IF \/ call[r].at = "transfer" /\ call'[r] = Idle /\ Exists
          \/ /\ call[r].at = "review" /\ call[r].op = "apex_return"
             /\ Exists /\ createdBy = "cooperative"
       THEN "delegated" ELSE handover
  /\ UNCHANGED <<reclaims, page>>

\* The pages are followed until the submission is settled or deleted.
ScreenNext ==
  \/ \E u \in Drafters :
       \/ Create(u)
       \/ /\ Unsettled
          /\ \/ OpenPage(u) \/ Refetch(u) \/ ReviewsArrive(u)
             \/ ClosePage(u) \/ DismissLost(u) \/ SaveRefused(u)
  \/ \E r \in Requests, u \in Drafters :
       \/ \E op \in Operations : Press(r, u, op) \/ StartExtraction(r, u, op)
       \/ ClaimArrives(r, u) \/ ClaimRefused(r, u)
  \/ \E r \in Requests : ServerStep(r)

ScreenSpec == ScreenInit /\ [][ScreenNext]_screenVars

-----------------------------------------------------------------------------

Quiet == \A r \in Requests : call[r] = Idle

\* The buttons whose two rules differ: a deletion (DeleteAccepted), and the delegation
\* of a draft that its own upload took to the other tier (DelegationAccepted).
Disputed(c) == {"delete"} \union {op \in {"delegate"} : c.tier = "cooperative"}

\* A button of an up-to-date page works, whatever else is under way: what the page
\* offers from the row as it is, the handler's checks let through.  The two rules
\* are written in different languages and by different conditions.
OffersAccepted ==
  Exists =>
    \A u \in Drafters : \A op \in Offers(u, Current) \ Disputed(Current) : Passes(op, u)

\* Nobody is left without a button: whatever the users did to a submission that
\* is not settled, and whatever is still under way, somebody who opens it now can
\* file or review it.
SomeoneCanAct ==
  Unsettled =>
    \E u \in Drafters :
      Offers(u, Current) \intersect {"submit", "apex_submit", "apex_approve"} # {}

\* A cooperative user whose dialog says that the apex has the draft is told that it
\* was reclaimed: the history fetched again once the holder was seen to move has the
\* reclaim already, whichever answer is first.  Of a draft never filed, on a page
\* that is up to date and was redrawn since the last reclaim.
ReclaimExplained ==
  ~filed => \A u \in CoopUsers :
    /\ page[u].lost /\ ~page[u].asking
    /\ page[u].copy = Current /\ page[u].drawn = reclaims
    => Kind(u, page[u]) # "withApex"

\* "Ownership moved: reload the history so a reclaim shows who, when and why": not
\* so if it moved to the cooperative and back before the page looked again.
ReclaimNoticed ==
  ~filed => \A u \in CoopUsers :
    page[u].lost /\ ~page[u].asking /\ page[u].copy = Current
      => Kind(u, page[u]) # "withApex"

\* "STRICT: cooperative can ONLY claim if current_tier === 'cooperative'.  apex can
\* ONLY claim if current_tier === 'apex'": a claim gives nobody the pen of a draft
\* that has moved on to the other tier.
ClaimsAtOwnTier ==
  [][ \A r \in Requests, u \in Drafters :
        call[r].at = "claim" /\ editor # u /\ editor' = u
          => tier = CallerTier(u) ]_screenVars

\* "Unclaimed at the user's tier; it is claimed automatically on opening."
WaitingIsClaimed ==
  \A u \in Drafters :
    page[u].open /\ Kind(u, page[u]) = "waiting" /\ page[u].copy = Current
      /\ Quiet => page[u].claiming

\* "Only the editor can delete this submission": the editor, and the list, are
\* offered a deletion the server accepts.
DeleteAccepted ==
  Exists =>
    \A u \in Drafters : DeleteOnPage(u, Current) => Passes("delete", u)

\* The delegation the page offers is one the server accepts: not so, the page does not
\* ask whether the draft is at the apex.
DelegationAccepted ==
  Exists =>
    \A u \in ApexUsers : MayDelegate(u, Current) => Passes("delegate", u)

=============================================================================
