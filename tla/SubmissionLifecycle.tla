------------------------ MODULE SubmissionLifecycle -------------------------
(***************************************************************************)
(* What the two-level review promises for one submission: a draft has at   *)
(* most one holder, a filed submission has none, an approval is final, and *)
(* every operation happens at once.                                        *)
(***************************************************************************)

CONSTANTS CoopUsers, ApexUsers, Nobody

VARIABLES
  phase,   \* "none", "draft", "filed", "approved" or "deleted"
  desk,    \* whose turn it is: "cooperative" or "apex"
  owner,   \* the role that opened it
  pen      \* the user who edits it, or Nobody

vars == <<phase, desk, owner, pen>>

DeskOf(u) == IF u \in CoopUsers THEN "cooperative" ELSE "apex"

Init == phase = "none" /\ desk = "cooperative" /\ owner = "cooperative" /\ pen = Nobody

Open(u) ==
  /\ phase = "none"
  /\ phase' = "draft" /\ pen' = u
  /\ desk' = DeskOf(u) /\ owner' = DeskOf(u)

\* The cooperative files its draft for the apex to review.
File ==
  /\ phase = "draft"
  /\ phase' = "filed" /\ desk' = "apex" /\ pen' = Nobody
  /\ UNCHANGED owner

\* The apex is the last level: filing its own draft approves it.
Settle ==
  /\ phase = "draft"
  /\ owner = "apex" \/ desk = "apex"
  /\ phase' = "approved" /\ desk' = "apex" /\ pen' = Nobody
  /\ UNCHANGED owner

Approve ==
  /\ phase = "filed"
  /\ phase' = "approved"
  /\ UNCHANGED <<desk, owner, pen>>

GiveBack ==
  /\ phase = "filed"
  /\ phase' = "draft" /\ desk' = owner /\ pen' = Nobody
  /\ UNCHANGED owner

Delegate ==
  /\ phase \in {"draft", "filed"}
  /\ owner = "apex" /\ desk = "apex"
  /\ phase' = "draft" /\ desk' = "cooperative" /\ pen' = Nobody
  /\ UNCHANGED owner

Reclaim(u) ==
  /\ phase = "draft"
  /\ owner = "apex" /\ desk = "cooperative"
  /\ desk' = "apex" /\ pen' = u
  /\ UNCHANGED <<phase, owner>>

Claim(u) ==
  /\ phase = "draft"
  /\ pen = Nobody
  /\ u \in CoopUsers => desk = "cooperative"
  /\ pen' = u
  /\ UNCHANGED <<phase, desk, owner>>

\* An extraction reopens the submission at the cooperative; the pen stays.
Extract ==
  /\ phase \in {"draft", "filed"}
  /\ phase' = "draft" /\ desk' = "cooperative"
  /\ UNCHANGED <<owner, pen>>

Discard ==
  /\ phase = "draft"
  /\ phase' = "deleted" /\ pen' = Nobody
  /\ UNCHANGED <<desk, owner>>

Next ==
  \/ \E u \in CoopUsers \union ApexUsers : Open(u) \/ Claim(u)
  \/ \E u \in ApexUsers : Reclaim(u)
  \/ File \/ Settle \/ Approve \/ GiveBack \/ Delegate \/ Extract \/ Discard

Spec == Init /\ [][Next]_vars

=============================================================================
