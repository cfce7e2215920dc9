------------------------ MODULE MCSubmissionWorkflow ------------------------
(* Instances of SubmissionWorkflow for TLC.                                *)
EXTENDS SubmissionPromises, TLC

CONSTANTS c1, c2, a1, r1, r2   \* users and request slots, as model values

\* The review of today, between the cooperative and its apex.
TwoLevelReview ==
  {"submit", "apex_submit", "apex_approve", "apex_return", "delegate",
   "reclaim", "claim_coop", "claim_apex", "delete", "save", "edit_records",
   "upload", "validate"}

\* What can reach a row the older, four-level review left behind, and the
\* calls that take it back to drafting.
LegacyReview ==
  {"federation_approve", "federation_return", "ministry_approve",
   "ministry_reject", "apex_approve", "apex_return", "submit", "apex_submit",
   "reclaim", "validate", "delete"}

\* Small menus for the runs that look for one interleaving.
Decide     == {"submit", "apex_approve", "apex_return"}
Extraction == {"submit", "apex_approve", "upload", "validate"}

Symmetry == Permutations(Requests)

=============================================================================
