------------------------- MODULE MCSubmissionScreen -------------------------
(* Instances of SubmissionScreen for TLC.                                  *)
EXTENDS SubmissionScreen, TLC

CONSTANTS c1, c2, a1, a2, r1   \* users and the request slot, as model values

\* What a page can ask for, without extractions and with uploads.
PageRequests ==
  {"submit", "apex_submit", "apex_approve", "apex_return", "delegate",
   "reclaim", "claim_coop", "claim_apex", "delete", "save"}
WithUploads == PageRequests \union {"upload"}
\* What moves a draft between the tiers and back, or takes its pen.
BackAndForth ==
  {"delegate", "reclaim", "claim_coop", "claim_apex", "save", "validate"}

\* The users of a tier are alike.
Alike == Permutations(CoopUsers) \union Permutations(ApexUsers)

=============================================================================
