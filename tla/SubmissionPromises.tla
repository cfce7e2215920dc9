------------------------- MODULE SubmissionPromises -------------------------
(* Statements that documents and comments of the repository make about a    *)
(* submission, and that SubmissionWorkflow does not keep.                   *)
EXTENDS SubmissionWorkflow

\* r makes its next call in this step.
Makes(r, place) == call[r].at = place /\ call'[r] # call[r]

\* The extraction pipeline never reopens an approved submission.
ExtractionKeepsApproval ==
  [][ \A r \in Requests :
        call[r].op \in {"upload", "validate"} /\ Makes(r, "store") =>
          status # "approved" ]_vars

\* Whoever has the statement's line items rebuilt holds the draft.
ExtractedByHolder ==
  [][ \A r \in Requests :
        Makes(r, "extract") /\ call'[r].at = "load" =>
          HoldsDraft(call[r].user) ]_vars

\* Whoever submits holds the draft.
SubmittedByHolder ==
  [][ \A r \in Requests :
        call[r].op = "submit" /\ Makes(r, "store") =>
          HoldsDraft(call[r].user) ]_vars

=============================================================================
