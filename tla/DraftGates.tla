----------------------------- MODULE DraftGates -----------------------------
(***************************************************************************)
(* What a draft must hold before it can be filed.  A submission has a      *)
(* financial part (the statement with its line items) and a non-financial  *)
(* part (members, savings, loans and fixed deposits, entered together); a  *)
(* part is reported by data or by the answers to a questionnaire.  Every   *)
(* write keeps the section's progress, the statement's error flags or      *)
(* both, and the filing of the draft reads them.                           *)
(*                                                                         *)
(* Who holds the draft is SubmissionWorkflow's matter: here one of the two *)
(* tiers has the pen, and gets or loses it by delegation and reclaim.      *)
(***************************************************************************)
CONSTANTS
  Contents,  \* what a part may hold, one value per way of filling it
  NoData,    \* a part that holds nothing
  Skewed,    \* the statements the abnormality detector objects to
  Methods    \* the methods the cooperative's type allows

ASSUME ContentsAssumption ==
  /\ NoData \notin Contents
  /\ Skewed \subseteq Contents
  /\ Methods \subseteq {"upload", "manual", "questionnaire"}

VARIABLES
  status,    \* of the submission
  holder,    \* the tier that has the pen of the draft
  method,    \* submission_method
  store,     \* what each part holds
  section,   \* the progress of each part's sections
  answered,  \* the parts with a stored questionnaire response
  flagged    \* critical or high flags are stored for the submission

draftVars == <<status, holder, method, store, section, answered, flagged>>

Users == {"cooperative", "apex"}
Parts == {"financial", "non_financial"}
Data  == Contents \union {NoData}

GatesTypeOK ==
  /\ status \in {"draft", "submitted", "approved"}
  /\ holder \in Users
  /\ method \in Methods \union {"none"}
  /\ store \in [Parts -> Data]
  /\ section \in [Parts -> {"pending", "in_progress", "ready"}]
  /\ answered \subseteq Parts
  /\ flagged \in BOOLEAN

GatesInit ==
  /\ status = "draft"
  /\ holder \in Users
  /\ method = "none"
  /\ store = [p \in Parts |-> NoData]
  /\ section = [p \in Parts |-> "pending"]
  /\ answered = {}
  /\ flagged = FALSE

-----------------------------------------------------------------------------

\* ensure_submission_editor: a filed submission is unclaimed and at the apex.
HasPen(u) == IF status = "draft" THEN holder = u ELSE u = "apex"

Editable(u) == status = "draft" /\ HasPen(u)

FlagsKept(t) == UNCHANGED flagged

\* AbnormalityDetector::run deletes the flags and writes the new ones.
Detect(t) == flagged' = (t \in Skewed)

Progress(p, s) == section' = [section EXCEPT ![p] = s]

\* One transaction replaces the part; the detector and the progress follow it.
SaveManually(u, p, t) ==
  /\ Editable(u)
  /\ store' = [store EXCEPT ![p] = t]
  /\ IF p = "financial" THEN Detect(t) /\ Progress(p, "in_progress")
     ELSE UNCHANGED flagged /\ Progress(p, "ready")
  /\ UNCHANGED <<status, holder, method, answered>>

\* The statement editor; nothing asks whether the submission is still a draft,
\* and the section keeps its progress.
UpdateLineItems(u, t) ==
  /\ HasPen(u)
  /\ store["financial"] \notin {NoData, t}
  /\ store' = [store EXCEPT !["financial"] = t]
  /\ Detect(t)
  /\ UNCHANGED <<status, holder, method, section, answered>>

\* A combined workbook; nothing asks whether the submission is still a draft.
UploadNonFinancial(u, t) ==
  /\ HasPen(u)
  /\ method = "upload"
  /\ store' = [store EXCEPT !["non_financial"] = t]
  /\ Progress("non_financial", "in_progress")
  /\ UNCHANGED <<status, holder, method, answered, flagged>>

\* Deleting a statement leaves its flags and the section's progress.
Emptied(parts) ==
  /\ store' = [p \in Parts |-> IF p \in parts THEN NoData ELSE store[p]]
  /\ section' = IF "non_financial" \in parts
                THEN [section EXCEPT !["non_financial"] = "pending"] ELSE section

DeleteAnytime(u, p) ==
  /\ HasPen(u)
  /\ p = "financial" => store[p] # NoData
  /\ Emptied({p})
  /\ UNCHANGED <<status, holder, method, answered, flagged>>

DeletePart(u, p) ==
  /\ Editable(u)
  /\ p = "financial" => store[p] # NoData
  /\ Emptied({p})
  /\ UNCHANGED <<status, holder, method, answered, flagged>>

SaveAnswers(u, p) ==
  /\ Editable(u)
  /\ answered' = answered \union {p}
  /\ Progress(p, "ready")
  /\ UNCHANGED <<status, holder, method, store, flagged>>

\* The method modal deletes the old data by two requests whose failures it
\* swallows, then changes the method.  What was answered stays.
ChangeMethod(u, m, gone) ==
  /\ Editable(u)
  /\ m \in Methods \ {method}
  /\ gone \subseteq {p \in Parts : store[p] # NoData}
  /\ method = "none" => gone = {}
  /\ Emptied(gone)
  /\ method' = m
  /\ UNCHANGED <<status, holder, answered, flagged>>

MarkReady(u, p) ==
  /\ Editable(u)
  /\ section[p] # "ready"
  /\ Progress(p, "ready")
  /\ UNCHANGED <<status, holder, method, store, answered, flagged>>

Backed(p) == store[p] # NoData \/ p \in answered

Fileable ==
  /\ ~flagged
  /\ \A p \in Parts : section[p] = "ready" \/ p \in answered
  /\ method # "questionnaire" => \A p \in Parts : Backed(p)

\* The apex is the last tier: what it files is approved.  The page offers it to
\* the draft's editor; the server asks for neither the editor nor the pen.
Submit(u) ==
  /\ status = "draft"
  /\ Fileable
  /\ status' = IF u = "apex" THEN "approved" ELSE "submitted"
  /\ UNCHANGED <<holder, method, store, section, answered, flagged>>

\* Of the review, only the return touches the data: the draft goes back to the tier
\* that made it, the statement to be looked at again.
Return ==
  /\ status = "submitted"
  /\ status' = "draft"
  /\ holder' \in Users
  /\ Progress("financial", "in_progress")
  /\ UNCHANGED <<method, store, answered, flagged>>

\* A delegation or a reclaim.
MovePen ==
  /\ status = "draft"
  /\ holder' \in Users \ {holder}
  /\ UNCHANGED <<status, method, store, section, answered, flagged>>

-----------------------------------------------------------------------------

\* A filed submission is never empty: as long as it is submitted or approved,
\* each part has data or answers behind it, whatever late requests of other tabs
\* still arrive and whatever the drafts of both tiers went through before.
SubmittedIsBacked ==
  status # "draft" /\ method # "questionnaire" => \A p \in Parts : Backed(p)

\* No statement the detector objects to is filed: the flags the filing reads are
\* those of the statement as it is, through every way of changing it.
SubmittedPassedDetector ==
  [][status = "draft" /\ status' # "draft"
       => store["financial"] \notin Skewed]_draftVars

\* "when the submission is in review tiers, the form becomes read-only": what was
\* filed is what the reviewers see, until it is returned.
ReviewedStaysPut == [][status # "draft" => store' = store]_draftVars

\* "error-severity validation flag(s) must be resolved": flags that block a draft
\* are those of a statement somebody can resolve them in.
FlagsHaveACause == status = "draft" /\ flagged => store["financial"] # NoData

\* "changing submission methods will reset previous entries."
MethodChangeResets ==
  [][method # "none" /\ method' # method
       => \A p \in Parts : store'[p] = NoData]_draftVars

\* "Only the final "Complete" action persists answers to the server": a filed
\* questionnaire has its answers at the server.
QuestionnaireAnswered ==
  status # "draft" /\ method = "questionnaire"
    => \A p \in Parts : Backed(p)

=============================================================================
