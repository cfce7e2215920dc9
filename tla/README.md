# CoopData: specifications

CoopData collects the yearly financial and non-financial submissions of cooperatives. A cooperative or the
apex organization above it fills a submission in, the apex reviews it, and reports are made from what was
approved. The system is a Rust/axum server over PostgreSQL (`src/backend`) and a React client that works
offline (`src/frontend`).

This directory holds TLA+ models of that system, TLC configurations that check them on small instances, and
proofs, for every value of the constants, of all the safety properties they check but one. On the server's side they cover the submission row with its review
workflow and exclusive editor, what a draft must hold before it is filed, the creation of submissions and the
rules of a reporting year, the idempotency check, and the jobs that make the report PDFs. On the client's
side: the queue of offline changes, the session, the data hooks with their caches, the submission page, and
the wizard that enters data by hand.

## The system and its parts

| Part | State | Operations | What is hard | What makes it correct | Module |
|---|---|---|---|---|---|
| Submission workflow (`services/submission_workflow.rs`, `api/handlers/submission.rs`, `repositories/submission.rs`) | one `submissions` row: status, tier, dates; `submission_reviews` | create, submit, apex submit, approve, return, reject, delete | no locks and no transactions: each handler reads, checks, then updates by primary key | tier, status and dates agree; an approval is signed and final; a deleted row stays deleted | `SubmissionWorkflow` |
| Exclusive editor (`services/edit_access.rs`) | `edited_by` of the row | claim, delegate, reclaim, release | check and write are separate calls; a reclaim is two updates | a claim takes the pen from nobody | `SubmissionWorkflow` |
| Submission page (`pages/shared/SubmissionDetailPage.tsx`, `lib/submissionAccess.ts`) | copies of the row and of its history | offer, claim on opening, tell of a lost draft | the copy is old; the rules are the server's, written again | what an up-to-date page offers works; somebody can always act | `SubmissionScreen` |
| Uploads and extraction (`api/handlers/upload.rs`, `services/extraction_pipeline.rs`) | files, job rows, line items, flags | upload, validate, pipeline | runs for minutes, then resets the row whatever it became | never reopens an approved submission | `SubmissionWorkflow`, `DraftGates` |
| Data gates (sections, flags, answers, records) | rows per submission | save, upload, delete, change method, mark ready | `submit()` reads marks that other handlers must keep | nothing empty or refused by the detector is filed | `DraftGates` |
| Manual entry (`pages/cooperative/ManualEntryWizard.tsx`) | form, local draft, save under way | type, restore, save, leave | effects in any order; lost answers | what was typed and stored is not lost | `ManualEntry` |
| Creation and reporting years (`repositories/submission.rs`, `services/period_rules.rs`, `services/reporting_year.rs`, `lib/period-rules.ts`, `lib/report-years.ts`) | the year's submissions | create, submit, approve, return, delete, change method | MAX+1 reference; rules written in two languages | the button explains the refusal; both sides agree on a year | `ReportingPeriods`, `Filing` |
| Offline queue and idempotency (`services/shared/syncQueueService.ts`, `api/middleware.rs`) | IndexedDB queue; recorded keys | save, flush, retry, dismiss | tabs flush the same queue; answers are lost; devices are shared | nothing accepted is lost; a recorded request is not applied again | `SyncQueue` |
| Session (`services/shared/authService.ts`, `context/AuthContext.tsx`) | stored and remembered tokens, offline mode | start, restore, refresh, log out | promises over the same variables | one restore counts; a logout is final | `Session` |
| Offline cache and data hooks (`hooks/`, `services/shared/offlineCache.ts`, `offlineSeeder.ts`) | answers in memory and on the device | read, save, invalidate, seed, evict | fetches overlap saves; several people | no fresh answer older than one's own save; nobody else's data | `ClientHooks`, `ClientData` |
| Report jobs (`services/report_jobs.rs`, `repositories/report_export.rs`) | one row per report and language | claim, build, mark ready, invalidate, adopt | takeover after a timeout; invalidation during a build | a ready report shows current data; one owner at a time | `ReportJobs` |
| KPI, indicator and custom KPI engines | KPI rows | compute | decimal arithmetic | | |
| Cache, rate limiter, verification tokens | Redis keys or a local map | get/set, count, take a token | token read and deleted in two calls | a token is used once | |
| Organization hierarchy, Keycloak dual writes | users and organizations, twice | create, delete subtree | fails between the two stores | no user survives on one side only | |
| Audit, consent, labels; exports, benchmarks; other pages | append-only rows; none | write; read | | | |

The client sends every change through the queue (`SyncQueue`), reads through the hooks (`ClientData`), and needs the
session (`Session`) for both; pages and wizard (`SubmissionScreen`, `ManualEntry`) act on the handlers
(`SubmissionWorkflow`, `DraftGates`, `Filing`), whose approvals start the report jobs (`ReportJobs`). The modules
compose where the parts share state: `SubmissionScreen` extends `SubmissionWorkflow` and takes its handlers as they are,
`ManualEntry` extends `DraftGates`, `Filing` uses the rules of `ReportingPeriods`, `ClientData` the declarations of
`ClientHooks`. Elsewhere the neighbour is a few nondeterministic outcomes.

`PROJECT.json` lists the same parts with their source files and what is modelled of each, and the hazards of the
code at the lines where they bite with the properties that cover them. Definitions that no action uses, such as
`ClaimAnyway` or `RevivedNever`, are faulty variants of their neighbour: each property is known to reject one.


## How the submission is modelled

No handler locks the row. A handler SELECTs the submission, checks status, role and tier on what it read, and
later issues UPDATEs by primary key that set only the columns they name. Handlers of other requests run in
between, and so does the background pipeline. `SubmissionWorkflow` therefore has one record `call[r]` per
request in progress, and splits each handler at its database calls:

1. *accept* (`SubmitSubmission`, `ApexApprove`, `DeleteSubmission`, ...): the first SELECT and all checks on it, which for
   the handlers a page calls have a name of their own (`SubmitChecks`, `DecisionChecks`, ...). A request that a check
   refuses changes nothing, so it has no step.
2. *the remaining calls*, one step each, in the order of the code: `call[r].at` names the next one, and
   `Continue(r)` is their disjunction. What the handler still remembers of the row is `seen` (the tier
   `transition()` signs the decision with) and `prev` (the status `update_status_tx` read to decide about dates).

| TLA+ | Code |
|---|---|
| `status`, `tier`, `createdBy`, `creator`, `editor` | the columns `status`, `current_tier`, `created_by_role`, `created_by_user_id`, `edited_by` |
| `filed`, `reviewed` | whether `submitted_at`, `last_reviewed_at` are set |
| `reviews` | the set of (tier, action) in `submission_reviews`, without comments and times |
| `CreateSubmission` | the INSERT of `create_submission`; one row is modelled, so it happens once |
| `SubmitSubmission` → `LoadStatus` → `StoreStatus` → `ClearEditedBy` | `submit_submission`, `SubmissionWorkflow::submit`, `update_status`, `clear_edited_by` |
| `ApexSubmitSubmission` → `CheckDraft` → ... → `AppendReview` → `ClearEditedBy` | `apex_submit_submission`; the workflow reads the row a second time |
| `ApexApprove`, `ApexReturn`, `MinistryApprove`, `MinistryReject` | the handlers and `transition()`: check, update, append review; a return then clears the editor |
| `FederationApprove`, `FederationReturn` | their own functions in the workflow; the return makes the creator the editor |
| `DelegateSubmission` → `TransferToCooperative` | `delegate_submission`: status, review and editor in one transaction |
| `ReclaimSubmission` → `SetCurrentTier` → `TakeEditedBy` | `reclaim_submission`: two updates |
| `ClaimCooperativeEdit`, `ClaimApexEdit` → `ClaimEditedBy` | `UPDATE ... WHERE edited_by IS NULL` |
| `DeleteSubmission` → `DeleteRow` | `delete_submission` |
| `SaveDraft`, `EditRecords` → `WriteData` | section status and method; line items and non-financial records |
| `UploadFinancialStatement` → `VerifyEditor` → `AttachStatement` → `ExtractionSucceeds`/`ExtractionFails` → `LoadStatus` → `StoreStatus` | the upload, and the pipeline it spawns |
| `ValidateExtraction` → the same pipeline | `validate_extraction` |
| `RowGone` | the next call finds no row and answers NotFound |
| `Abort` | the connection drops or the server stops: axum drops the handler's future at an await |

`Init` allows a new submission, and with `LegacyRow` also one in review at the federation or the ministry: the
code no longer sends rows there, and still serves the ones the older four-level review left.

The data itself has no variable here: the gates of `submit()` over flags, sections and records pass or refuse, and a
write is only the step that makes it; `DraftGates` has them. Mails, audit entries, KPI rows, report jobs and the
extraction job rows are left out.

`SubmissionLifecycle` is the abstract specification: one row with a phase, a desk, an owner and a pen, whose
operations are atomic. `SubmissionWorkflow` maps to it with `ImplementsLifecycle` (the operation takes effect
with the status; an editor about to be cleared counts as cleared; a reclaim is done with its second update).
`SubmissionPromises` states what documents and comments say and the code does not do.

## How the report jobs are modelled

Every report exists in several languages. What users see of a language is its row in `report_exports`; the PDF is in
the object store under a key of report and language, the AI texts of all languages are one JSON value elsewhere.
`claim()` is a single upsert, so a row is also the lock of its language. Everything else is a sequence of calls.
`ReportJobs` models one report with AI texts. `task[t]` is a request, the work after an approval or a
spawned job; `task[t].at` names its next call, `task[t].id` is the row id it got from `claim()` (0: no job).

| TLA+ | Code |
|---|---|
| `rows` | `report_exports` of the report: `status`, `id`, and whether `started_at` is past the timeout (`late`) |
| `files`, `texts` | the stored PDFs and AI texts, each as the version of the figures it was made from |
| `data` | the number of approvals that changed the figures |
| `consolidated` | whether the report is an apex, federation or national one; chosen once |
| `Approve` → (`PurgeFiles` → `PurgeRows` → `PurgeTexts` →) `Claim` | `on_submission_approved`, `handle_approval`, `invalidate`, `start` |
| `Prepare` → `Claim` | `prepare`, `start`; the row is read, then claimed |
| `RegenerateNarratives` → `ForgetFiles` → `ForgetRows` → `Generate` → `StoreEnglish` → `Claim` | `regenerate_submission_narratives` |
| `Claim` | the upsert of `claim`: a new UUID, or the id of the row taken over |
| (`ForgetFiles` → `ForgetRows` →) `Load` → `Generate` → `StoreEnglish`, or `Load` → `StoreLocale` | `build`: `forget_translations`, `ensure_english_narratives`, `ensure_translation` |
| `AiFails` | `narratives_are_optional`: a job goes on without texts |
| `Render` → `CheckOwnership` → `StorePdf` | `build`: the print page, `owns`, `storage.store` |
| `MarkReady`; `LookForNewer` → `Discard` | `start`: `mark_ready`, or the removal of a superseded PDF |
| `BuildFails` | an error in `build`, and `mark_failed`, which may fail too |
| `GiveUp` | the database fails where the code only logs or returns |
| `AdoptExistingPdf` → `InsertReady` | `statuses`: PDFs older than the table are recorded as ready |
| `MissPdf` → `DropRow` | `ready_pdf`: the file of a ready row is missing |
| `TimeOut` | `started_at` passes the timeout of `effective_state` and `claim` |
| `Restart` | the process stops and its tasks with it |

Reads that change nothing are no steps. The files of several languages are deleted one by one in the code and in one
step here (no call looks at two of them); a failed `build` and its `mark_failed` are one step. The semaphore
on AI calls is left out, and the questionnaire report with its own text generation. `owed` is a history
variable: the rows have not been deleted since the last approval.


## How the submission page is modelled

`SubmissionScreen` puts a page per user over `SubmissionWorkflow`. `page[u]` holds the copy of the row the page was
drawn from, the newest handover it has read, and the marks of its effects. All requests come from what a page offers.

| TLA+ | Code |
|---|---|
| `page[u].copy`, `.last` | the answers of `useSubmission` and `useSubmissionReviews` |
| `.tried`, `.claiming`, `.lost`, `.asking` | `hasClaimedRef`; its claim on the way; the `EditAccessLostDialog`; the history being fetched again |
| `.drawn` | a history variable: how many reclaims there were when the page was drawn last |
| `Kind` | `submissionAccess` in `lib/submissionAccess.ts` |
| `Offers` and its parts | the conditions of the buttons in `SubmissionDetailPage.tsx` and of the delete button in `SubmissionsPage.tsx` |
| `OpenPage`, `Refetch`, `ReviewsArrive`, `ClosePage`, `DismissLost` | the page and its two queries |
| `Opened`, `Redraw`, `SeesLoss`, `AutoClaim` | the effects of `useSubmissionAccess` and of the automatic claim |
| `Press`, `StartExtraction` → the handler's steps | the buttons, each with its handler of `SubmissionWorkflow` |
| `Passes` | the checks of the button's handler, on the row as it is |
| `ClaimArrives`, `ClaimRefused` | the automatic claim at the server |
| `SaveRefused` | the 409 of a save, `editAccessEvents.ts` |
| `ServerStep` | `Continue`, with the review entry a transfer or a return writes |

Whether the draft's data is complete is left open. The message `INVOLUNTARY` lacks for an apex user whose draft was
handed to the cooperative, and the wording shown to a cooperative whose submission was returned, are outside.

## How the data of a draft is modelled

`DraftGates` has the two parts of a submission, financial and non-financial (members, savings, loans and deposits together),
each with its data, its section's progress, and whether a questionnaire answered it. Every handler is one step.

| TLA+ | Code |
|---|---|
| `store`, `section`, `answered`, `flagged` | line items and records; `submission_sections`; questionnaire responses; critical or high abnormality flags |
| `HasPen`, `Editable` | `ensure_submission_editor`, `check_editor` |
| `Detect` | `AbnormalityDetector::run`: the statements it objects to are the set `Skewed` |
| `SaveManually`, `UpdateLineItems`, `UploadNonFinancial`, `DeletePart`, `SaveAnswers`, `MarkReady` | the handlers that write data or progress |
| `ChangeMethod` | `SubmissionMethodModal`: two deletions that may fail, then the method |
| `Fileable`, `Submit` | the checks of `SubmissionWorkflow::submit`; it asks for neither editor nor pen |
| `Return`, `MovePen` | of the review, what touches the data or the pen |

`ManualEntry` adds the wizard of one user of the cooperative, with his other tabs and the other tier at work on the same draft.

| TLA+ | Code |
|---|---|
| `wizard.grid`, `wizard.is` | the form, and the marks it carries: `open`; `hydrated`, its local draft was looked for; `own` and `served`, the refs `draftAppliedRef`, `userEditedRef` and `serverDataAppliedRef`; `armed`, the debounced save waits |
| `draft`, `queue` | the local draft (`manualEntryDraftService.ts`); the save in the offline queue |
| `OpenWizard`, `Hydrate`, `ServerDataArrives`, `Type`, `StoreDraft`, `Leave`, `DeleteInWizard` | the effects and handlers of `ManualEntryWizard.tsx` |
| `Send`, `SendOffline` → `SaveAccepted`, `SaveRefused`, `SaveUnanswered` | `doSubmitFinancial`, `doSubmitNonFinancial` through `runMutation` |
| `Flush`, `SettleFailed` | `doFlushSyncQueue` for that save; retry or dismissal by the user |
| `AnswersSeen`, `HasData`, `PageRequest` | the questionnaire's local draft, `hasUploadedData`, and what the pages of both tiers send |

`owed` is a history variable: the last typing a draft was stored for, until it is accepted or given up.

## How filing is modelled

`ReportingPeriods` has the rules of a year as operators, once as TypeScript has them (`YearLock`, `CreateBlock`, `ChoiceForYear`,
`YearProgress`, `ReportChoices`) and once as Rust has them (`CheckFrequency`, `CheckPeriodOverlap`, `CheckFiscalStart`,
`LockedMethod`, `ServerYearProgress`, `ReportSubmission`). `Filing` is one cooperative's year: `rows` are its submissions, `req[c]` the
creation of the cooperative or of its apex, split where `create_submission` calls the database: `FindByPeriod`
→ `CheckYear` → `NextReference` → `Insert`, which goes back to `NextReference` on a reference conflict until
`MAX_REFERENCE_RETRIES`. `Elsewhere` draws references for other cooperatives. `Submit`, `Approve`, `Return`, `Delete` and
`UpdateMethod` are the rest of a submission's life, as `SubmissionWorkflow` serializes it. A request may carry any choice, since
a dialog whose list is loading blocks nothing. A list of submissions is a function on positions; filtering it keeps the
positions of what is left, so that "the first" and "the newest" of a filtered list mean what they do in the code.

## How the offline queue is modelled

`SyncQueue` has the queue that the tabs of a browser share, and the server's check of the correlation id.

| TLA+ | Code |
|---|---|
| `queue[i]` | a `SyncQueueItem`: status, retries, and `clock`: whether `nextAttemptAt`, or the two minutes of a send, have passed |
| `call[i]`: `RunMutation` → `MarkSyncing` → `SendFirst` → `FirstAnswered` or `FirstLost` | `runMutation` |
| `Expected` | `correlation.ts`: the id goes on a request only if one registered entry matches it |
| `flush[t]`: `FlushAsk` (→ `FlushGranted`) → `FlushBegin` → (`FlushSend` → `FlushAnswered`, `FlushLost`, or `FlushNoToken`)* → `FlushEnd` | `flushSyncQueue`, `doFlushSyncQueue`, with and without Web Locks |
| `otherTab`, `OtherTabTimeout` | the tabs with `isSyncingInOtherTab` set, and its 30 seconds |
| `RetryItem`, `DismissItem`, `PruneSyncQueue` | the list of sync problems; `pruneSyncQueue` |
| `CloseTab` | a tab closed or crashed anywhere; somebody else may sign in in it |
| `net`, `Abandon` | requests under way, each with the correlation id of its item or without (`id`); a lost one may still be handled |
| `LookUp`, `Handle`, `Refuse`, `StoreKey` | `idempotency_middleware` around a handler |

An `id` is `late` when the request left after the server had recorded it, and `told` is what the user was told: both are history.

## How the session is modelled

`Session` has the steps between two awaits of `doInitKeycloak` (`LoadAtStart` → `InitAnswers` → `RefreshAtStart`), of
`keepRestoringSession` with `restoreOnlineSession` (`attempt[a]` is the stage of each call, `live` the calls whose results are still acted upon: `ProbeAnswered`, `LoadForRestore`,
`RefreshAnswered`, `PersistForRestore`, `Doubt`, `Retry`), of `getAccessToken` (`GetAccessToken` → `RefreshForCall` → `PersistForCall`) and
of `performLogout` with `logout` (`BeginLogout` → `ClearTables` → `ClearCachedTokens` → `Leave`). They share the stored tokens, the
remembered ones (`memory`) and the state of keycloak-js (`kc`: new, initialised, holding tokens). `GoOnline` and `GoOffline` are the browser's events with their
handlers; `EndElsewhere` and `Expire` are Keycloak and the clock. `Reload` and `SignIn` start a new page over the
same storage.

## How the client's data is modelled

`ClientHooks` lists what each data hook declares: 97 queries with key, row on the device and the tables their endpoint
reads; 88 mutations with the tables they change, the keys they invalidate, the rows they rewrite and whether they may wait in the
queue. `ClientData` starts from every pair of a mutation and a query that concern each other, as a record of what matters
between them, and runs one dataset through `useOfflineQuery` (`Open`, `Focus`, `Fetched`, `FromDevice`), `runMutation` (`Keep`, `Refuse`,
`Send` → `Apply` → `Answered`, or `Declined`, `Lost`), the queue in one step (`SyncComplete`), the seeder, the eviction, lost and
regained connections, reloads and another person's sign-in. The invalidation of TanStack Query is modelled as the hooks use it: an
open view drops its fetch and starts another, a first load and the fetch of a closed view go on. `screen` and `fetch` say where their data comes
from (`kind`), `row` who wrote it last (`by`), `outbox` what a kept save still needs. `Unannounced` lists the pairs
in which the mutation changes what the query shows and invalidates nothing of it: after an approval the submission and its
history, after a submit its flags, after an apex's manual statement its list, after a deleted statement its line items, and so
on. They were found by checking and are excepted by name, so that no other can join them unnoticed.



## What the runs check

| Run | Asks | Instance | States |
|---|---|---|---|
| `two_level` | Today's review, two requests interleaved: `TypeOK`; `ApprovalIsSigned`; `PenIsHandedOver`; `RequestsFinish` under fairness | 1 cooperative user, 1 apex user, 2 requests | 117,218 |
| `four_level` | Legacy rows too, requests cut off anywhere: `TierMatchesStatus`, `DatesMatchStatus`, `DeletedStays` | the same, with aborts | 1,070,993 |
| `submission_screen` | Pages drawn from old copies: `SomeoneCanAct`; and what one request at a time keeps: `ImplementsLifecycle`, `ApprovedIsFinal`, `NoEditorOnceFiled` | 2 cooperative users, 1 apex user, 1 request, 2 pages at a time, 1 reclaim, no extractions | 185,317 |
| `draft_handovers` | Drafts that go back and forth, late claims: `OffersAccepted` (what a page offers of the row as it is works), `ReclaimExplained` | the same, 2 reclaims, extractions, nothing filed | 1,321,127 |
| `data_entry` | The wizard beside every other writer of the draft: `StoredDraftSurvives`, `SubmittedIsBacked`, `SubmittedPassedDetector` | 2 typings, 1 content of others | 1,944,810 |
| `filing` | A year filed by a cooperative and its apex: `TypeOK`, `ButtonExplains`, `ProgressMirrored`, `ReportsAgree`, `RetriesSuffice`, `CountedStays` | yearly, half-yearly and monthly choices, 2 rows, 1 rival | 696,860 |
| `sync_queue` | One change, lost answers, crashes and a shared device: `TypeOK`, `NothingLost`, `RetriesRecognised`, `TakenOnce`, `SentByOwner` | 2 tabs, 2 users, 1 retry, 1 fault | 2,124,986 |
| `queue_drains` | `QueueDrains` under fairness | 2 tabs, 1 user | 428,777 |
| `session` | Start-up, network, refreshes, restores, logout: `OneLiveRestore`, `OfflineAttended`, `NoSilentReturn`; `RestoreSettles` under fairness | 2 attempts under way | 98,512 |
| `client_data` | Each related pair of a saving and a reading hook: `NoStaleFresh`, `OwnDataOnly`, `BlockedLeavesNoTrace`; `CopyReplaced` under fairness | 2 versions, 2 users | 1,339,806 |
| `report_jobs` | No job outlasts its timeout: `TypeOK`, `OneJobPerLanguage`, `FreshWhenMarked` | 2 languages, 2 tasks, 2 row ids, 1 approval | 747,813 |
| `report_settles` | Failures and restarts anywhere: `NeverStuck` under fairness | the same without approvals | 93,157 |

Deadlock checking is off: a deleted or approved row with no request sent, a report nobody asks for, an empty queue or a
user who left is where the system may rest.

*Bounds of the submission runs.* `CoopUsers`, `ApexUsers`, `Requests` and `Operations` (which endpoints clients call) are the only ones;
nothing is counted. One row is enough because no handler writes two submissions. Two requests are
enough for every race between a check and an update: an update races with whatever changed the row after the
check, and a request slot is free again when its request ends, so arbitrarily many others pass by while one
waits. One user per role is enough where users only matter through their role and identity; the runs about
holding the draft have two. The safety properties checked here are also proved for any number of users and
requests. Symmetry is used over requests in `four_level`, which has no liveness property.

*Bounds of the page.* One request at a time (`Press` waits for the last one): the races inside the handlers are
`two_level`'s. Two pages may be open at a time (`MaxPages`), followed until the submission is settled. One reclaim (`MaxReclaims`) is enough to lose a
draft; `draft_handovers` has two, since a draft lost a second time meets a history read after the first. `LateClaims = FALSE`
excludes an automatic claim that arrives after the draft was filed; `draft_handovers`, where nothing is filed, and `claimed_late.cfg` allow it. Saves that are accepted change nothing here and take no step. An extraction is started by re-validating, in
`draft_handovers`; an upload ends in the same steps after one more check and is in `two_level` and `delegation_refused.cfg`.

*Bounds of the draft's data.* Two typings tell what was stored from what was typed after; they are symmetric. One content comes
from others, and it is the one the detector objects to. One save of the wizard is under way or queued at a time, as the
button is disabled meanwhile.

*Bounds of a year.* Two rows (`MaxRows`) suffice for every conflict of periods, frequencies and methods between two submissions;
`MaxForeign` rivals draw references against `MaxRetries`. The choices include a period inside another and a fiscal
year that crosses the calendar year.

*Bounds of the client.* One queued change and the one other person who may sign in; two tabs; `MaxRetries`, `MaxFaults` and `MaxOrphans` (requests
still handled after their sender gave up) are one each. The session has at most `MaxAttempts` restores under way.
Two versions tell old data from new.

*Bounds of the report runs.* `Langs` has English and one translated language: the translated ones are treated alike and
do not read each other. `Tasks` are slots that are used again, so any number of jobs and requests pass by one
that waits. `Ids` needs as many ids as a language can have in use at once; an id is free when neither the row nor a task
has it, which no code can tell from a fresh UUID. `MaxApprovals = 1` gives two versions of the figures, enough for
old and new; the proofs have any number. Liveness does not depend on the version, hence 0 in
`report_settles`. `JobsOverrun = FALSE` is an assumption and not a bound: a job takes less time than
`REPORT_JOB_TIMEOUT_SECS` (default 600). Nothing in the code enforces it, and `two_owners.cfg` shows what happens without.

*Fairness.* Nobody is assumed to press a button, and no particular outcome of a call is assumed unless said here.
`SubmissionWorkflow`: the runtime polls every request it has accepted until it returns, and a spawned pipeline likewise
(weak fairness of `Continue(r)`). `ReportJobs`: the same of its tasks, and of `TimeOut`, since time passes. `SyncQueue`: every
request is answered or lost, timers fire (a minute's tick, the backoff, the 30 seconds and two minutes), a flush that
began goes on while its tab lives, and a browser that is always asked to find its connection finds it. `Session`: awaited calls
return, timers fire, and Keycloak asked again and again answers at last (strong fairness: the restore loop has no
end otherwise, by design). `ClientData`: a fetch ends, does not fail for ever while there is a connection, and
the events of the browser (focus, end of a synchronization) are handled.

## What the code does not keep

The following are statements of the repository's documents, comments or tests, or expectations one would have of it, which the models
refute. Each has a configuration in which TLC finds the trace; the ones in `*_disputed.cfg` are enabled one at a
time.

Review and editing:

* `approval_undone.cfg` (`ApprovedIsFinal`): `transition()` checks the status it read, and `update_status` writes by primary key.
  A return that was checked before an approval and stored after it takes the submission back to draft, with both
  decisions signed. `submission_workflow.rs:224` calls approved terminal.
* `approval_reverted.cfg` (`ExtractionKeepsApproval`): `validate_extraction` refuses approved submissions so as not to revert an approval
  (`submission.rs:447`), but the pipeline stores its status minutes later without looking again.
* `extracted_by_other.cfg` (`ExtractedByHolder`): a user of the cooperative who does not hold the draft can have its line items rebuilt;
  `edit_access.rs:5` says every endpoint that writes submission data asks for the editor.
* `submitted_by_other.cfg` (`SubmittedByHolder`): the cooperative can submit the draft its apex created and holds;
  `docs/features/apex-initiated-submissions.md:693` says it can only view it.
* `claimed_late.cfg`: an automatic claim checked on a draft and stored after its filing leaves an editor on a filed
  row, against the comment at `SubmissionDetailPage.tsx:403`.
* `delete_refused.cfg`: the list offers the deletion to users the server refuses (*Only the editor can delete this submission*).
* `delegation_refused.cfg` (`DelegationAccepted`): an upload of the apex takes the draft to the cooperative tier while the apex holds the pen;
  the page then offers a delegation for which `submission.rs:2662` wants the apex tier.
* `reclaim_unnoticed.cfg` (`ReclaimNoticed`): a draft that went to the cooperative and came back to the same editor between two looks of a page
  has the holder the page knows, so the history is not fetched again and the user reads that the draft is *with the apex*, not that it was
  reclaimed (*Ownership moved: reload the history so a reclaim shows who, when and why*, `useSubmissionAccess.ts:51`).
* `waiting_unclaimed.cfg`: a page may say that somebody else works on a draft nobody holds (`submissionAccess.ts:15`).

Data of a draft (`data_entry_disputed.cfg`):

* `NothingUnseenReplaced`: an older local draft is restored over newer data of the server, and saved over it.
* `ClearedWasSent`: what is typed while a save is under way is cleared with the local draft of that save.
* `ReviewedStaysPut`: data of a submission in review changes (`docs/features/non-financial-indicators.md:162`).
* `MethodChangeResets`: `SubmissionMethodModal.tsx:119` and `:126` ignore a deletion that failed and change the method over the old data.
* `FlagsHaveACause`: a deleted statement leaves its flags, which then block `submit()` (`submission_workflow.rs:66`).
* `QuestionnaireAnswered`: answers that exist in this browser only count as the server's (`useQuestionnaire.ts:64`), so an unanswered questionnaire is filed.

Filing (`filing_disputed.cfg`):

* `ReminderAnswerable`: reminders list periods by a third rule (`period-rules.ts:160`, `usePeriodReminders.ts:16`); the server refuses some (`period_rules.rs:148`).
* `OwnYearPresent`: in a year of two frequencies `reporting_year.rs:268` finds no submission to carry the report.
* `OneFrequency`: a year's check and the insertion are separate, so two creations choose two frequencies (`period_rules.rs:196`).
* `OneMethodFiled`: the method is checked when it is changed, not when the return is filed (`:255`).

Client:

* `applied_twice.cfg`: `runMutation` and a flush of the same page may send the same new item at once, and the middleware runs concurrent
  duplicates (`syncQueueService.ts:138` excludes it for tabs only).
* `deadline_missed.cfg`: a request that finds the saved login expired removes the deadline (`authService.ts:689`) that the logout timer reads (`AuthContext.tsx:303`).
* `KeptCopyReplaced` (`client_data_disputed.cfg`): after a reload a copy from the device counts as fresh for its `staleTime`
  although `useOfflineQuery.ts:30` promises a refetch on reconnection.
* `AllBlockedLeaveNoTrace`: three deletions edit their lists before `networkGuard.ts:19` refuses them.
* `FreshIsCurrent`: a first load, or the fetch of a view closed meanwhile, is not restarted by an invalidation and shows its older answer.

`EndedOnlyIfRefused` of `Session` has no configuration: a session whose refresh fails because Keycloak is unreachable, not because it
refuses, may be ended too (`authService.ts:192`).

Report jobs:

* `two_owners.cfg`: the takeover of an overdue row keeps its id, so the slow job still passes `owns()` and `finish()`; the
  comment at `report_export.rs:94` says that it loses the row. It stores its PDF over the new one and marks the new
  job's row.
* `NewerPdfKept` (`report_jobs_disputed.cfg`): between `owns()` and `storage.store` an approval may invalidate the report and a newer job
  store its PDF, which `docs/features/report-export-on-demand.md:118` says is never overwritten.
* `TranslationMatches`: `store_locale` puts a translation next to whatever English text is stored by then, and
  `has_locale` keeps it; the same document promises in line 44 that a stale translation is never served.

Disagreements of the same kind that the models contain and no configuration singles out: a rejected submission is reopened by
a re-extraction (the comment at `submission_workflow.rs:411` lists other ways only); `claim_apex_edit`
does not look at the tier (document on apex-initiated submissions, line 605); a save checked before the draft changed
hands is still written (line 77); a delete checked on a draft removes a row submitted meanwhile (the error text at
`submission.rs:1939`); any user of the cooperative deletes its drafts, not only the creator (line 436). Of the reports:
when the AI fails, a translated PDF is made with the English texts; a second approval of a submission whose job is
still running starts no new one, so the PDF of the older figures becomes ready (only consolidated reports lose
their rows first); a superseded job may delete the file a newer one has just stored, and `ready_pdf` the row of a
job claimed meanwhile. Of the hooks: the pairs of `Unannounced`.


## What is proved

The proofs need the two named assumptions of `SubmissionWorkflow`: the user sets are disjoint and `NoUser` and
`Official` lie outside (`UsersAssumption`), and the parameters have their types (`ParametersAssumption`).

`SubmissionWorkflowProofs`, for any users, any number of requests, legacy rows and aborts:

* `Invariance`: the inductive invariant is `IInv = TypeOK /\ CallsOK /\ TierMatchesStatus /\ DatesMatchStatus`.
  Alone, `TierMatchesStatus` and `DatesMatchStatus` are not inductive: a `store` step uses a `prev` that was read
  earlier. `CallsOK` says what remains true of such a memory: if it is a status past drafting, the filing date
  was set then, and dates are never cleared; and a request that will sign a decision has seen a tier.
  One lemma treats all accept steps (they only fill a request's record) and one step each of the calls.
* `TypeCorrect`, `TierAlwaysMatches`, `DatesAlwaysMatch` follow from it.
* `DeletedForGood`, `PenOnlyHandedOver`: action properties, by cases on the step. The second needs the small
  invariant that a row not yet inserted has no editor.
* `ApprovalAlwaysSigned`: an invariant of its own, assuming `Abortable = FALSE`. With aborts it is false: the status is
  stored before the review is appended.

Its second part is about a server that works on one request at a time, without aborts and legacy rows (`OneAtATime`):

* `SerialImplementsLifecycle`: `Spec => ImplementsLifecycle`. `SerialInv` adds to `IInv` that whatever the request in
  progress has checked is still so (`CallFits`), which is exactly what interleaving breaks. Each step keeps it and
  is either a step of the lifecycle or leaves the mapped variables alone.
* `SerialApprovalIsFinal` and `SerialNoEditorOnceFiled` follow. Together with `approval_undone.cfg` they show that
  the missing piece is serialization of the requests on a row, and nothing else in the handlers' logic.

`SubmissionScreenProofs`, for any users, pages, requests and reclaims (`ScreenAssumption`: the two bounds are numbers):

* `PagesRefineWorkflow`: `ScreenSpec => Spec`. A page sends only what the workflow accepts, and all else it does leaves the
  server alone, so that every theorem above holds of the pages too; `PagesKeepLifecycle` says so of those about one request at a time.
* `SomeoneCanAlwaysAct`, of `Spec` with aborts and of `ScreenSpec`, for requests that interleave, if both tiers have users and there is no legacy
  row (a row at the federation is nobody's here). `TwoLevelInv` adds to `IInv` that no request of the older review is under way, so
  that a draft is at the cooperative or the apex, and its editor works at one of them.
* `OffersAreAccepted`, for the requests of the pages, interleaved and late. The invariant it needs is `CoopDraftStays`: what the cooperative began stays at its tier until it is filed,
  and no apex user is its editor, is about to be, or has a page that claims it. The server alone does not see to that,
  since `claim_apex_edit` looks at no tier: it is the page that claims nothing but what is at its own. Without
  it `apex_submit` would be offered to an editor from whom `apex_may_submit` refuses it.
* `ReclaimsExplained`, one request at a time. `Explained` says, of drafts never filed, what the tier tells of the newest handover
  (`HandoverFits`) and what a page has read or asked for (`PageFits`). In an earlier form, without `drawn`, the property
  held for one reclaim and not for two, which `reclaim_unnoticed.cfg` shows.
* `ScreenTypeCorrect`: copies and marks of every page, and the server's row.

`ReportJobsProofs`, for any languages, tasks, row ids and number of approvals, from the four assumptions named in
`ReportJobs` (English is a language, ids are positive numbers, the other two parameters have their types):

* `TypeCorrect`, by cases on requests, calls, time and restart.
* `OneJobAlways`, assuming `JobsOverrun = FALSE`. `OneJobPerLanguage` looks at jobs whose row is being prepared, which
  says nothing of a job whose row somebody else marked or timed out. The inductive invariant is `TypeOK /\ Alone /\ Held`:
  an id belongs to one job, and a row that is some running job's is in preparation and in time, so a claim
  cannot take it over.
* `FreshAlways`, without that assumption. `FreshWhenMarked` is about one step; the invariant behind it,
  `Rendered`, says that after the deletion of the rows a job that has the row and a rendered PDF rendered the figures of
  now: a job from before has no row left, and every later row has an id no job had.

Both invariants are kept by one lemma for the steps that claim nothing (`Quiet`: jobs end or go on, a row stays, is
nobody's or was finished by its job, a PDF is of now or was there) and one each for claims and timeouts.

`SessionProofs`, for any number of overlapping attempts to restore a session (`SessionAssumption`: at least one):

* `SessionInvariant`: `SessionInv` adds to the types and `OneLiveRestore` what a page that is starting has not done yet
  (`StartsClean`), what needs `keycloak.init` (`InitComesFirst`), when an attempt that signs in finds the page signed in already
  (`SignedInByAnother`), who keeps the page attended (`LiveWorks`, `Watched`) and what a logout leaves (`NothingLeft`).
* `RestoresOneAtATime`, `OfflineModeAttended` and `LogoutIsFinal` follow. `OfflineAttended` alone is not inductive: a cancelled
  attempt is under way too, and ends without a successor. A live one sets its timer, and one that writes its tokens ends the
  offline mode. `NoSilentReturn` speaks of a page that signs in; before that no token may be stored, remembered or on its way.

`SyncQueueProofs`, for any tabs, people, saves, retries, orphans and crashes, with and without Web Locks (`SyncQueueAssumption`: the
bounds are numbers, the names of tabs, people and saves differ):

* `SyncInvariant`: `SyncInv` adds to the types and `NothingLost` that items and flushes belong to the person signed in (`ItemsOwned`,
  `TodoOwned`), that each request under way is the one its sender waits for (`Awaited`), that every success the server, a
  request or an item remembers happened (`Remembered`), that the item of a call under way is gone only when it was dropped
  or done (`CallKept`), and that with locks one tab at most is in a flush (`OneFlush`).
* `QueueTyped` and `ChangesSurvive` are parts of it. `LateRetriesAnswered`: what `Remembered` says of a late request. `FlushesDisjoint`:
  `TakenOnce` looks at items, `OneFlush` at whole flushes, since a tab may begin while another has nothing left to send.
  `SentWithOwnToken` is about the step `FlushSend`, and needs `TodoOwned` because the profile was read before.

`ManualEntryProofs`, for any users, contents, typings, objections of the detector and methods (`ContentsAssumption`: no content is the
empty one and the detector objects to contents; `EntryAssumption`: the wizard's user is a user and types contents):

* `EntryInvariant`: `EntryInv` is `GatesInv`, about the draft at the server, and `ClientInv`, about the wizard. `GatesInv` adds to
  `SubmittedIsBacked` that a statement the detector objects to is flagged. `ClientInv` adds to `StoredDraftSurvives` what keeps the
  debounced save from storing an older form over the typing (`FormCarries`, with `Settled`, `Untouched` and `QueuedFull`): a form that
  shows the server's data owes nothing that is not queued, and neither does an untouched one.
* `TypingSurvives`, `FiledIsBacked` and, for the step that files, `FiledPassedDetector`.

`ClientDataProofs`, for any people and any number of saves (`BoundsAssumption`, `UsersAssumption`):

* `DataInvariant`: `DataInv` adds to the types and `OwnDataOnly` that a save and a waiting one exclude each other (`OneSave`), that nobody has
  seen what the server has not (`Past`), that only datasets with a row on the device have one (`RowDeclared`), and that a fetch under way or
  an answer in memory is as new as the last answered save, stale, or known to be late (`FetchCurrent`, `AnswerCurrent`).
* `FreshAfterSave` follows: `NoStaleFresh` looks at open views only, and an answer becomes wrong while none is open, or before its fetch
  ends. `OnlyOwnData` is a part of the invariant.
* The hooks' tables enter through `HooksAssumption`: onSuccess of a mutation reaches the queries it changes, except those of
  `Unannounced`, and what the seeder or a fallback serves has a row on the device. It is a fact about the 185 hooks and no
  hypothesis about the world; TLC evaluates it on every run of `client_data`, where a hook that forgets a key makes it false.

`FilingProofs`, for any clients, periods, methods, retries and bounds (`FilingAssumption`: the bounds are numbers and the periods are those of
the four frequencies):

* `FilingInvariant`: `FilingInv` adds to `TypeOK`, which has the two unique keys, the forms of rows and requests, and `Overtaken`: a creation has
  at least as many rivals as retries, and one more when the reference it holds is taken. `RetriesSuffice` alone is not inductive, since it speaks
  of creations that have given up. `TypeCorrect` and `RetriesEnough` follow.
* `DialogExplains`: an invariant about the operators rather than the steps. `DialogMatchesServer` shows, for any coherent list, that each clause of
  `CreateBlock` is the negation of one check of the server, or implied by others.
* `ClientMirrors`: in a coherent list a period has at most one row, so both sides put it in the same state (`SameState`); their counts are
  those of two sets with a bijection between them (`SameCount`); and a complete year is one full-year return or one return each
  period, so that the client's last period and the server's last new one name the same submission (`SameAnchor`).
* `CountedForGood`: an action property. A complete coherent year has nothing but approved returns (`CompleteYear`), which no handler returns, deletes or
  gives another method, and no period is left that a new row could have without overlap (`CompleteFull`).
* `ReportsAlwaysAgree`: the client drops single returns from its list before it looks for a year's report, and the server counts the
  submission asked for as approved at the end of its own list. `Periodic` and `Moved` say what either leaves of a coherent list: the periods, their states but
  that one, and which row comes last in the year; the rest is `ClientMirrors`.
* These four, like the properties, are about coherent years; two creations that are checked together may leave another
  (`filing_disputed.cfg`).

Only model-checked, and why:

* `RequestsFinish`, `NeverStuck`, `RestoreSettles`, `QueueDrains`, `CopyReplaced`: liveness under fairness is beyond the prover.
* `BlockedLeavesNoTrace` is a fact of the hooks' tables rather than of the steps: it compares named entries of 88 mutations, which TLC
  enumerates and a proof would only repeat.


## Plan

Next, in this order:

1. `submit()`'s reads of flags, answers and sections interleaved with the writers of the data, call by call: a
   composition of `SubmissionWorkflow` and `DraftGates` with a few calls each.
2. Verification tokens and the rate limiter, together with whatever else comes to share Redis.

## Not modelled, and why

* *Submission workflow*: KPI rows written by a submit; job rows of the extraction, OCR and model calls. The mailer, the
  object store and Keycloak are external.
* *Submission page*: the contents of its tabs; two pages of one user; the texts of the dialogs.
* *Data of a draft*: members, savings, loans and deposits are one part; every handler is one step; the single-record endpoints and
  the upload of a single section write what the others write. The method `digital` of farmers' cooperatives has the gates of
  `manual`. A detector that fails after the statement is committed; statements of zeros only. The wizard's connection is a
  free choice at every save. Decisions of the reviewers other than a return are in `SubmissionWorkflow`.
* *Filing*: references of a deleted highest row are used again; a draft that the apex created offline is shown
  under another identifier; a period written "1-12".
* *Offline queue*: one endpoint and independent items; the server forgets a correlation id after 24 hours; a cache that cannot be
  read lets a retry through; a request refused for its pen while an earlier copy of it is being applied.
* *Session*: the server's validation of a token is sequential.
* *Client data*: changes of other people; a fetch that is cancelled but still stores its answer; prefix fallbacks that
  serve the data of another filter; a refetch that overwrites the row of a change that is still queued; rows of refused changes;
  drafts cleared by a logout.
* *Report jobs*: the questionnaire report generates its texts by a function of its own that
  never fails the job; its jobs are otherwise those of `ReportJobs`. The semaphore on AI calls.
* *KPI and indicator engines, custom formulas, benchmarks, exports*: sequential computations and formatting over decimals.
* *Organizations and Keycloak*: a deletion is one transaction and then calls that may be repeated; the state that
  could differ is Keycloak's.
* *Audit, consent, labels*: single independent writes.
* *Other pages and components of the client*: presentation of what the hooks of `ClientHooks` serve.
