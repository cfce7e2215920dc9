----------------------------- MODULE ReportJobs -----------------------------
(***************************************************************************)
(* The PDFs of one report, one background job per language.                *)
(*                                                                         *)
(* A row of report_exports per language records the state every user sees  *)
(* and is the lock that keeps one job per language.  The PDFs are in a     *)
(* store of their own, the AI texts in a third place; nothing ties the     *)
(* three together but the order of the calls.  A task is a request, the    *)
(* work after an approval, or the job either of them started; it makes one *)
(* call per step.  Requests that are refused or only read have no step.    *)
(*                                                                         *)
(* The figures of the report are a version number that approvals raise; a  *)
(* text, and a PDF, is the version of what it was made from.               *)
(*                                                                         *)
(* Some definitions are preceded by a variant that no action uses: the     *)
(* same definition with a plausible fault, which a property must reject.   *)
(***************************************************************************)
EXTENDS Naturals

CONSTANTS
  Langs,         \* the languages a report is made in
  English,       \* the one the others are translated from
  Tasks,         \* slots for requests and jobs in progress
  Ids,           \* row ids of a language; the least unused is a new UUID
  MaxApprovals,  \* bound on the approvals that change the report
  JobsOverrun    \* TRUE: a job may still be running when its timeout passes

ASSUME LangsAssumption == English \in Langs
ASSUME IdsAssumption == Ids \subseteq Nat \ {0}
ASSUME MaxApprovalsAssumption == MaxApprovals \in Nat
ASSUME OverrunAssumption == JobsOverrun \in BOOLEAN

NoRow  == [status |-> "none", id |-> 0, late |-> FALSE]
Absent == MaxApprovals + 1    \* no such text or PDF

VARIABLES
  consolidated,  \* of an apex, a federation or the nation; not of a submission
  data,          \* approvals that have changed the figures
  rows,          \* report_exports, by language
  files,         \* stored PDFs, by language: the figures they show
  texts,         \* stored AI texts, by language: the figures the English one is about
  task,          \* what the tasks are doing
  owed           \* history: no rows were deleted since the last approval

vars == <<consolidated, data, rows, files, texts, task, owed>>

Versions == 0 .. MaxApprovals

\* late: the row's job started longer than the timeout ago.
Row == [status: {"preparing", "ready", "failed"}, id: Ids, late: BOOLEAN]

\* Where a task stands: the call it makes next.
Building == {"forget_files", "forget_rows", "load", "generate",
             "store_english", "reload", "translate", "render", "check", "store"}
Finishing == {"mark", "exists", "discard"}
Places == Building \union Finishing \union
          {"idle", "claim", "purge_files", "purge_rows", "purge_texts",
           "adopt", "drop"}

Idle == [at |-> "idle", lang |-> English, fresh |-> FALSE, id |-> 0,
         text |-> Absent, pdf |-> Absent]

Task == [at: Places, lang: Langs, fresh: BOOLEAN, id: Ids \union {0},
         text: Versions \union {Absent}, pdf: Versions \union {Absent}]

TypeOK ==
  /\ consolidated \in BOOLEAN
  /\ data \in Versions
  /\ rows \in [Langs -> Row \union {NoRow}]
  /\ files \in [Langs -> Versions \union {Absent}]
  /\ texts \in [Langs -> Versions \union {Absent}]
  /\ task \in [Tasks -> Task]
  /\ owed \in BOOLEAN

Init ==
  /\ consolidated \in BOOLEAN
  /\ data = 0
  /\ rows = [l \in Langs |-> NoRow]
  /\ files = [l \in Langs |-> Absent]
  /\ texts = [l \in Langs |-> Absent]
  /\ task = [t \in Tasks |-> Idle]
  /\ owed = FALSE

-----------------------------------------------------------------------------

\* effective_state: what users are shown of a language.
ShownAsStored(l) == rows[l].status

Shown(l) == IF rows[l].status = "preparing" /\ rows[l].late
            THEN "failed" ELSE rows[l].status

\* owns: the row of the job exists and is being prepared.
Owns(t) == LET row == rows[task[t].lang] IN
           row.id = task[t].id /\ row.status = "preparing"

\* Go on with the next call, remembering no more than it needs.
Goto(t, place) ==
  task' = [task EXCEPT ![t] =
             IF place = "idle" THEN Idle
             ELSE [task[t] EXCEPT
                     !.at = place, !.text = Absent,
                     !.pdf = IF place \in {"store", "mark"} THEN task[t].pdf
                             ELSE Absent]]

Begin(t, place, l, fresh) ==
  /\ task[t] = Idle
  /\ task' = [task EXCEPT ![t] =
                [Idle EXCEPT !.at = place, !.lang = l, !.fresh = fresh]]

Translations == Langs \ {English}

Forget(langs, none, f) == [l \in Langs |-> IF l \in langs THEN none ELSE f[l]]

-----------------------------------------------------------------------------
(* Requests, and the work an approval starts.                              *)

\* on_submission_approved: the approval is stored, its report work spawned.
Approve(t) ==
  /\ data < MaxApprovals
  /\ data' = data + 1
  /\ IF consolidated THEN Begin(t, "purge_files", English, TRUE)
                     ELSE Begin(t, "claim", English, TRUE)
  /\ owed' = TRUE
  /\ UNCHANGED <<consolidated, rows, files, texts>>

\* Another language is translated from English, which must be ready first;
\* regenerate applies to English only.
Prepare(t, l, regenerate) ==
  /\ l # English => Shown(English) = "ready"
  /\ Begin(t, "claim", l, regenerate /\ l = English)
  /\ UNCHANGED <<consolidated, data, rows, files, texts, owed>>

\* A manual request of the ministry: new English text, then a new PDF.
RegenerateNarratives(t) ==
  /\ ~consolidated
  /\ Begin(t, "forget_files", English, FALSE)
  /\ UNCHANGED <<consolidated, data, rows, files, texts, owed>>

\* statuses() takes a report without rows to be older than the table.
AdoptExistingPdf(t, l) ==
  /\ \A k \in Langs : rows[k] = NoRow
  /\ files[l] # Absent
  /\ Begin(t, "adopt", l, FALSE)
  /\ UNCHANGED <<consolidated, data, rows, files, texts, owed>>

\* ready_pdf finds no file for a ready row and will forget the row.
MissPdf(t, l) ==
  /\ rows[l].status = "ready"
  /\ files[l] = Absent
  /\ Begin(t, "drop", l, FALSE)
  /\ UNCHANGED <<consolidated, data, rows, files, texts, owed>>

-----------------------------------------------------------------------------
(* The calls of a task.                                                    *)

\* invalidate, one call after the other.
DropFile(langs) == files' = Forget(langs, Absent, files)

PurgeFiles(t) ==
  /\ task[t].at = "purge_files"
  /\ DropFile(Langs)
  /\ Goto(t, "purge_rows")
  /\ UNCHANGED <<consolidated, data, rows, texts, owed>>

BlankRows(langs) ==
  rows' = [l \in Langs |-> IF l \in langs THEN [rows[l] EXCEPT !.status = "none"]
                           ELSE rows[l]]

DeleteRows(langs) == rows' = Forget(langs, NoRow, rows)

PurgeRows(t) ==
  /\ task[t].at = "purge_rows"
  /\ DeleteRows(Langs)
  /\ Goto(t, "purge_texts")
  /\ owed' = FALSE
  /\ UNCHANGED <<consolidated, data, files, texts>>

PurgeTexts(t) ==
  /\ task[t].at = "purge_texts"
  /\ texts' = Forget(Langs, Absent, texts)
  /\ Goto(t, "claim")
  /\ UNCHANGED <<consolidated, data, rows, files, owed>>

Unused(i, l) == /\ rows[l].id # i
                /\ \A t \in Tasks : task[t].lang = l => task[t].id # i

\* The id an upsert returns: a new one, or that of the row that is there.
UpsertIds(l) ==
  IF rows[l] # NoRow THEN {rows[l].id}
  ELSE {i \in Ids : Unused(i, l) /\ \A j \in Ids : Unused(j, l) => i <= j}

ClaimableAlways(l) == TRUE

Claimable(l) == rows[l].status # "preparing" \/ rows[l].late

\* English starts over with regenerate, and always for a consolidated report.
FirstCall(t) == IF task[t].lang = English /\ (task[t].fresh \/ consolidated)
                THEN "forget_files" ELSE "load"

\* One statement: insert the row, or take it over unless it is being prepared
\* by a job that has not timed out.
Claim(t) ==
  LET l == task[t].lang IN
  /\ task[t].at = "claim"
  /\ \/ /\ Claimable(l)
        /\ \E i \in UpsertIds(l) :
             /\ rows' = [rows EXCEPT ![l] =
                           [status |-> "preparing", id |-> i, late |-> FALSE]]
             /\ task' = [task EXCEPT ![t] =
                           [Idle EXCEPT !.at = FirstCall(t), !.lang = l, !.id = i]]
     \/ ~Claimable(l) /\ Goto(t, "idle") /\ UNCHANGED rows
  /\ UNCHANGED <<consolidated, data, files, texts, owed>>

\* forget_translations
ForgetFiles(t) ==
  /\ task[t].at = "forget_files"
  /\ DropFile(Translations)
  /\ Goto(t, "forget_rows")
  /\ UNCHANGED <<consolidated, data, rows, texts, owed>>

ForgetRows(t) ==
  /\ task[t].at = "forget_rows"
  /\ DeleteRows(Translations)
  /\ Goto(t, "generate")
  /\ UNCHANGED <<consolidated, data, files, texts, owed>>

\* The texts already stored decide what the AI still has to write; having
\* written the English one it must be there.
Load(t) ==
  LET l == task[t].lang IN
  /\ \/ /\ task[t].at = "load" /\ texts[English] = Absent
        /\ Goto(t, "generate")
     \/ /\ task[t].at \in {"load", "reload"} /\ texts[English] # Absent
        /\ IF texts[l] # Absent THEN Goto(t, "render")
           ELSE task' = [task EXCEPT ![t].at = "translate",
                                     ![t].text = texts[English]]
  /\ UNCHANGED <<consolidated, data, rows, files, texts, owed>>

\* The AI is asked about the figures of now.
Generate(t) ==
  /\ task[t].at = "generate"
  /\ task' = [task EXCEPT ![t].at = "store_english", ![t].text = data]
  /\ UNCHANGED <<consolidated, data, rows, files, texts, owed>>

StoreEnglish(t) ==
  /\ task[t].at = "store_english"
  /\ texts' = [l \in Langs |-> IF l = English THEN task[t].text ELSE Absent]
  /\ Goto(t, CASE task[t].id = 0          -> "claim"
               [] task[t].lang = English  -> "render"
               [] OTHER                   -> "reload")
  /\ UNCHANGED <<consolidated, data, rows, files, owed>>

\* store_locale needs an English text to put the translation next to.
StoreLocale(t) ==
  /\ task[t].at = "translate"
  /\ texts[English] # Absent
  /\ texts' = [texts EXCEPT ![task[t].lang] = task[t].text]
  /\ Goto(t, "render")
  /\ UNCHANGED <<consolidated, data, rows, files, owed>>

\* The AI is optional: without it a job goes on, the manual request ends.
AiFails(t) ==
  /\ task[t].at \in {"store_english", "translate"}
  /\ Goto(t, IF task[t].id = 0 THEN "idle" ELSE "render")
  /\ UNCHANGED <<consolidated, data, rows, files, texts, owed>>

\* The print page shows the figures of the moment.
Render(t) ==
  /\ task[t].at = "render"
  /\ task' = [task EXCEPT ![t].at = "check", ![t].pdf = data]
  /\ UNCHANGED <<consolidated, data, rows, files, texts, owed>>

\* A job that lost its row stores nothing: it was superseded.
CheckOwnership(t) ==
  /\ task[t].at = "check"
  /\ Goto(t, IF Owns(t) THEN "store" ELSE "idle")
  /\ UNCHANGED <<consolidated, data, rows, files, texts, owed>>

StorePdf(t) ==
  /\ task[t].at = "store"
  /\ files' = [files EXCEPT ![task[t].lang] = task[t].pdf]
  /\ Goto(t, "mark")
  /\ UNCHANGED <<consolidated, data, rows, texts, owed>>

\* finish: an UPDATE of the job's own row, if it is still being prepared.
FinishByLanguage(t, status) ==
  IF rows[task[t].lang].status = "preparing"
  THEN rows' = [rows EXCEPT ![task[t].lang].status = status]
  ELSE UNCHANGED rows

Finish(t, status) ==
  IF Owns(t) THEN rows' = [rows EXCEPT ![task[t].lang].status = status]
             ELSE UNCHANGED rows

MarkReady(t) ==
  /\ task[t].at = "mark"
  /\ Finish(t, "ready")
  /\ Goto(t, IF Owns(t) THEN "idle" ELSE "exists")
  /\ UNCHANGED <<consolidated, data, files, texts, owed>>

\* The report was invalidated: a newer job, if there is one, has this file.
LookForNewer(t) ==
  /\ task[t].at = "exists"
  /\ Goto(t, IF rows[task[t].lang] = NoRow THEN "discard" ELSE "idle")
  /\ UNCHANGED <<consolidated, data, rows, files, texts, owed>>

Discard(t) ==
  /\ task[t].at = "discard"
  /\ DropFile({task[t].lang})
  /\ Goto(t, "idle")
  /\ UNCHANGED <<consolidated, data, rows, texts, owed>>

\* Any call of the build may fail, and the one that records it as well.
BuildFails(t) ==
  /\ task[t].at \in Building
  /\ Finish(t, "failed") \/ UNCHANGED rows
  /\ Goto(t, "idle")
  /\ UNCHANGED <<consolidated, data, files, texts, owed>>

\* The database fails where nothing more is done about it.
GiveUp(t) ==
  /\ task[t].at \in Finishing \union {"purge_files", "purge_rows", "purge_texts",
                                    "claim", "adopt", "drop"}
  /\ Goto(t, "idle")
  /\ UNCHANGED <<consolidated, data, rows, files, texts, owed>>

\* INSERT ... ON CONFLICT DO NOTHING
InsertReady(t) ==
  LET l == task[t].lang IN
  /\ task[t].at = "adopt"
  /\ \/ /\ rows[l] = NoRow
        /\ \E i \in UpsertIds(l) :
             rows' = [rows EXCEPT ![l] = [status |-> "ready", id |-> i, late |-> FALSE]]
     \/ rows[l] # NoRow /\ UNCHANGED rows
  /\ Goto(t, "idle")
  /\ UNCHANGED <<consolidated, data, files, texts, owed>>

DropRow(t) ==
  /\ task[t].at = "drop"
  /\ DeleteRows({task[t].lang})
  /\ Goto(t, "idle")
  /\ UNCHANGED <<consolidated, data, files, texts, owed>>

-----------------------------------------------------------------------------

\* A job that has not ended.
Active(t) == task[t].id # 0

\* The timeout passes for a row whose job is lost, or only slow.
TimeOut(l) ==
  /\ rows[l].status = "preparing"
  /\ ~rows[l].late
  /\ JobsOverrun \/ \A t \in Tasks : task[t].lang = l => task[t].id # rows[l].id
  /\ rows' = [rows EXCEPT ![l].late = TRUE]
  /\ UNCHANGED <<consolidated, data, files, texts, task, owed>>

\* The process stops: everything it was doing is lost.
Restart ==
  /\ \E t \in Tasks : task[t] # Idle
  /\ task' = [t \in Tasks |-> Idle]
  /\ UNCHANGED <<consolidated, data, rows, files, texts, owed>>

Request(t) ==
  \/ Approve(t)
  \/ \E l \in Langs : \/ \E regenerate \in BOOLEAN : Prepare(t, l, regenerate)
                      \/ AdoptExistingPdf(t, l)
                      \/ MissPdf(t, l)
  \/ RegenerateNarratives(t)

Continue(t) ==
  \/ PurgeFiles(t)    \/ PurgeRows(t)       \/ PurgeTexts(t)  \/ Claim(t)
  \/ ForgetFiles(t)   \/ ForgetRows(t)      \/ Load(t)        \/ Generate(t)
  \/ StoreEnglish(t)  \/ StoreLocale(t)     \/ AiFails(t)     \/ Render(t)
  \/ CheckOwnership(t) \/ StorePdf(t)       \/ BuildFails(t)  \/ MarkReady(t)
  \/ LookForNewer(t)  \/ Discard(t)         \/ GiveUp(t)      \/ InsertReady(t)
  \/ DropRow(t)

Next ==
  \/ \E t \in Tasks : Request(t) \/ Continue(t)
  \/ \E l \in Langs : TimeOut(l)
  \/ Restart

Spec == Init /\ [][Next]_vars

\* The runtime polls every task until it ends, and time passes; nobody has
\* to ask for a report.
FairSpec == /\ Spec
            /\ \A t \in Tasks : WF_vars(Continue(t))
            /\ \A l \in Langs : WF_vars(TimeOut(l))

-----------------------------------------------------------------------------
(* What holds when no job outlasts its timeout.                            *)

\* The row is a lock: however jobs are claimed, invalidated, dropped, lost and
\* claimed again, at most one running job owns a language.
OneJobPerLanguage ==
  \A t, u \in Tasks :
    (/\ Active(t) /\ Owns(t)
     /\ Active(u) /\ Owns(u)
     /\ task[t].lang = task[u].lang) => t = u

\* t makes its language ready in this step.
MakesReady(t) ==
  LET l == task[t].lang IN
  /\ task[t].at = "mark" /\ task'[t] # task[t]
  /\ rows[l].status = "preparing" /\ rows'[l].status = "ready"

\* Once the rows are deleted after the last approval, whatever job still makes
\* a language of a consolidated report ready has rendered the figures of now,
\* not those it was started for.
FreshWhenMarked ==
  [][ \A t \in Tasks :
        consolidated /\ ~owed /\ MakesReady(t) => task[t].pdf = data ]_vars

\* No language is shown as being prepared for ever, not even when its job was
\* lost with the process.
NeverStuck == \A l \in Langs : Shown(l) = "preparing" ~> Shown(l) # "preparing"

-----------------------------------------------------------------------------
(* What documents and comments say, and the calls do not ensure.           *)

\* A job that was overtaken never overwrites the newer PDF.
NewerPdfKept ==
  [][ \A t \in Tasks :
        (task[t].at = "store" /\ task'[t].at = "mark"
           /\ files[task[t].lang] # Absent)
        => files[task[t].lang] <= task[t].pdf ]_vars

\* A stale translation is never served: when both are ready, it is one of the
\* English text of now.
TranslationMatches ==
  \A l \in Langs :
    (rows[l].status = "ready" /\ texts[l] # Absent
       /\ rows[English].status = "ready") => texts[l] = texts[English]

=============================================================================
