-------------------------- MODULE ReportJobsProofs --------------------------
(* What holds of the jobs of a report for any languages, any number of      *)
(* tasks and approvals.                                                     *)
EXTENDS ReportJobs, TLAPS

USE DEF Idle, NoRow

-----------------------------------------------------------------------------
(* What the helpers do to the record of a task.                            *)

\* Whatever Begin or Goto makes of a task is a task again, and only theirs.
LEMMA GotoType ==
  ASSUME TypeOK, NEW t \in Tasks, NEW place \in Places, Goto(t, place)
  PROVE  /\ task' \in [Tasks -> Task]
         /\ \A u \in Tasks \ {t} : task'[u] = task[u]
         /\ place = "idle" => task'[t].id = 0
         /\ place # "idle" => /\ task'[t].at = place
                              /\ task'[t].id = task[t].id
                              /\ task'[t].lang = task[t].lang
         /\ place \in {"store", "mark"} => task'[t].pdf = task[t].pdf
<1>1. Idle \in Task
  BY LangsAssumption DEF Task, Places
<1>2. CASE place = "idle"
  BY <1>1, <1>2 DEF TypeOK, Goto
<1>3. CASE place # "idle"
  <2> DEFINE pdf == IF place \in {"store", "mark"} THEN task[t].pdf ELSE Absent
             new == [task[t] EXCEPT !.at = place, !.text = Absent, !.pdf = pdf]
  <2>1. task' = [task EXCEPT ![t] = new]
    BY <1>3 DEF Goto
  <2>2. task[t] \in Task
    BY DEF TypeOK
  <2>3. pdf \in Versions \union {Absent}
    BY <2>2 DEF Task
  <2>4. /\ new \in Task  /\ new.at = place  /\ new.id = task[t].id
        /\ new.lang = task[t].lang  /\ new.pdf = pdf
    BY <2>2, <2>3 DEF Task
  <2> QED
    BY <1>3, <2>1, <2>4 DEF TypeOK
<1> QED
  BY <1>2, <1>3

LEMMA BeginType ==
  ASSUME TypeOK, NEW t \in Tasks, NEW place \in Places, NEW l \in Langs,
         NEW fresh \in BOOLEAN, Begin(t, place, l, fresh)
  PROVE  /\ task' \in [Tasks -> Task]
         /\ \A u \in Tasks \ {t} : task'[u] = task[u]
         /\ task'[t].id = 0
  BY LangsAssumption DEF TypeOK, Begin, Task, Places, Building, Finishing

\* An upsert returns an id of the row that is there, or one nobody has.
LEMMA UpsertNew ==
  ASSUME TypeOK, NEW l \in Langs, NEW i \in UpsertIds(l)
  PROVE  /\ i \in Ids
         /\ rows[l] = NoRow => \A t \in Tasks : task[t].lang = l => task[t].id # i
         /\ rows[l] # NoRow => i = rows[l].id
  BY DEF TypeOK, UpsertIds, Unused, Row

\* finish gives a prepared row another status and leaves the rest alone.
LEMMA FinishType ==
  ASSUME TypeOK, NEW t \in Tasks, NEW status \in {"ready", "failed"},
         Finish(t, status)
  PROVE  /\ rows' \in [Langs -> Row \union {NoRow}]
         /\ \A l \in Langs : rows'[l].id = rows[l].id
         /\ \A l \in Langs : rows'[l] # rows[l] => Owns(t) /\ l = task[t].lang
  BY IdsAssumption DEF TypeOK, Finish, Owns, Row, Task


-----------------------------------------------------------------------------
(* Type correctness.                                                       *)

LEMMA InitType == Init => TypeOK
<1> HAVE Init
<1>1. Idle \in Task
  BY LangsAssumption DEF Task, Places
<1>2. data \in Versions
  BY MaxApprovalsAssumption DEF Init, Versions
<1> QED
  BY <1>1, <1>2 DEF Init, TypeOK

\* A row that is deleted, taken over or adopted is still a row.
LEMMA RowTypes ==
  ASSUME TypeOK
  PROVE  /\ \A langs \in SUBSET Langs :
              /\ DeleteRows(langs) => rows' \in [Langs -> Row \union {NoRow}]
              /\ DropFile(langs) => files' \in [Langs -> Versions \union {Absent}]
         /\ \A l \in Langs : \A i \in Ids : \A status \in {"preparing", "ready"} :
              [rows EXCEPT ![l] = [status |-> status, id |-> i, late |-> FALSE]]
                \in [Langs -> Row \union {NoRow}]
  BY DEF TypeOK, DeleteRows, DropFile, Forget, Row

LEMMA RequestType ==
  ASSUME TypeOK, NEW t \in Tasks, Request(t)
  PROVE  TypeOK'
<1>1. CASE Approve(t)
  <2>1. data + 1 \in Versions
    BY <1>1, MaxApprovalsAssumption DEF TypeOK, Approve, Versions
  <2>2. task' \in [Tasks -> Task]
    BY <1>1, BeginType, LangsAssumption DEF Approve, Places
  <2> QED
    BY <1>1, <2>1, <2>2 DEF TypeOK, Approve
<1>2. CASE \E l \in Langs : \E regenerate \in BOOLEAN : Prepare(t, l, regenerate)
  <2>1. task' \in [Tasks -> Task]
    BY <1>2, BeginType DEF Prepare, Places
  <2> QED
    BY <1>2, <2>1 DEF TypeOK, Prepare
<1>3. CASE \E l \in Langs : AdoptExistingPdf(t, l) \/ MissPdf(t, l)
  <2>1. task' \in [Tasks -> Task]
    BY <1>3, BeginType DEF AdoptExistingPdf, MissPdf, Places
  <2> QED
    BY <1>3, <2>1 DEF TypeOK, AdoptExistingPdf, MissPdf
<1>4. CASE RegenerateNarratives(t)
  <2>1. task' \in [Tasks -> Task]
    BY <1>4, BeginType, LangsAssumption DEF RegenerateNarratives, Places, Building
  <2> QED
    BY <1>4, <2>1 DEF TypeOK, RegenerateNarratives
<1> QED
  BY <1>1, <1>2, <1>3, <1>4 DEF Request


LEMMA CallType ==
  ASSUME TypeOK, NEW t \in Tasks, Continue(t)
  PROVE  TypeOK'
<1> USE DEF Places, Building, Finishing
<1> DEFINE l == task[t].lang
<1>t. task[t] \in Task /\ l \in Langs
  BY DEF TypeOK, Task
<1>1. CASE PurgeFiles(t) \/ ForgetFiles(t) \/ Discard(t)
  <2>1. \E place \in Places : Goto(t, place)
    BY <1>1 DEF PurgeFiles, ForgetFiles, Discard
  <2>2. files' \in [Langs -> Versions \union {Absent}]
    BY <1>1, <1>t, RowTypes DEF PurgeFiles, ForgetFiles, Discard, Translations
  <2>3. task' \in [Tasks -> Task]
    BY <2>1, GotoType
  <2> QED
    BY <1>1, <2>2, <2>3 DEF TypeOK, PurgeFiles, ForgetFiles, Discard
<1>2. CASE PurgeRows(t) \/ ForgetRows(t) \/ DropRow(t)
  <2>1. \E place \in Places : Goto(t, place)
    BY <1>2 DEF PurgeRows, ForgetRows, DropRow
  <2>2. rows' \in [Langs -> Row \union {NoRow}]
    BY <1>2, <1>t, RowTypes DEF PurgeRows, ForgetRows, DropRow, Translations
  <2>3. task' \in [Tasks -> Task]
    BY <2>1, GotoType
  <2> QED
    BY <1>2, <2>2, <2>3 DEF TypeOK, PurgeRows, ForgetRows, DropRow
<1>3. CASE PurgeTexts(t) \/ StoreEnglish(t) \/ StoreLocale(t)
  <2>1. \E place \in Places : Goto(t, place)
    BY <1>3 DEF PurgeTexts, StoreEnglish, StoreLocale
  <2>2. texts' \in [Langs -> Versions \union {Absent}]
    BY <1>3, <1>t DEF PurgeTexts, StoreEnglish, StoreLocale, TypeOK, Task, Forget
  <2>3. task' \in [Tasks -> Task]
    BY <2>1, GotoType
  <2> QED
    BY <1>3, <2>2, <2>3 DEF TypeOK, PurgeTexts, StoreEnglish, StoreLocale
<1>4. CASE Claim(t)
  <2>1. CASE ~Claimable(l) /\ Goto(t, "idle") /\ UNCHANGED rows
    <3>1. task' \in [Tasks -> Task]
      BY <2>1, GotoType
    <3> QED
      BY <1>4, <2>1, <3>1 DEF TypeOK, Claim
  <2>2. ASSUME NEW i \in UpsertIds(l),
               rows' = [rows EXCEPT ![l] =
                          [status |-> "preparing", id |-> i, late |-> FALSE]],
               task' = [task EXCEPT ![t] =
                          [Idle EXCEPT !.at = FirstCall(t), !.lang = l, !.id = i]]
        PROVE  TypeOK'
    <3>1. i \in Ids
      BY <2>2, <1>t, UpsertNew
    <3>2. rows' \in [Langs -> Row \union {NoRow}]
      BY <2>2, <1>t, <3>1, RowTypes
    <3>3. [Idle EXCEPT !.at = FirstCall(t), !.lang = l, !.id = i] \in Task
      BY <1>t, <3>1 DEF FirstCall, Task
    <3>4. task' \in [Tasks -> Task]
      BY <2>2, <3>3 DEF TypeOK
    <3> QED
      BY <1>4, <3>2, <3>4 DEF TypeOK, Claim
  <2> QED
    BY <1>4, <2>1, <2>2 DEF Claim
<1>5. CASE Load(t) \/ Generate(t) \/ Render(t)
  <2>1. CASE \E place \in Places : Goto(t, place)
    <3>1. task' \in [Tasks -> Task]
      BY <2>1, GotoType
    <3> QED
      BY <1>5, <3>1 DEF TypeOK, Load, Generate, Render
  <2>2. CASE \E v \in Versions \union {Absent} :
               \/ task' = [task EXCEPT ![t].at = "translate", ![t].text = v]
               \/ task' = [task EXCEPT ![t].at = "store_english", ![t].text = v]
               \/ task' = [task EXCEPT ![t].at = "check", ![t].pdf = v]
    <3>1. task' \in [Tasks -> Task]
      BY <2>2, <1>t DEF TypeOK, Task
    <3> QED
      BY <1>5, <3>1 DEF TypeOK, Load, Generate, Render
  <2>3. texts[English] \in Versions \union {Absent} /\ data \in Versions \union {Absent}
    BY LangsAssumption DEF TypeOK
  <2> QED
    BY <1>5, <2>1, <2>2, <2>3 DEF Load, Generate, Render
<1>6. CASE AiFails(t) \/ CheckOwnership(t) \/ LookForNewer(t) \/ GiveUp(t)
  <2>1. \E place \in Places : Goto(t, place)
    BY <1>6 DEF AiFails, CheckOwnership, LookForNewer, GiveUp
  <2>2. task' \in [Tasks -> Task]
    BY <2>1, GotoType
  <2> QED
    BY <1>6, <2>2 DEF TypeOK, AiFails, CheckOwnership, LookForNewer, GiveUp
<1>7. CASE StorePdf(t)
  <2>1. task' \in [Tasks -> Task]
    BY <1>7, GotoType DEF StorePdf
  <2> QED
    BY <1>7, <1>t, <2>1 DEF TypeOK, StorePdf, Task
<1>8. CASE MarkReady(t) \/ BuildFails(t)
  <2>1. \E place \in Places : Goto(t, place)
    BY <1>8 DEF MarkReady, BuildFails
  <2>2. rows' \in [Langs -> Row \union {NoRow}]
    BY <1>8, FinishType DEF MarkReady, BuildFails, TypeOK
  <2>3. task' \in [Tasks -> Task]
    BY <2>1, GotoType
  <2> QED
    BY <1>8, <2>2, <2>3 DEF TypeOK, MarkReady, BuildFails
<1>9. CASE InsertReady(t)
  <2>1. \A i \in UpsertIds(l) : i \in Ids
    BY <1>t, UpsertNew
  <2>2. CASE UNCHANGED rows
    BY <1>9, <2>2, GotoType DEF InsertReady, TypeOK
  <2>3. CASE \E i \in UpsertIds(l) :
               rows' = [rows EXCEPT ![l] = [status |-> "ready", id |-> i, late |-> FALSE]]
    <3>1. rows' \in [Langs -> Row \union {NoRow}]
      BY <2>3, <1>t, <2>1, RowTypes
    <3>2. task' \in [Tasks -> Task]
      BY <1>9, GotoType DEF InsertReady
    <3> QED
      BY <1>9, <3>1, <3>2 DEF InsertReady, TypeOK
  <2> QED
    BY <1>9, <2>2, <2>3 DEF InsertReady
<1> QED
  BY <1>1, <1>2, <1>3, <1>4, <1>5, <1>6, <1>7, <1>8, <1>9 DEF Continue


LEMMA NextType == TypeOK /\ [Next]_vars => TypeOK'
<1> SUFFICES ASSUME TypeOK, [Next]_vars
             PROVE  TypeOK'
  OBVIOUS
<1>1. CASE \E l \in Langs : TimeOut(l)
  <2>1. PICK l \in Langs : TimeOut(l)
    BY <1>1
  <2>2. rows[l] \in Row
    BY <2>1 DEF TypeOK, TimeOut
  <2>3. [rows EXCEPT ![l].late = TRUE] \in [Langs -> Row \union {NoRow}]
    BY <2>2 DEF TypeOK, Row
  <2> QED
    BY <2>1, <2>3 DEF TypeOK, TimeOut
<1>2. CASE Restart
  <2>1. Idle \in Task
    BY LangsAssumption DEF Task, Places
  <2> QED
    BY <1>2, <2>1 DEF TypeOK, Restart
<1>3. CASE UNCHANGED vars
  BY <1>3 DEF TypeOK, vars
<1> QED
  BY <1>1, <1>2, <1>3, RequestType, CallType DEF Next

\* Nothing a task does, at any moment, leaves a row, a file, a text or a task
\* that is none, whatever the languages, tasks and ids.
THEOREM TypeCorrect == Spec => []TypeOK
  BY InitType, NextType, PTL DEF Spec


-----------------------------------------------------------------------------
(* The row as a lock, and the figures rendered under it.                   *)

\* The row of its language is that of t's job, whatever its status.
HasRow(t) == Active(t) /\ task[t].id = rows[task[t].lang].id

NobodyHasRow(l) == \A t \in Tasks : task[t].lang = l => ~HasRow(t)

\* An id is one job's; and a job that still has its row is its only preparer,
\* in time: nobody marked the row before it, and nobody may take it over.
Alone ==
  \A t, u \in Tasks :
    (Active(t) /\ task[t].id = task[u].id /\ task[t].lang = task[u].lang) => t = u

Held ==
  \A t \in Tasks : HasRow(t) => /\ rows[task[t].lang].status = "preparing"
                               /\ ~rows[task[t].lang].late

\* A job that has its row after the rows were last deleted was claimed since.
Rendered ==
  (consolidated /\ ~owed) =>
    \A t \in Tasks : (HasRow(t) /\ task[t].at \in {"check", "store", "mark"})
                      => task[t].pdf = data

\* What a step that claims nothing does: jobs end or go on; a row stays as it
\* is, is nobody's afterwards, or was finished by its job, which ended; a task
\* has a PDF of the figures of now, or the one it had.
Ends(t) == task'[t].id = 0 \/ (task'[t].id = task[t].id /\ task'[t].lang = task[t].lang)

RowStep(l) ==
  \/ rows'[l] = rows[l]
  \/ NobodyHasRow(l)'
  \/ \E t \in Tasks : /\ task[t].lang = l /\ task'[t].id = 0 /\ HasRow(t)
                       /\ rows'[l].id = rows[l].id

PdfStep(t) ==
  \/ task'[t] = task[t]
  \/ task'[t].at \notin {"check", "store", "mark"}
  \/ task'[t].pdf = data
  \/ task[t].at \in {"check", "store", "mark"} /\ task'[t].pdf = task[t].pdf

Quiet == /\ \A t \in Tasks : Ends(t)
         /\ \A l \in Langs : RowStep(l)
         /\ \A t \in Tasks : PdfStep(t)
         /\ consolidated' = consolidated
         /\ \/ owed'
            \/ \A l \in Langs : NobodyHasRow(l)'
            \/ data' = data /\ owed' = owed

\* A task that owns its row has an id of its own.
LEMMA OwnsHasRow ==
  ASSUME TypeOK, NEW t \in Tasks, Owns(t)
  PROVE  HasRow(t)
  BY IdsAssumption DEF TypeOK, Owns, HasRow, Active, Row, Task

LEMMA QuietKeepsLock ==
  ASSUME TypeOK, TypeOK', Alone, Held, Quiet
  PROVE  Alone' /\ Held'
<1>1. Alone'
  BY DEF Quiet, Ends, Alone, Active
<1>2. ASSUME NEW t \in Tasks, HasRow(t)'
      PROVE  /\ rows'[task'[t].lang].status = "preparing"
             /\ ~rows'[task'[t].lang].late
  <2> DEFINE l == task[t].lang
  <2>1. task'[t].id = task[t].id /\ task'[t].lang = l /\ Active(t) /\ l \in Langs
    BY <1>2 DEF Quiet, Ends, HasRow, Active, TypeOK, Task
  <2>2. RowStep(l)
    BY <2>1 DEF Quiet
  <2>3. CASE rows'[l] = rows[l]
    BY <1>2, <2>1, <2>3 DEF Held, HasRow, Active
  <2>4. CASE NobodyHasRow(l)'
    BY <1>2, <2>1, <2>4 DEF NobodyHasRow
  <2>5. CASE \E u \in Tasks : /\ task[u].lang = l /\ task'[u].id = 0 /\ HasRow(u)
                              /\ rows'[l].id = rows[l].id
    <3>1. PICK u \in Tasks : /\ task[u].lang = l /\ task'[u].id = 0 /\ HasRow(u)
                             /\ rows'[l].id = rows[l].id
      BY <2>5
    <3>2. task[u].id = task[t].id
      BY <1>2, <2>1, <3>1 DEF HasRow
    <3> QED
      BY <1>2, <2>1, <3>1, <3>2 DEF Alone, HasRow, Active
  <2> QED
    BY <2>2, <2>3, <2>4, <2>5 DEF RowStep
<1> QED
  BY <1>1, <1>2 DEF Held

LEMMA QuietKeepsRendered ==
  ASSUME TypeOK, TypeOK', Rendered, Quiet
  PROVE  Rendered'
<1> SUFFICES ASSUME consolidated', ~owed', NEW t \in Tasks, HasRow(t)',
                    task'[t].at \in {"check", "store", "mark"}
             PROVE  task'[t].pdf = data'
  BY DEF Rendered
<1> DEFINE l == task[t].lang
<1>1. task'[t].id = task[t].id /\ task'[t].lang = l /\ Active(t) /\ l \in Langs
  BY DEF Quiet, Ends, HasRow, Active, TypeOK, Task
<1>2. consolidated /\ ~owed /\ data' = data /\ ~NobodyHasRow(l)'
  BY <1>1 DEF Quiet, NobodyHasRow
<1>3. rows'[l].id = rows[l].id
  BY <1>1, <1>2 DEF Quiet, RowStep
<1>4. HasRow(t)
  BY <1>1, <1>3 DEF HasRow
<1> QED
  BY <1>2, <1>4 DEF Quiet, PdfStep, Rendered


\* Begin gives no job and no PDF; Goto gives no more than there was.
LEMMA GotoQuiet ==
  ASSUME TypeOK, NEW t \in Tasks, NEW place \in Places, Goto(t, place),
         place \in {"check", "store", "mark"} =>
           /\ place # "check"
           /\ task[t].at \in {"check", "store"}
  PROVE  \A u \in Tasks : Ends(u) /\ PdfStep(u)
<1>1. task' \in [Tasks -> Task]
  BY GotoType
<1>2. \A u \in Tasks \ {t} : Ends(u) /\ PdfStep(u)
  BY GotoType DEF Ends, PdfStep
<1>3. CASE place = "idle"
  BY <1>2, <1>3 DEF TypeOK, Goto, Ends, PdfStep
<1>4. CASE place # "idle"
  BY <1>2, <1>4, GotoType DEF Ends, PdfStep
<1> QED
  BY <1>3, <1>4

LEMMA BeginQuiet ==
  ASSUME TypeOK, NEW t \in Tasks, NEW l \in Langs, NEW fresh \in BOOLEAN,
         NEW place \in Places \ {"check", "store", "mark"},
         Begin(t, place, l, fresh)
  PROVE  \A u \in Tasks : Ends(u) /\ PdfStep(u)
<1>1. \A u \in Tasks \ {t} : Ends(u) /\ PdfStep(u)
  BY BeginType DEF Ends, PdfStep
<1>2. task'[t].id = 0 /\ task'[t].at = place
  BY DEF TypeOK, Begin
<1> QED
  BY <1>1, <1>2 DEF Ends, PdfStep

LEMMA QuietRequest ==
  ASSUME TypeOK, NEW t \in Tasks, Request(t)
  PROVE  Quiet
<1> USE DEF Places, Building, Finishing
<1>1. UNCHANGED <<rows, consolidated>> /\ (owed' \/ UNCHANGED <<data, owed>>)
  BY DEF Request, Approve, Prepare, RegenerateNarratives, AdoptExistingPdf, MissPdf
<1>2. \E place \in Places \ {"check", "store", "mark"}, l \in Langs, fresh \in BOOLEAN :
        Begin(t, place, l, fresh)
  BY LangsAssumption
  DEF Request, Approve, Prepare, RegenerateNarratives, AdoptExistingPdf, MissPdf
<1>3. \A u \in Tasks : Ends(u) /\ PdfStep(u)
  BY <1>2, BeginQuiet
<1> QED
  BY <1>1, <1>3 DEF Quiet, RowStep


\* A row that is gone is nobody's.
LEMMA GoneRow ==
  ASSUME NEW l \in Langs, rows'[l] = NoRow
  PROVE  NobodyHasRow(l)'
  BY DEF NobodyHasRow, HasRow, Active

LEMMA QuietCall ==
  ASSUME TypeOK, NEW t \in Tasks, Continue(t), ~(Claim(t) /\ Claimable(task[t].lang))
  PROVE  Quiet
<1> USE DEF Places, Building, Finishing
<1> DEFINE l == task[t].lang
           PlainGoto == \E place \in Places \ {"check", "store", "mark"} : Goto(t, place)
<1>t. task[t] \in Task /\ l \in Langs
  BY DEF TypeOK, Task
<1>p. PlainGoto => \A u \in Tasks : Ends(u) /\ PdfStep(u)
  BY GotoQuiet
<1>1. CASE PurgeFiles(t) \/ PurgeTexts(t) \/ ForgetFiles(t) \/ StoreEnglish(t)
             \/ StoreLocale(t) \/ AiFails(t) \/ LookForNewer(t) \/ Discard(t) \/ GiveUp(t)
  <2>1. PlainGoto /\ UNCHANGED <<rows, consolidated, data, owed>>
    BY <1>1 DEF PurgeFiles, PurgeTexts, ForgetFiles, StoreEnglish, StoreLocale, AiFails,
                LookForNewer, Discard, GiveUp
  <2> QED
    BY <1>p, <2>1 DEF Quiet, RowStep
<1>2. CASE PurgeRows(t) \/ ForgetRows(t) \/ DropRow(t)
  <2>1. PlainGoto /\ UNCHANGED <<consolidated, data>>
    BY <1>2 DEF PurgeRows, ForgetRows, DropRow
  <2>2. \A k \in Langs : rows'[k] = rows[k] \/ rows'[k] = NoRow
    BY <1>2 DEF PurgeRows, ForgetRows, DropRow, DeleteRows, Forget
  <2>3. UNCHANGED owed \/ \A k \in Langs : rows'[k] = NoRow
    BY <1>2 DEF PurgeRows, ForgetRows, DropRow, DeleteRows, Forget
  <2> QED
    BY <1>p, <2>1, <2>2, <2>3, GoneRow DEF Quiet, RowStep
<1>3. CASE Claim(t)
  <2>1. Goto(t, "idle") /\ UNCHANGED <<rows, consolidated, data, owed>>
    BY <1>3 DEF Claim
  <2> QED
    BY <1>p, <2>1 DEF Quiet, RowStep
<1>4. CASE Load(t) \/ Generate(t) \/ Render(t)
  <2>1. UNCHANGED <<rows, consolidated, data, owed>>
    BY <1>4 DEF Load, Generate, Render
  <2>2. \/ PlainGoto
        \/ \E v \in Versions \union {Absent} :
              \/ task' = [task EXCEPT ![t].at = "translate", ![t].text = v]
              \/ task' = [task EXCEPT ![t].at = "store_english", ![t].text = v]
        \/ task' = [task EXCEPT ![t].at = "check", ![t].pdf = data]
    BY <1>4, LangsAssumption DEF Load, Generate, Render, TypeOK
  <2>3. \A u \in Tasks : Ends(u) /\ PdfStep(u)
    BY <1>t, <1>p, <2>2 DEF TypeOK, Task, Ends, PdfStep
  <2> QED
    BY <2>1, <2>3 DEF Quiet, RowStep
<1>5. CASE CheckOwnership(t) \/ StorePdf(t)
  <2>1. UNCHANGED <<rows, consolidated, data, owed>>
    BY <1>5 DEF CheckOwnership, StorePdf
  <2>2. \A u \in Tasks : Ends(u) /\ PdfStep(u)
    BY <1>5, GotoQuiet DEF CheckOwnership, StorePdf
  <2> QED
    BY <2>1, <2>2 DEF Quiet, RowStep
<1>6. CASE MarkReady(t) \/ BuildFails(t)
  <2>1. PlainGoto /\ UNCHANGED <<consolidated, data, owed>>
    BY <1>6 DEF MarkReady, BuildFails
  <2>2. \/ UNCHANGED rows
        \/ /\ task'[t].id = 0 /\ Owns(t)
           /\ \A k \in Langs : rows'[k].id = rows[k].id
           /\ \A k \in Langs : rows'[k] # rows[k] => k = l
    BY <1>6, GotoType, FinishType DEF MarkReady, BuildFails, Finish
  <2>3. ASSUME NEW k \in Langs
        PROVE  RowStep(k)
    <3>1. CASE rows'[k] = rows[k]
      BY <3>1 DEF RowStep
    <3>2. CASE rows'[k] # rows[k]
      <4>1. task[t].lang = k /\ task'[t].id = 0 /\ Owns(t) /\ rows'[k].id = rows[k].id
        BY <2>2, <3>2
      <4>2. HasRow(t)
        BY <4>1, OwnsHasRow
      <4> QED
        BY <4>1, <4>2 DEF RowStep
    <3> QED
      BY <3>1, <3>2
  <2> QED
    BY <1>p, <2>1, <2>3 DEF Quiet
<1>7. CASE InsertReady(t)
  <2>1. PlainGoto /\ UNCHANGED <<consolidated, data, owed>> /\ task'[t].id = 0
    BY <1>7, GotoType DEF InsertReady
  <2>2. ASSUME NEW k \in Langs, k = l, NEW i \in UpsertIds(k), rows[k] = NoRow,
               rows' = [rows EXCEPT ![k] = [status |-> "ready", id |-> i, late |-> FALSE]]
        PROVE  \A m \in Langs : RowStep(m)
    <3>1. \A u \in Tasks : task[u].lang = k => task[u].id # i
      BY <2>2, UpsertNew
    <3>2. \A u \in Tasks : Ends(u)
      BY <1>p, <2>1
    <3>3. rows'[k].id = i /\ \A m \in Langs \ {k} : rows'[m] = rows[m]
      BY <2>2 DEF TypeOK
    <3>4. NobodyHasRow(k)'
      BY <3>1, <3>2, <3>3 DEF Ends, NobodyHasRow, HasRow, Active
    <3> QED
      BY <3>3, <3>4 DEF RowStep
  <2>3. \A k \in Langs : RowStep(k)
    BY <1>t, <1>7, <2>2 DEF InsertReady, RowStep
  <2> QED
    BY <1>p, <2>1, <2>3 DEF Quiet
<1> QED
  BY <1>1, <1>2, <1>3, <1>4, <1>5, <1>6, <1>7 DEF Continue


-----------------------------------------------------------------------------
(* The steps that are not quiet: a claim, the passing of the timeout.      *)

\* A successful claim makes t the job of the row, under an id that was the
\* row's or nobody's.
LEMMA ClaimEffect ==
  ASSUME TypeOK, NEW t \in Tasks, Claim(t), Claimable(task[t].lang)
  PROVE  \E k \in Langs, i \in Ids :
           /\ k = task[t].lang
           /\ rows' = [rows EXCEPT ![k] = [status |-> "preparing", id |-> i, late |-> FALSE]]
           /\ \A u \in Tasks \ {t} : task'[u] = task[u]
           /\ /\ task'[t].id = i  /\ task'[t].lang = k
              /\ task'[t].at \in {"forget_files", "load"}
           /\ rows[k] = NoRow => \A u \in Tasks : task[u].lang = k => task[u].id # i
           /\ rows[k] # NoRow => i = rows[k].id
           /\ UNCHANGED <<consolidated, data, owed>>
<1>1. PICK k \in Langs : k = task[t].lang
  BY DEF TypeOK, Task
<1>2. PICK i \in UpsertIds(k) :
        /\ rows' = [rows EXCEPT ![k] = [status |-> "preparing", id |-> i, late |-> FALSE]]
        /\ task' = [task EXCEPT ![t] =
                      [Idle EXCEPT !.at = FirstCall(t), !.lang = k, !.id = i]]
  BY <1>1 DEF Claim
<1>3. /\ i \in Ids
      /\ rows[k] = NoRow => \A u \in Tasks : task[u].lang = k => task[u].id # i
      /\ rows[k] # NoRow => i = rows[k].id
  BY UpsertNew
<1>4. /\ task'[t].id = i  /\ task'[t].lang = k
      /\ task'[t].at \in {"forget_files", "load"}
      /\ \A u \in Tasks \ {t} : task'[u] = task[u]
  BY <1>2 DEF TypeOK, FirstCall
<1>5. UNCHANGED <<consolidated, data, owed>>
  BY DEF Claim
<1> QED
  BY <1>1, <1>2, <1>3, <1>4, <1>5

LEMMA ClaimKeepsLock ==
  ASSUME TypeOK, Alone, Held, NEW t \in Tasks, Claim(t), Claimable(task[t].lang)
  PROVE  Alone' /\ Held'
<1>1. PICK k \in Langs, i \in Ids :
        /\ k = task[t].lang
        /\ rows' = [rows EXCEPT ![k] = [status |-> "preparing", id |-> i, late |-> FALSE]]
        /\ \A u \in Tasks \ {t} : task'[u] = task[u]
        /\ task'[t].id = i  /\ task'[t].lang = k
        /\ rows[k] = NoRow => \A u \in Tasks : task[u].lang = k => task[u].id # i
        /\ rows[k] # NoRow => i = rows[k].id
  BY ClaimEffect
<1>2. ASSUME NEW u \in Tasks, Active(u), task[u].lang = k
      PROVE  task[u].id # i
  <2>1. CASE rows[k] = NoRow
    BY <1>1, <1>2, <2>1
  <2>2. CASE rows[k] # NoRow /\ task[u].id = i
    <3>1. HasRow(u)
      BY <1>1, <1>2, <2>2 DEF HasRow
    <3> QED
      BY <1>1, <1>2, <3>1 DEF Held, Claimable
  <2> QED
    BY <2>1, <2>2
<1>3. Alone'
  BY <1>1, <1>2 DEF Alone, Active
<1>4. ASSUME NEW u \in Tasks, HasRow(u)'
      PROVE  rows'[task'[u].lang].status = "preparing" /\ ~rows'[task'[u].lang].late
  <2>1. rows'[k] = [status |-> "preparing", id |-> i, late |-> FALSE]
    BY <1>1 DEF TypeOK
  <2>2. CASE task'[u].lang = k
    BY <2>1, <2>2
  <2>3. CASE task'[u].lang # k
    <3>1. task'[u] = task[u] /\ task[u].lang \in Langs \ {k}
      BY <1>1, <2>3 DEF TypeOK, Task
    <3>2. rows'[task[u].lang] = rows[task[u].lang]
      BY <1>1, <3>1 DEF TypeOK
    <3> QED
      BY <1>4, <3>1, <3>2 DEF Held, HasRow, Active
  <2> QED
    BY <2>2, <2>3
<1> QED
  BY <1>3, <1>4 DEF Held

LEMMA ClaimKeepsRendered ==
  ASSUME TypeOK, Rendered, NEW t \in Tasks, Claim(t), Claimable(task[t].lang)
  PROVE  Rendered'
<1>1. PICK k \in Langs, i \in Ids :
        /\ k = task[t].lang
        /\ rows' = [rows EXCEPT ![k] = [status |-> "preparing", id |-> i, late |-> FALSE]]
        /\ \A u \in Tasks \ {t} : task'[u] = task[u]
        /\ task'[t].at \in {"forget_files", "load"}
        /\ rows[k] = NoRow => \A u \in Tasks : task[u].lang = k => task[u].id # i
        /\ rows[k] # NoRow => i = rows[k].id
        /\ UNCHANGED <<consolidated, data, owed>>
  BY ClaimEffect
<1>2. ASSUME NEW u \in Tasks, u # t, HasRow(u)'
      PROVE  HasRow(u)
  <2>1. task'[u] = task[u] /\ task[u].lang \in Langs /\ Active(u)
    BY <1>1, <1>2 DEF TypeOK, Task, HasRow, Active
  <2>2. CASE task[u].lang = k
    BY <1>1, <1>2, <2>1, <2>2 DEF TypeOK, HasRow
  <2>3. CASE task[u].lang # k
    BY <1>1, <1>2, <2>1, <2>3 DEF TypeOK, HasRow
  <2> QED
    BY <2>2, <2>3
<1> QED
  BY <1>1, <1>2 DEF Rendered

\* Only a row whose job is lost is timed out, if no job outlasts its timeout.
LEMMA TimeOutKeepsLock ==
  ASSUME TypeOK, JobsOverrun = FALSE, Alone, Held, NEW k \in Langs, TimeOut(k)
  PROVE  Alone' /\ Held'
<1>1. Alone'
  BY DEF TimeOut, Alone, Active
<1>2. ASSUME NEW t \in Tasks, HasRow(t)'
      PROVE  rows'[task'[t].lang].status = "preparing" /\ ~rows'[task'[t].lang].late
  <2>1. task'[t] = task[t] /\ task[t].lang \in Langs
    BY DEF TimeOut, TypeOK, Task
  <2>2. rows'[task[t].lang].id = rows[task[t].lang].id
    BY <2>1 DEF TimeOut, TypeOK, Row
  <2>3. HasRow(t)
    BY <1>2, <2>1, <2>2 DEF HasRow, Active
  <2>4. task[t].lang # k
    BY <2>3 DEF TimeOut, HasRow
  <2>5. rows'[task[t].lang] = rows[task[t].lang]
    BY <2>1, <2>4 DEF TimeOut, TypeOK
  <2> QED
    BY <2>1, <2>3, <2>5 DEF Held
<1> QED
  BY <1>1, <1>2 DEF Held

LEMMA TimeOutKeepsRendered ==
  ASSUME TypeOK, Rendered, NEW k \in Langs, TimeOut(k)
  PROVE  Rendered'
<1>1. \A l \in Langs : rows'[l].id = rows[l].id
  BY DEF TimeOut, TypeOK, Row
<1>2. UNCHANGED <<consolidated, data, task, owed>> /\ \A t \in Tasks : task[t].lang \in Langs
  BY DEF TimeOut, TypeOK, Task
<1> QED
  BY <1>1, <1>2 DEF Rendered, HasRow, Active

LEMMA RestartQuiet ==
  ASSUME TypeOK, Restart
  PROVE  Quiet
  BY DEF Restart, Quiet, Ends, RowStep, PdfStep


-----------------------------------------------------------------------------

\* A step is quiet, a successful claim, or the passing of a timeout.
LEMMA StepKinds ==
  ASSUME TypeOK, [Next]_vars
  PROVE  \/ Quiet
         \/ \E t \in Tasks : Claim(t) /\ Claimable(task[t].lang)
         \/ \E l \in Langs : TimeOut(l)
<1>1. CASE \E t \in Tasks : Request(t)
  BY <1>1, QuietRequest
<1>2. CASE \E t \in Tasks : Continue(t)
  BY <1>2, QuietCall
<1>3. CASE Restart
  BY <1>3, RestartQuiet
<1>4. CASE UNCHANGED vars
  BY <1>4 DEF vars, Quiet, Ends, RowStep, PdfStep
<1> QED
  BY <1>1, <1>2, <1>3, <1>4 DEF Next

LEMMA LockInvariance ==
  ASSUME JobsOverrun = FALSE
  PROVE  Spec => [](TypeOK /\ Alone /\ Held)
<1>1. Init => TypeOK /\ Alone /\ Held
  BY InitType DEF Init, Alone, Held, HasRow, Active
<1>2. TypeOK /\ Alone /\ Held /\ [Next]_vars => (TypeOK /\ Alone /\ Held)'
  <2> SUFFICES ASSUME TypeOK, Alone, Held, [Next]_vars
               PROVE  TypeOK' /\ Alone' /\ Held'
    OBVIOUS
  <2>1. TypeOK'
    BY NextType
  <2>2. CASE Quiet
    BY <2>1, <2>2, QuietKeepsLock
  <2>3. CASE \E t \in Tasks : Claim(t) /\ Claimable(task[t].lang)
    BY <2>1, <2>3, ClaimKeepsLock
  <2>4. CASE \E l \in Langs : TimeOut(l)
    BY <2>1, <2>4, TimeOutKeepsLock
  <2> QED
    BY <2>2, <2>3, <2>4, StepKinds
<1> QED
  BY <1>1, <1>2, PTL DEF Spec

\* The claim, the takeover of lost jobs and the deletions of rows keep at most
\* one running job per language, provided no job outlasts its timeout.
THEOREM OneJobAlways ==
  ASSUME JobsOverrun = FALSE
  PROVE  Spec => []OneJobPerLanguage
<1>1. TypeOK /\ Alone => OneJobPerLanguage
  <2> SUFFICES ASSUME Alone, NEW t \in Tasks, NEW u \in Tasks,
                      Active(t), Owns(t), Owns(u), task[t].lang = task[u].lang
               PROVE  t = u
    BY DEF OneJobPerLanguage
  <2>1. task[t].id = task[u].id
    BY DEF Owns
  <2> QED
    BY <2>1 DEF Alone
<1> QED
  BY <1>1, LockInvariance, PTL

LEMMA RenderedInvariance == Spec => [](TypeOK /\ Rendered)
<1>1. Init => TypeOK /\ Rendered
  BY InitType DEF Init, Rendered, HasRow, Active
<1>2. TypeOK /\ Rendered /\ [Next]_vars => (TypeOK /\ Rendered)'
  <2> SUFFICES ASSUME TypeOK, Rendered, [Next]_vars
               PROVE  TypeOK' /\ Rendered'
    OBVIOUS
  <2>1. TypeOK'
    BY NextType
  <2>2. CASE Quiet
    BY <2>1, <2>2, QuietKeepsRendered
  <2>3. CASE \E t \in Tasks : Claim(t) /\ Claimable(task[t].lang)
    BY <2>1, <2>3, ClaimKeepsRendered
  <2>4. CASE \E l \in Langs : TimeOut(l)
    BY <2>1, <2>4, TimeOutKeepsRendered
  <2> QED
    BY <2>2, <2>3, <2>4, StepKinds
<1> QED
  BY <1>1, <1>2, PTL DEF Spec


\* Nothing turns a prepared row ready but the mark of the job whose row it is.
LEMMA OnlyOwnersMark ==
  ASSUME TypeOK, [Next]_vars, NEW t \in Tasks, MakesReady(t)
  PROVE  HasRow(t)
<1> DEFINE l == task[t].lang
<1>l. l \in Langs
  BY DEF TypeOK, Task
<1>m. /\ rows[l].status = "preparing" /\ rows'[l].status = "ready"
      /\ rows'[l] # rows[l] /\ task'[t] # task[t]
  BY DEF MakesReady
<1>1. CASE (\E u \in Tasks : Request(u)) \/ Restart \/ UNCHANGED vars
  BY <1>m, <1>1 DEF Request, Approve, Prepare, RegenerateNarratives, AdoptExistingPdf,
                    MissPdf, Restart, vars
<1>2. CASE \E k \in Langs : TimeOut(k)
  <2>1. rows'[l].status = rows[l].status
    BY <1>l, <1>2 DEF TimeOut, TypeOK, Row
  <2> QED
    BY <2>1, <1>m
<1>3. CASE \E u \in Tasks : Continue(u)
  <2>1. PICK u \in Tasks : Continue(u)
    BY <1>3
  <2>2. CASE MarkReady(u)
    <3>1. u = t
      BY <1>m, <2>2, GotoType DEF MarkReady, Places, Finishing
    <3>2. Owns(t)
      BY <1>l, <1>m, <2>2, <3>1, FinishType DEF MarkReady
    <3> QED
      BY <3>2, OwnsHasRow
  <2>3. CASE BuildFails(u)
    <3>1. UNCHANGED rows \/ rows' = [rows EXCEPT ![task[u].lang].status = "failed"]
      BY <2>3 DEF BuildFails, Finish
    <3> QED
      BY <1>l, <1>m, <3>1 DEF TypeOK, Row
  <2>4. CASE PurgeRows(u) \/ ForgetRows(u) \/ DropRow(u)
    <3>1. rows'[l] = rows[l] \/ rows'[l] = NoRow
      BY <1>l, <2>4 DEF PurgeRows, ForgetRows, DropRow, DeleteRows, Forget
    <3> QED
      BY <1>m, <3>1
  <2>5. CASE Claim(u)
    <3>1. CASE ~Claimable(task[u].lang)
      BY <1>m, <2>5, <3>1 DEF Claim
    <3>2. CASE Claimable(task[u].lang)
      <4>1. rows'[l] = rows[l] \/ rows'[l].status = "preparing"
        BY <1>l, <2>5, <3>2, ClaimEffect DEF TypeOK
      <4> QED
        BY <1>m, <4>1
    <3> QED
      BY <3>1, <3>2
  <2>6. CASE InsertReady(u)
    <3>1. rows'[l] = rows[l] \/ rows[l] = NoRow
      BY <1>l, <2>6 DEF InsertReady, TypeOK
    <3> QED
      BY <1>m, <3>1
  <2> QED
    BY <1>m, <2>1, <2>2, <2>3, <2>4, <2>5, <2>6
    DEF Continue, PurgeFiles, PurgeTexts, ForgetFiles, Load, Generate, StoreEnglish,
        StoreLocale, AiFails, Render, CheckOwnership, StorePdf, LookForNewer, Discard,
        GiveUp
<1> QED
  BY <1>1, <1>2, <1>3 DEF Next

\* Whatever jobs are lost, slow or overtaken, once the rows of a consolidated
\* report are deleted after an approval, only PDFs of its figures become ready.
THEOREM FreshAlways == Spec => FreshWhenMarked
<1>1. TypeOK /\ Rendered /\ [Next]_vars
      => [ \A t \in Tasks :
             consolidated /\ ~owed /\ MakesReady(t) => task[t].pdf = data ]_vars
  <2> SUFFICES ASSUME TypeOK, Rendered, [Next]_vars,
                      NEW t \in Tasks, consolidated, ~owed, MakesReady(t)
               PROVE  task[t].pdf = data
    OBVIOUS
  <2>1. HasRow(t) /\ task[t].at = "mark"
    BY OnlyOwnersMark DEF MakesReady
  <2> QED
    BY <2>1 DEF Rendered
<1> QED
  BY <1>1, RenderedInvariance, PTL DEF Spec, FreshWhenMarked

=============================================================================
