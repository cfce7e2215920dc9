------------------------------- MODULE Filing -------------------------------
(***************************************************************************)
(* The submissions of one cooperative for one reporting year, filed by the *)
(* cooperative and by its apex at the same time (api/handlers/             *)
(* submission.rs).  A creation looks the period up, checks the year, reads *)
(* the next reference and inserts in four separate calls.  A dialog whose  *)
(* list is still loading blocks nothing, so a request may carry any        *)
(* choice.  Other cooperatives draw references from the same sequence.     *)
(***************************************************************************)
EXTENDS ReportingPeriods

CONSTANTS
  Clients,     \* who creates: the cooperative and its apex
  Periods,     \* the periods tried: [type, value, start]
  Methods,     \* the methods a cooperative may change to
  DefaultMethod, \* what a creation asks for: the dialogs name none
  MaxRetries,  \* MAX_REFERENCE_RETRIES
  MaxRows,     \* bound: submissions of the year at a time
  MaxForeign,  \* bound: references drawn by other cooperatives
  MaxReference \* bound: the highest reference drawn

ASSUME FilingAssumption ==
  /\ MaxRetries \in Nat /\ MaxRows \in Nat /\ MaxForeign \in Nat /\ MaxReference \in Nat
  /\ Periods \subseteq [type : Range(FrequencyOrder), value : STRING, start : 1..12]
  /\ \A c \in Periods : c.value \in ValuesOf(c.type)

VARIABLES
  rows,     \* the year's submissions, oldest first; id is the reference number
  foreign,  \* references of other cooperatives
  req       \* creation request of each client

vars == <<rows, foreign, req>>

Idle == [at |-> "idle"]
Newest == [i \in DOMAIN rows |-> rows[Len(rows) + 1 - i]]
References == {s.id : s \in Range(rows)} \cup foreign

Init ==
  /\ rows = <<>>
  /\ foreign = {}
  /\ req = [c \in Clients |-> Idle]

-----------------------------------------------------------------------------
(* create_submission, create_apex_submission *)

Goto(c, at) == req' = [req EXCEPT ![c] = at]
Refuse(c) == Goto(c, Idle)

\* A request arrives and looks its period up; one that exists is answered with it.
FindByPeriod(c, choice) ==
  /\ req[c].at \in {"idle", "exhausted"}
  /\ Goto(c, IF Exists(Newest, choice.type, choice.value) THEN Idle
             ELSE [at |-> "check", choice |-> choice, method |-> DefaultMethod, seq |-> 0,
                   tries |-> 0, rivals |-> 0])
  /\ UNCHANGED <<rows, foreign>>

CheckYear(c) ==
  /\ req[c].at = "check"
  /\ IF Acceptable(Newest, req[c].choice.type, req[c].choice.value, req[c].choice.start)
     THEN Goto(c, [req[c] EXCEPT !.at = "number",
                                 !.method = LockedMethod(Newest, req[c].method)])
     ELSE Refuse(c)
  /\ UNCHANGED <<rows, foreign>>

\* Mutant: numbers by counting, as count_by_reporting_year would.
NextSequenceByCount == Cardinality(References) + 1

NextSequence == Greatest(References) + 1

NextReference(c) ==
  /\ req[c].at = "number"
  /\ NextSequence <= MaxReference
  /\ Goto(c, [req[c] EXCEPT !.at = "insert", !.seq = NextSequence])
  /\ UNCHANGED <<rows, foreign>>

\* Who is numbering sees one more rival; more than MaxRetries need not be told apart.
Rivalled(d) ==
  IF req[d].at \in {"number", "insert"} /\ req[d].rivals <= MaxRetries
  THEN [req[d] EXCEPT !.rivals = @ + 1] ELSE req[d]

\* Mutant: counts the first attempt as a retry.
MayRetryOnceLess(r) == r.tries + 1 < MaxRetries

MayRetry(r) == r.tries < MaxRetries

\* The reference's key is checked before the period's.
Insert(c) ==
  /\ req[c].at = "insert"
  /\ LET r == req[c]
     IN  IF r.seq \in References
         THEN /\ IF MayRetry(r)
                 THEN Goto(c, [r EXCEPT !.at = "number", !.seq = 0, !.tries = @ + 1])
                 ELSE Goto(c, [at |-> "exhausted", rivals |-> r.rivals])
              /\ UNCHANGED rows
         ELSE IF Exists(Newest, r.choice.type, r.choice.value)
         THEN Refuse(c) /\ UNCHANGED rows
         ELSE /\ Len(rows) < MaxRows
              /\ rows' = Append(rows, [id |-> r.seq, type |-> r.choice.type,
                                       value |-> r.choice.value, start |-> r.choice.start,
                                       status |-> "draft", method |-> r.method])
              /\ req' = [d \in Clients |-> IF d = c THEN Idle ELSE Rivalled(d)]
  /\ UNCHANGED foreign

\* Another cooperative's creation.
Elsewhere ==
  /\ Cardinality(foreign) < MaxForeign /\ NextSequence <= MaxReference
  /\ foreign' = foreign \cup {NextSequence}
  /\ req' = [d \in Clients |-> Rivalled(d)]
  /\ UNCHANGED rows

-----------------------------------------------------------------------------
(* The rest of a submission's life *)

SetStatus(i, from, to) ==
  /\ rows[i].status \in from
  /\ rows' = [rows EXCEPT ![i].status = to]
  /\ UNCHANGED <<foreign, req>>

Submit(i) == SetStatus(i, {"draft"}, "submitted")
Approve(i) == SetStatus(i, {"submitted"}, "approved")
Return(i) == SetStatus(i, {"submitted"}, "draft")

UpdateMethod(i, method) ==
  /\ CheckMethod(Newest, rows[i].id, method)
  /\ rows[i].status = "draft"
  /\ rows' = [rows EXCEPT ![i].method = method]
  /\ UNCHANGED <<foreign, req>>

\* Mutant: any submission can be deleted.
DeletableAll == {"draft", "rejected", "submitted", "approved"}

Deletable == {"draft", "rejected"}

Delete(i) ==
  /\ rows[i].status \in Deletable
  /\ rows' = SubSeq(rows, 1, i - 1) \o SubSeq(rows, i + 1, Len(rows))
  /\ UNCHANGED <<foreign, req>>

Next ==
  \/ \E c \in Clients :
       \/ \E choice \in Periods : FindByPeriod(c, choice)
       \/ CheckYear(c) \/ NextReference(c) \/ Insert(c)
  \/ Elsewhere
  \/ \E i \in DOMAIN rows :
       \/ Submit(i) \/ Approve(i) \/ Return(i) \/ Delete(i)
       \/ \E method \in Methods : UpdateMethod(i, method)

Spec == Init /\ [][Next]_vars

-----------------------------------------------------------------------------
(* What the checks protect: one frequency, one start month, no month twice. *)

Coherent(list) ==
  \A i, j \in DOMAIN list : i # j =>
    /\ list[i].type = list[j].type
    /\ list[i].type # "YEARLY" => list[i].start = list[j].start
    /\ Covers(list[i]) \cap Covers(list[j]) = {}

\* Every submission has its own reference and its own period; nobody else has its reference.
TypeOK ==
  /\ \A i, j \in DOMAIN rows : i # j => rows[i].id # rows[j].id /\
       <<rows[i].type, rows[i].value>> # <<rows[j].type, rows[j].value>>
  /\ \A i \in DOMAIN rows :
       /\ [type |-> rows[i].type, value |-> rows[i].value, start |-> rows[i].start] \in Periods
       /\ rows[i].id \notin foreign
       /\ rows[i].status \in {"draft", "submitted", "approved"}
       /\ rows[i].method \in Methods \cup {DefaultMethod}

\* The dialog never offers a month's start month: it takes the year's.
Offered(lock, c) == c.type = "MONTHLY" => lock.start \in {NoMonth, c.start}

\* lib/period-rules.ts createBlock "mirrors the backend checks so the button explains itself
\* instead of failing on click": on a current list of a coherent year the dialog blocks exactly
\* the choices the server refuses.
ButtonExplains ==
  Coherent(Newest) =>
    \A c \in Periods : LET lock == YearLock(Newest) IN
      Offered(lock, c) =>
        (CreateBlock(lock, c.type, c.value, c.start) = "none"
           <=> /\ ~Exists(Newest, c.type, c.value)
               /\ Acceptable(Newest, c.type, c.value, c.start))

\* The panel of reporting years and the server agree on how far a coherent year is, period by
\* period, whether it counts and which submission stands for it ("mirrors
\* services::reporting_year").
ProgressMirrored ==
  (rows # <<>> /\ Coherent(Newest)) =>
    LET client == YearProgress(Newest)
        server == ServerYearProgress(Newest)
    IN  /\ client.type = server.type
        /\ client.approved = server.approved
        /\ client.complete = server.complete
        /\ client.anchor = server.anchor
        /\ {p \in PeriodsOf(client.type) : client.state[p] = 2} = server.inReview
        /\ {p \in PeriodsOf(client.type) : client.state[p] = 1} = server.drafts

\* In a coherent year, a report the client offers is one the server gives, under the same
\* submission; and a filed return or complete year whose report the server gives is offered.
ReportsAgree ==
  Coherent(Newest) =>
    LET offered == ReportChoices(Newest, {"submitted", "approved"})
        Filed(s) == s.status = "approved" \/ (s.status = "submitted" /\ IsSingleReturn(s))
    IN  \A s \in Range(rows) : LET given == ReportSubmission(Newest, s) IN
          /\ s.id \in offered => given = s.id
          /\ Filed(s) /\ given # NoId => given \in offered

\* A creation fails for want of a reference only when more creations than its retries overtook it.
RetriesSuffice == \A c \in Clients : req[c].at = "exhausted" => req[c].rivals > MaxRetries

\* A year that counts keeps counting, with the same submission, as long as the year stays coherent.
CountedStays ==
  [][(/\ rows # <<>> /\ Coherent(Newest)
      /\ ServerYearProgress(Newest).complete)
     => /\ rows' # <<>>
        /\ Coherent(Newest') =>
             /\ ServerYearProgress(Newest').complete
             /\ ServerYearProgress(Newest').anchor = ServerYearProgress(Newest).anchor]_vars

-----------------------------------------------------------------------------
(* What the code does not keep *)

\* A period the cooperative is reminded of can be created (usePeriodReminders: "Missing periods
\* for the years the cooperative already reports in"); fails after a full-year monthly return.
ReminderAnswerable ==
  Coherent(Newest) =>
    LET lock == YearLock(Newest)
        started == [type \in Range(FrequencyOrder) |->
                      IF type = "YEARLY" THEN 0 ELSE Len(Expected(type))]
    IN  \A p \in PeriodReminders(Newest, started) :
          CreateBlock(lock, lock.type, p, lock.start) = "none"

\* "Only one reporting frequency is allowed per year": two creations checked together break it.
OneFrequency == \A i, j \in DOMAIN rows : rows[i].type = rows[j].type

\* "Only one submission method is allowed per year": the method is checked when it is changed,
\* not when the return is filed.
OneMethodFiled ==
  \A i, j \in DOMAIN rows :
    rows[i].status # "draft" /\ rows[j].status # "draft" => rows[i].method = rows[j].method

\* report_submission expects "the submission's own year is always present": a year counts one
\* frequency, and a period of another one finds none.
OwnYearPresent ==
  \A s \in Range(rows) :
    ~IsSingleReturn(s) => ServerYearProgress(CountedAsApproved(Newest, s)).type = s.type

\* The client and the server name the same frequency of a year that mixes several.
ProgressSameType == rows # <<>> => YearProgress(Newest).type = ServerYearProgress(Newest).type

=============================================================================
