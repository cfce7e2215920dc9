-------------------------- MODULE ReportingPeriods --------------------------
(***************************************************************************)
(* The rules of reporting periods, as the client computes them (lib/       *)
(* period-rules.ts, lib/report-years.ts) and as the server enforces them   *)
(* (services/period_rules.rs, services/reporting_year.rs).  A list is the  *)
(* submissions of one cooperative's year, newest first, as both sides read *)
(* it; a submission is [id, type, value, start, status, method].           *)
(***************************************************************************)
EXTENDS Naturals, Sequences, SequencesExt, FiniteSets, FiniteSetsExt, Functions

FrequencyOrder == <<"YEARLY", "SEMI_ANNUAL", "QUARTERLY", "MONTHLY">>
FullYear == "FULL_YEAR"
NoMonth == 0     \* no start month fixed
NoId == 0

\* The periods of a whole year; "Y" stands for the year's own number.
Expected(type) ==
  CASE type = "YEARLY" -> <<"Y">>
    [] type = "SEMI_ANNUAL" -> <<"H1", "H2">>
    [] type = "QUARTERLY" -> <<"Q1", "Q2", "Q3", "Q4">>
    [] type = "MONTHLY" -> <<"01", "02", "03", "04", "05", "06",
                             "07", "08", "09", "10", "11", "12">>

PeriodsOf(type) == Range(Expected(type))
ValuesOf(type) == PeriodsOf(type) \cup (IF type = "MONTHLY" THEN {FullYear} ELSE {})

Covers(s) == IF s.value = FullYear THEN PeriodsOf(s.type) ELSE {s.value}
IsSingleReturn(s) == s.type = "YEARLY" \/ s.value = FullYear

-----------------------------------------------------------------------------
(* The client's "new submission" dialog *)

NoLock == [type |-> "none", start |-> NoMonth, taken |-> {}]

YearLock(list) ==
  IF list = <<>> THEN NoLock ELSE
  LET type == list[1].type
      Timed(s) == s.type # "YEARLY"
  IN  [type  |-> type,
       start |-> IF \E i \in DOMAIN list : Timed(list[i])
                 THEN list[SelectInSeq(list, Timed)].start ELSE NoMonth,
       taken |-> {s.value : s \in {t \in Range(list) : t.type = type}}]

\* Mutant: the start month is not compared.
StartClashNever(lock, type, start) == FALSE

\* Quarters and halves of a year start in the same month.
StartClash(lock, type, start) ==
  type \in {"QUARTERLY", "SEMI_ANNUAL"} /\ lock.start \notin {NoMonth, start}

\* Why the dialog refuses a choice, or "none".
CreateBlock(lock, type, value, start) ==
  LET allTaken == FullYear \in lock.taken \/ PeriodsOf(type) \subseteq lock.taken
  IN  IF lock = NoLock THEN "none"
      ELSE IF lock.type # type THEN "frequency"
      ELSE IF StartClash(lock, type, start) THEN "startMonth"
      ELSE IF allTaken /\ type # "YEARLY" THEN "allTaken"
      ELSE IF value \in lock.taken THEN "taken"
      ELSE IF type = "MONTHLY" /\ lock.taken # {} /\ value = FullYear THEN "fullYearOverlap"
      ELSE "none"

\* The choice the dialog falls back to when a locked year is chosen.
ChoiceForYear(lock, choice) ==
  IF lock = NoLock THEN choice
  ELSE LET order == Expected(lock.type)
           Free(p) == p \notin lock.taken
       IN  [type  |-> lock.type,
            value |-> IF PeriodsOf(lock.type) \subseteq lock.taken \/ lock.type = "YEARLY"
                      THEN order[1] ELSE order[SelectInSeq(order, Free)],
            start |-> IF lock.start = NoMonth THEN choice.start ELSE lock.start]

\* The missing periods the cooperative is reminded of, `started` of them due.
PeriodReminders(list, started) ==
  IF list = <<>> THEN {}
  ELSE LET type == list[1].type
           present == {s.value : s \in {t \in Range(list) : t.type = type}}
       IN  {Expected(type)[i] : i \in 1..started[type]} \ present   \* none due of a yearly return

-----------------------------------------------------------------------------
(* The server's checks of a new submission *)

CheckFrequency(list, type) == \A s \in Range(list) : s.type = type

CheckPeriodOverlap(list, type, value) ==
  type = "MONTHLY" =>
    \A s \in Range(list) : s.type = "MONTHLY" => value # FullYear /\ s.value # FullYear

CheckFiscalStart(list, type, start) ==
  type # "YEARLY" =>
    \A s \in Range(list) : s.type # "YEARLY" => s.start = start

Exists(list, type, value) == \E s \in Range(list) : s.type = type /\ s.value = value

Acceptable(list, type, value, start) ==
  /\ CheckFrequency(list, type)
  /\ CheckPeriodOverlap(list, type, value)
  /\ CheckFiscalStart(list, type, start)

\* The method the year's newest filed return uses, or its newest draft; `asked` for the first.
LockedMethod(list, asked) ==
  LET Filed(s) == s.status # "draft"
  IN  IF list = <<>> THEN asked
      ELSE IF \E i \in DOMAIN list : Filed(list[i]) THEN list[SelectInSeq(list, Filed)].method
      ELSE list[1].method

\* A submission keeps the method every filed one of its year used.
CheckMethod(list, id, method) ==
  \A s \in Range(list) : s.id # id /\ s.status # "draft" => s.method = method

-----------------------------------------------------------------------------
(* How far a year is, for the client *)

\* Mutant: a filed return counts as approved.
StateOfFiled(status) == IF status \in {"submitted", "approved"} THEN 3 ELSE 1

StateOf(status) ==
  CASE status = "approved" -> 3
    [] status \in {"submitted", "in_review", "escalated"} -> 2
    [] status \in {"draft", "returned", "synced", "sync_failed"} -> 1
    [] OTHER -> 0

Greatest(S) == IF S = {} THEN 0 ELSE Max(S)

ProgressFor(list, type) ==
  LET order == Expected(type)
      Of(p) == {i \in DOMAIN list : list[i].type = type /\ p \in Covers(list[i])}
      state == [p \in PeriodsOf(type) |-> Greatest({StateOf(list[i].status) : i \in Of(p)})]
      approvedId(p) ==
        LET found == {i \in Of(p) : list[i].status = "approved"}
        IN  IF found = {} THEN NoId ELSE list[Greatest(found)].id
      approved == Cardinality({p \in PeriodsOf(type) : state[p] = 3})
      complete == approved = Len(order)
  IN  [type |-> type, state |-> state, approved |-> approved, complete |-> complete,
       anchor |-> IF complete THEN approvedId(order[Len(order)]) ELSE NoId]

TypesIn(list) == {s.type : s \in Range(list)}
Place(type) == CHOOSE i \in DOMAIN FrequencyOrder : FrequencyOrder[i] = type

\* p is strictly further than q: the client compares the shares.
Further(p, q) == p.approved * Len(Expected(q.type)) > q.approved * Len(Expected(p.type))

\* The first complete frequency, otherwise the first of those that are furthest.
YearProgress(list) ==
  LET all == {ProgressFor(list, type) : type \in TypesIn(list)}
      done == {p \in all : p.complete}
  IN  IF done # {} THEN CHOOSE p \in done : \A q \in done : Place(p.type) <= Place(q.type)
      ELSE CHOOSE p \in all : \A q \in all :
             ~Further(q, p) /\ (Place(q.type) < Place(p.type) => Further(p, q))

\* Mutant: the newest approved period stands for its year.
YearReportUnfinished(periodic) ==
  IF \E s \in Range(periodic) : s.status = "approved"
  THEN {(CHOOSE s \in Range(periodic) : s.status = "approved").id} ELSE {}

\* The one report of a year filed by periods, kept under its last period.
YearReport(periodic) ==
  IF DOMAIN periodic # {} /\ YearProgress(periodic).complete
  THEN {YearProgress(periodic).anchor} ELSE {}

\* The reports the client offers; a pending year is listed and cannot be chosen.  What is
\* filtered out of a list leaves a gap: only the order of positions counts.
ReportChoices(list, exportable) ==
  {s.id : s \in {t \in Range(list) : IsSingleReturn(t) /\ t.status \in exportable}}
    \cup YearReport(Restrict(list, {i \in DOMAIN list : ~IsSingleReturn(list[i])}))

-----------------------------------------------------------------------------
(* How far a year is, for the server *)

Stage(status) ==
  CASE status = "approved" -> "approved"
    [] status \in {"submitted", "in_review", "escalated"} -> "in_review"
    [] status \in {"draft", "returned", "synced", "sync_failed"} -> "draft"
    [] OTHER -> "ignored"

\* The later of two submissions of a period replaces the earlier in the map.
ServerProgressFor(list, type) ==
  LET order == Expected(type)
      At(k, stage) == {i \in DOMAIN list : /\ list[i].type = type
                                           /\ order[k] \in Covers(list[i])
                                           /\ Stage(list[i].status) = stage}
      positions == {k \in DOMAIN order : At(k, "approved") # {}}
      idAt(k) == list[Greatest(At(k, "approved"))].id
      complete == positions = DOMAIN order
      \* the ids in order of position, each once: the last one to appear
      newest == {k \in positions : \A j \in 1..(k - 1) : idAt(j) # idAt(k)}
  IN  [type     |-> type,
       approved |-> Cardinality(positions),
       complete |-> complete,
       inReview |-> {order[k] : k \in {j \in DOMAIN order \ positions : At(j, "in_review") # {}}},
       drafts   |-> {order[k] : k \in {j \in DOMAIN order \ positions :
                                         At(j, "in_review") = {} /\ At(j, "draft") # {}}},
       ids      |-> IF complete THEN {idAt(k) : k \in positions} ELSE {},
       anchor   |-> IF complete THEN idAt(Greatest(newest)) ELSE NoId]

Percent(p) == (p.approved * 100) \div Len(Expected(p.type))

\* The first complete frequency, otherwise the last of those with the highest percentage.
ServerYearProgress(list) ==
  LET all == {ServerProgressFor(list, type) : type \in TypesIn(list)}
      done == {p \in all : p.complete}
  IN  IF done # {} THEN CHOOSE p \in done : \A q \in done : Place(p.type) <= Place(q.type)
      ELSE CHOOSE p \in all : \A q \in all :
             Percent(q) <= Percent(p) /\ (Place(q.type) > Place(p.type) => Percent(q) < Percent(p))

\* The list with s taken out and put last, approved.
CountedAsApproved(list, s) ==
  LET last == Len(list) + 1
      others == {i \in DOMAIN list : list[i].id # s.id}
  IN  [i \in others \cup {last} |->
         IF i = last THEN [s EXCEPT !.status = "approved"] ELSE list[i]]

\* The submission whose report describes s, s counting as approved; NoId while its year is incomplete.
ReportSubmission(list, s) ==
  IF IsSingleReturn(s) THEN s.id
  ELSE LET year == ServerYearProgress(CountedAsApproved(list, s))
       IN  IF year.type = s.type /\ year.complete THEN year.anchor ELSE NoId

=============================================================================
