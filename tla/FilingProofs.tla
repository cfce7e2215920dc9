---------------------------- MODULE FilingProofs ----------------------------
(* What holds of a year's filing for any clients, periods, rows, rivals and *)
(* retries: references and periods are unique, the retries suffice, and the *)
(* two sides' rules and counts of a coherent year agree.                    *)
EXTENDS Filing, SequenceTheorems, FiniteSetTheorems, FunctionTheorems, WellFoundedInduction, TLAPS

-----------------------------------------------------------------------------
(* Numbers, frequencies and lists. *)

\* Every nonempty set of numbers has a least one: < is well founded on Nat.
LEMMA LeastOf ==
  ASSUME NEW S \in SUBSET Nat, S # {}
  PROVE  \E n \in S : \A m \in S : n <= m
<1> DEFINE R == OpToRel(<, Nat)
<1>1. IsWellFoundedOn(R, Nat)
  BY NatLessThanWellFounded
<1>2. \A x, y \in Nat : <<y, x>> \in R <=> y < x
  BY DEF OpToRel
<1> HIDE DEF R
<1>3. PICK n \in S : \A m \in S : ~ (<<m, n>> \in R)
  BY <1>1, WFMin
<1>4. \A m \in S : ~ (m < n)
  BY <1>2, <1>3
<1>5. \A m \in S : m \in Nat /\ n \in Nat
  OBVIOUS
<1> QED
  BY <1>4, <1>5

\* What Min and Greatest choose.
LEMMA MinOf ==
  ASSUME NEW S \in SUBSET Nat, S # {}
  PROVE  Min(S) \in S /\ \A m \in S : Min(S) <= m
BY LeastOf DEF Min

LEMMA MaxOf ==
  ASSUME NEW n \in Nat, NEW S \in SUBSET (0..n), S # {}
  PROVE  Greatest(S) \in S /\ \A m \in S : m <= Greatest(S)
<1> DEFINE D == {n - m : m \in S}
<1>0. \A m \in S : m \in Nat /\ m <= n /\ n - m \in Nat
  OBVIOUS
<1>1. D \in SUBSET Nat /\ D # {}
  BY <1>0
<1>2. PICK d \in D : \A m \in D : d <= m
  BY <1>1, LeastOf
<1>3. \E x \in S : d = n - x
  OBVIOUS
<1>4. PICK x \in S : d = n - x
  BY <1>3
<1> HIDE DEF D
<1>5. ASSUME NEW m \in S PROVE m <= x
  <2>1. n - m \in D
    BY DEF D
  <2>2. n - x <= n - m /\ m \in Int /\ x \in Int
    BY <1>2, <1>4, <2>1
  <2> QED
    BY <2>2
<1>6. \A m \in S : m \in Nat /\ x \in Nat
  OBVIOUS
<1>7. \E k \in S : \A m \in S : k >= m
  BY <1>5, <1>6
<1>8. Max(S) \in S /\ \A m \in S : Max(S) >= m
  BY <1>7 DEF Max
<1> QED
  BY <1>6, <1>8 DEF Greatest

\* The four frequencies.
LEMMA Frequencies == Range(FrequencyOrder) = {"YEARLY", "SEMI_ANNUAL", "QUARTERLY", "MONTHLY"}
<1>1. DOMAIN FrequencyOrder = 1..4
  BY DEF FrequencyOrder
<1>2. /\ FrequencyOrder[1] = "YEARLY" /\ FrequencyOrder[2] = "SEMI_ANNUAL"
      /\ FrequencyOrder[3] = "QUARTERLY" /\ FrequencyOrder[4] = "MONTHLY"
  BY DEF FrequencyOrder
<1> QED
  BY <1>1, <1>2 DEF Range

\* A frequency's periods are numbered, each once, and a full year is none of them.
LEMMA Calendar ==
  ASSUME NEW type \in Range(FrequencyOrder)
  PROVE  LET e == Expected(type)
             n == Len(e)
         IN  /\ n \in 1..12 /\ DOMAIN e = 1..n
             /\ PeriodsOf(type) = {e[k] : k \in 1..n}
             /\ \A i, j \in 1..n : e[i] = e[j] => i = j
             /\ FullYear \notin PeriodsOf(type)
<1> DEFINE e == Expected(type)
           n == Len(e)
<1>1. CASE type = "YEARLY"
  <2>1. e = <<"Y">>
    BY <1>1 DEF Expected
  <2> HIDE DEF e
  <2>2. n = 1 /\ DOMAIN e = 1..1 /\ e[1] = "Y"
    BY <2>1
  <2> HIDE DEF n
  <2>3. \A i \in 1..1 : e[i] # "FULL_YEAR"
    BY <2>2
  <2>4. \A i, j \in 1..1 : e[i] = e[j] => i = j
    OBVIOUS
  <2> QED
    BY <2>2, <2>3, <2>4 DEF PeriodsOf, Range, FullYear, e, n
<1>2. CASE type = "SEMI_ANNUAL"
  <2>1. e = <<"H1", "H2">>
    BY <1>2 DEF Expected
  <2> HIDE DEF e
  <2>2. n = 2 /\ DOMAIN e = 1..2
    BY <2>1
  <2> HIDE DEF n
  <2>3. \A i \in 1..2 : e[i] # "FULL_YEAR"
    BY <2>1
  <2>4. \A i, j \in 1..2 : e[i] = e[j] => i = j
    BY <2>1
  <2> QED
    BY <2>2, <2>3, <2>4 DEF PeriodsOf, Range, FullYear, e, n
<1>3. CASE type = "QUARTERLY"
  <2>1. e = <<"Q1", "Q2", "Q3", "Q4">>
    BY <1>3 DEF Expected
  <2> HIDE DEF e
  <2>2. n = 4 /\ DOMAIN e = 1..4
    BY <2>1
  <2> HIDE DEF n
  <2>3. \A i \in 1..4 : e[i] # "FULL_YEAR"
    BY <2>1
  <2>4. \A i, j \in 1..4 : e[i] = e[j] => i = j
    BY <2>1
  <2> QED
    BY <2>2, <2>3, <2>4 DEF PeriodsOf, Range, FullYear, e, n
<1>4. CASE type = "MONTHLY"
  <2>1. e = <<"01", "02", "03", "04", "05", "06", "07", "08", "09", "10", "11", "12">>
    BY <1>4 DEF Expected
  <2> HIDE DEF e
  <2>2. n = 12 /\ DOMAIN e = 1..12
    BY <2>1
  <2> HIDE DEF n
  <2>3. \A i \in 1..12 : e[i] # "FULL_YEAR"
    BY <2>1
  <2>4. \A i, j \in 1..12 : e[i] = e[j] => i = j
    BY <2>1
  <2> QED
    BY <2>2, <2>3, <2>4 DEF PeriodsOf, Range, FullYear, e, n
<1> QED
  BY <1>1, <1>2, <1>3, <1>4, Frequencies

\* Only a monthly year can be filed at once.
LEMMA FullYearIsMonthly ==
  ASSUME NEW type \in Range(FrequencyOrder), FullYear \in ValuesOf(type)
  PROVE  type = "MONTHLY"
BY Calendar DEF ValuesOf

\* Every frequency has its place in the order.
LEMMA Placed ==
  ASSUME NEW type \in Range(FrequencyOrder)
  PROVE  Place(type) \in 1..4
<1>1. DOMAIN FrequencyOrder = 1..4
  BY DEF FrequencyOrder
<1>2. \E i \in DOMAIN FrequencyOrder : FrequencyOrder[i] = type
  BY DEF Range
<1> QED
  BY <1>1, <1>2 DEF Place

Submission == [id: 1..MaxReference, type: Range(FrequencyOrder), value: STRING, start: 1..12,
               status: {"draft", "submitted", "approved"}, method: Methods \cup {DefaultMethod}]

\* A list of submissions, each of a period of its frequency.
Listed(list) ==
  /\ list \in Seq(Submission)
  /\ \A i \in DOMAIN list : list[i].value \in ValuesOf(list[i].type)

\* The dialog's lock blocks exactly the choices the server refuses.
LEMMA DialogMatchesServer ==
  ASSUME NEW list, Listed(list), Coherent(list),
         NEW type \in Range(FrequencyOrder), NEW value \in ValuesOf(type), NEW start \in 1..12,
         type = "MONTHLY" => YearLock(list).start \in {NoMonth, start}
  PROVE  CreateBlock(YearLock(list), type, value, start) = "none"
           <=> ~Exists(list, type, value) /\ Acceptable(list, type, value, start)
<1> DEFINE lock == YearLock(list)
<1>0. /\ list \in Seq(Submission) /\ Range(list) = {list[i] : i \in 1..Len(list)}
      /\ DOMAIN list = 1..Len(list) /\ Len(list) \in Nat
  BY RangeEquality DEF Listed
<1>1. CASE list = <<>>
  <2>1. lock = NoLock
    BY <1>1 DEF YearLock
  <2>2. Range(list) = {}
    BY <1>0, <1>1
  <2> QED
    BY <2>1, <2>2 DEF CreateBlock, Exists, Acceptable, CheckFrequency, CheckPeriodOverlap,
                      CheckFiscalStart
<1>2. CASE list # <<>>
  <2>1. 1 \in DOMAIN list /\ list[1] \in Submission
    BY <1>0, <1>2
  <2> DEFINE t1 == list[1].type
  <2>2. \A i \in DOMAIN list : list[i].type = t1 /\ list[i] \in Submission /\ list[i] \in Range(list)
    BY <1>0, <2>1 DEF Coherent
  <2>3. \A s \in Range(list) : s.type = t1
    BY <1>0, <2>2
  <2>4. lock.taken = {s.value : s \in Range(list)} /\ lock.type = t1
    BY <1>2, <2>3 DEF YearLock
  <2>5. lock # NoLock
    BY <2>1, <2>4, Frequencies DEF NoLock, Submission
  <2>6. CASE t1 # type
    BY <2>2, <2>4, <2>5, <2>6, <2>1 DEF CreateBlock, Acceptable, CheckFrequency
  <2>7. CASE t1 = type
    <3>1. CheckFrequency(list, type)
      BY <2>3, <2>7 DEF CheckFrequency
    <3>2. Exists(list, type, value) <=> value \in lock.taken
      BY <2>3, <2>4, <2>7 DEF Exists
    <3>3. type # "YEARLY" => lock.start = list[1].start /\ \A s \in Range(list) : s.start = lock.start
      <4> SUFFICES ASSUME type # "YEARLY"
                   PROVE  lock.start = list[1].start /\ \A s \in Range(list) : s.start = lock.start
        OBVIOUS
      <4> DEFINE Timed(s) == s.type # "YEARLY"
      <4>1. \E i \in DOMAIN list : Timed(list[i])
        BY <2>1, <2>7
      <4> DEFINE k == SelectInSeq(list, Timed)
                 I == {i \in 1..Len(list) : Timed(list[i])}
      <4>a. I # {} /\ I \in SUBSET Nat /\ I \in SUBSET (DOMAIN list)
        BY <1>0, <4>1
      <4>b. k = Min(I)
        BY <4>a DEF SelectInSeq
      <4>2. k \in DOMAIN list
        <5> HIDE DEF I, k
        <5> QED BY <4>a, <4>b, MinOf
      <4>3. lock.start = list[k].start
        BY <1>2, <4>1 DEF YearLock
      <4> HIDE DEF k
      <4>4. \A i, j \in DOMAIN list : list[i].start = list[j].start
        BY <2>7, <2>2 DEF Coherent
      <4> QED
        BY <1>0, <2>1, <4>2, <4>3, <4>4
    <3>4. lock.start \in 1..12 \/ type = "YEARLY"
      BY <3>3, <2>1 DEF Submission
    <3>5. CheckFiscalStart(list, type, start) <=> (type = "YEARLY" \/ lock.start = start)
      BY <2>1, <2>2, <2>3, <2>7, <3>3 DEF CheckFiscalStart
    <3>6. StartClash(lock, type, start) <=> ~CheckFiscalStart(list, type, start)
      BY <3>4, <3>5, Frequencies DEF StartClash, NoMonth
    <3>7. FullYear \in lock.taken => type = "MONTHLY"
      <4>1. ASSUME NEW i \in DOMAIN list, list[i].value = FullYear PROVE type = "MONTHLY"
        BY <4>1, <2>2, <2>7, FullYearIsMonthly DEF Listed
      <4> QED
        BY <4>1, <2>4, <1>0
    <3>8. lock.taken # {}
      BY <2>1, <2>2, <2>4
    <3>9. CheckPeriodOverlap(list, type, value)
            <=> (type = "MONTHLY" => value # FullYear /\ FullYear \notin lock.taken)
      BY <2>1, <2>2, <2>3, <2>4, <2>7 DEF CheckPeriodOverlap
    <3>10. PeriodsOf(type) \subseteq lock.taken
             => value \in lock.taken \/ (type = "MONTHLY" /\ value = FullYear)
      BY DEF ValuesOf
    <3>11. Acceptable(list, type, value, start)
             <=> CheckPeriodOverlap(list, type, value) /\ CheckFiscalStart(list, type, start)
      BY <3>1 DEF Acceptable
    <3> HIDE DEF lock
    <3>12. CreateBlock(lock, type, value, start) = "none" <=>
             /\ ~StartClash(lock, type, start)
             /\ ~((FullYear \in lock.taken \/ PeriodsOf(type) \subseteq lock.taken) /\ type # "YEARLY")
             /\ value \notin lock.taken
             /\ ~(type = "MONTHLY" /\ lock.taken # {} /\ value = FullYear)
      BY <2>4, <2>5, <2>7 DEF CreateBlock
    <3> QED
      BY <3>2, <3>6, <3>7, <3>8, <3>9, <3>10, <3>11, <3>12 DEF lock
  <2> QED
    BY <2>6, <2>7
<1> QED
  BY <1>1, <1>2

-----------------------------------------------------------------------------
(* The inductive invariant. *)

\* A creation has been overtaken as often as it drew a reference that was taken.
Creation == [at: {"check", "number", "insert"}, choice: Periods, method: Methods \cup {DefaultMethod},
             seq: 0..MaxReference, tries: 0..MaxRetries, rivals: 0..MaxRetries + 1]
Exhausted == [at: {"exhausted"}, rivals: 0..MaxRetries + 1]
Request == {Idle} \cup Creation \cup Exhausted

Overtaken(r) ==
  /\ r.at \in {"check", "number", "insert"} => r.rivals >= r.tries
  /\ r.at = "insert" => r.seq # 0 /\ (r.seq \in References => r.rivals > r.tries)
  /\ r.at = "exhausted" => r.rivals > MaxRetries

FilingInv ==
  /\ rows \in Seq(Submission) /\ TypeOK
  /\ foreign \in SUBSET (1..MaxReference)
  /\ req \in [Clients -> Request] /\ \A c \in Clients : Overtaken(req[c])

\* The bounds are numbers.
LEMMA Bounds == MaxRetries \in Nat /\ MaxReference \in Nat
BY FilingAssumption

\* Which of its forms a request has.
LEMMA Stages ==
  ASSUME NEW r \in Request
  PROVE  /\ r.at \in {"check", "number", "insert"} => r \in Creation
         /\ r.at = "exhausted" => r \in Exhausted
         /\ r.at = "idle" => r = Idle
BY DEF Request, Creation, Exhausted, Idle

\* The rows, and the list of them newest first, which has the same elements.
LEMMA RowsList ==
  ASSUME rows \in Seq(Submission)
  PROVE  /\ Len(rows) \in Nat /\ DOMAIN rows = 1..Len(rows)
         /\ \A i \in DOMAIN rows : rows[i] \in Submission
         /\ Range(rows) = {rows[i] : i \in DOMAIN rows}
<1>1. Len(rows) \in Nat /\ DOMAIN rows = 1..Len(rows)
  OBVIOUS
<1> QED
  BY <1>1 DEF Range

LEMMA NewestList ==
  ASSUME rows \in Seq(Submission)
  PROVE  /\ Newest \in Seq(Submission) /\ Len(Newest) = Len(rows) /\ Range(Newest) = Range(rows)
         /\ DOMAIN Newest = DOMAIN rows
         /\ \A i \in DOMAIN rows : /\ Newest[i] = rows[Len(rows) + 1 - i]
                                   /\ Len(rows) + 1 - i \in DOMAIN rows
         /\ \A i \in DOMAIN rows : rows[i] = Newest[Len(rows) + 1 - i]
<1> DEFINE n == Len(rows)
<1>1. n \in Nat /\ DOMAIN rows = 1..n /\ rows \in [1..n -> Submission]
  OBVIOUS
<1>2. \A i \in 1..n : n + 1 - i \in 1..n /\ n + 1 - (n + 1 - i) = i
  BY <1>1
<1>3. Newest \in [1..n -> Submission] /\ \A i \in 1..n : Newest[i] = rows[n + 1 - i]
  BY <1>1, <1>2 DEF Newest
<1>4. Newest \in Seq(Submission)
  BY <1>1, <1>3, SeqDef
<1>5. Len(Newest) = n /\ DOMAIN Newest = 1..n
  BY <1>1, <1>3, <1>4
<1>6. \A i \in 1..n : rows[i] = Newest[n + 1 - i]
  BY <1>2, <1>3
<1>7. Range(Newest) = Range(rows)
  BY <1>1, <1>2, <1>3, <1>5, <1>6 DEF Range
<1> QED
  BY <1>1, <1>2, <1>3, <1>4, <1>5, <1>6, <1>7

\* What the two sides read is a list of submissions.
LEMMA NewestListed ==
  ASSUME FilingInv
  PROVE  Listed(Newest)
<1>1. Newest \in Seq(Submission) /\ DOMAIN Newest = DOMAIN rows
      /\ \A i \in DOMAIN rows : Newest[i] = rows[Len(rows) + 1 - i] /\ Len(rows) + 1 - i \in DOMAIN rows
  BY NewestList DEF FilingInv
<1>2. \A i \in DOMAIN rows : rows[i].value \in ValuesOf(rows[i].type)
  <2>1. ASSUME NEW i \in DOMAIN rows PROVE rows[i].value \in ValuesOf(rows[i].type)
    <3> DEFINE p == [type |-> rows[i].type, value |-> rows[i].value, start |-> rows[i].start]
    <3>1. p \in Periods
      BY DEF FilingInv, TypeOK
    <3>2. p.value \in ValuesOf(p.type)
      BY <3>1, FilingAssumption
    <3> QED
      BY <3>2
  <2> QED
    BY <2>1
<1> QED
  BY <1>1, <1>2 DEF Listed

\* Every reference drawn is within the bound; the next one is new.
LEMMA ReferencesBound ==
  ASSUME FilingInv
  PROVE  References \in SUBSET (1..MaxReference)
<1>1. \A s \in Range(rows) : s.id \in 1..MaxReference
  BY RowsList DEF FilingInv, Submission
<1> QED
  BY <1>1 DEF References, FilingInv

LEMMA NextIsNew ==
  ASSUME FilingInv
  PROVE  NextSequence \in Nat \ {0} /\ NextSequence \notin References
<1>1. References \in SUBSET (0..MaxReference) /\ MaxReference \in Nat
  BY ReferencesBound, Bounds
<1>2. CASE References = {}
  BY <1>2 DEF NextSequence, Greatest
<1>3. CASE References # {}
  <2> DEFINE g == Greatest(References)
  <2>1. g \in References /\ \A m \in References : m <= g
    BY <1>1, <1>3, MaxOf
  <2> HIDE DEF g
  <2>2. g \in Nat
    BY <1>1, <2>1
  <2>3. g + 1 \notin References
    BY <2>1, <2>2
  <2> QED
    BY <2>2, <2>3 DEF NextSequence, g
<1> QED
  BY <1>2, <1>3

-----------------------------------------------------------------------------
(* A creation. *)

LEMMA IdleFits == Idle \in Request /\ Overtaken(Idle) /\ Idle.at = "idle"
BY DEF Request, Overtaken, Idle

\* A step of one request that changes nothing else.
LEMMA GotoStep ==
  ASSUME FilingInv, NEW c \in Clients, NEW r \in Request, Overtaken(r),
         Goto(c, r), UNCHANGED <<rows, foreign>>
  PROVE  FilingInv'
<1>1. References' = References
  BY DEF References
<1>2. req' \in [Clients -> Request] /\ \A d \in Clients : req'[d] = IF d = c THEN r ELSE req[d]
  BY DEF FilingInv, Goto
<1>3. TypeOK'
  BY DEF FilingInv, TypeOK
<1>4. \A d \in Clients : Overtaken(req[d])'
  BY <1>1, <1>2 DEF FilingInv, Overtaken
<1> QED
  BY <1>2, <1>3, <1>4 DEF FilingInv

LEMMA FindByPeriodStep ==
  ASSUME FilingInv, NEW c \in Clients, NEW choice \in Periods, FindByPeriod(c, choice)
  PROVE  FilingInv'
<1> DEFINE r == [at |-> "check", choice |-> choice, method |-> DefaultMethod,
                  seq |-> 0, tries |-> 0, rivals |-> 0]
<1>1. r \in Request /\ Overtaken(r)
  BY Bounds DEF Request, Creation, Overtaken
<1>2. (Goto(c, Idle) \/ Goto(c, r)) /\ UNCHANGED <<rows, foreign>>
  BY DEF FindByPeriod
<1> HIDE DEF r
<1> QED
  BY <1>1, <1>2, IdleFits, GotoStep

\* The method a year locks is a method.
LEMMA MethodLocked ==
  ASSUME rows \in Seq(Submission), NEW m \in Methods \cup {DefaultMethod}
  PROVE  LockedMethod(Newest, m) \in Methods \cup {DefaultMethod}
<1> DEFINE Filed(s) == s.status # "draft"
           I == {i \in 1..Len(Newest) : Filed(Newest[i])}
           k == SelectInSeq(Newest, Filed)
<1>1. \A i \in 1..Len(Newest) : Newest[i].method \in Methods \cup {DefaultMethod}
  <2>1. \A i \in 1..Len(Newest) : Newest[i] \in Submission
    BY NewestList
  <2> QED
    BY <2>1 DEF Submission
<1>2. CASE Newest = <<>>
  BY <1>2 DEF LockedMethod
<1>3. CASE Newest # <<>> /\ I # {}
  <2>1. k = Min(I)
    BY <1>3 DEF SelectInSeq
  <2>2. I \in SUBSET Nat /\ I \in SUBSET (1..Len(Newest))
    OBVIOUS
  <2>3. LockedMethod(Newest, m) = Newest[k].method
    BY <1>3, NewestList DEF LockedMethod
  <2> HIDE DEF I, k
  <2> QED
    BY <1>1, <1>3, <2>1, <2>2, <2>3, MinOf
<1>4. CASE Newest # <<>> /\ I = {}
  <2>1. 1 \in 1..Len(Newest)
    BY <1>4, NewestList
  <2>2. LockedMethod(Newest, m) = Newest[1].method
    BY <1>4, NewestList DEF LockedMethod
  <2> QED
    BY <1>1, <2>1, <2>2
<1> QED
  BY <1>2, <1>3, <1>4

LEMMA CheckYearStep ==
  ASSUME FilingInv, NEW c \in Clients, CheckYear(c)
  PROVE  FilingInv'
<1> DEFINE r == [req[c] EXCEPT !.at = "number", !.method = LockedMethod(Newest, req[c].method)]
<1>1. req[c] \in Creation /\ Overtaken(req[c]) /\ req[c].at = "check"
  BY Stages DEF FilingInv, CheckYear
<1>2. LockedMethod(Newest, req[c].method) \in Methods \cup {DefaultMethod}
  BY <1>1, MethodLocked DEF FilingInv, Creation
<1>3. r \in Creation /\ r.at = "number" /\ r.rivals = req[c].rivals /\ r.tries = req[c].tries
  BY <1>1, <1>2 DEF Creation
<1>4. (Goto(c, Idle) \/ Goto(c, r)) /\ UNCHANGED <<rows, foreign>>
  BY DEF CheckYear, Refuse
<1> HIDE DEF r
<1>5. r \in Request /\ Overtaken(r)
  BY <1>1, <1>3 DEF Request, Overtaken
<1> QED
  BY <1>4, <1>5, IdleFits, GotoStep

\* The reference drawn, and the request's other fields.
LEMMA Numbered ==
  ASSUME NEW r \in Creation, NEW n \in 1..MaxReference
  PROVE  LET next == [r EXCEPT !.at = "insert", !.seq = n]
         IN  /\ next \in Creation /\ next.at = "insert" /\ next.seq = n
             /\ next.rivals = r.rivals /\ next.tries = r.tries
<1>1. n \in 0..MaxReference
  OBVIOUS
<1> QED
  BY <1>1 DEF Creation

LEMMA NextReferenceStep ==
  ASSUME FilingInv, NEW c \in Clients, NextReference(c)
  PROVE  FilingInv'
<1> DEFINE r == [req[c] EXCEPT !.at = "insert", !.seq = NextSequence]
<1>1. req[c] \in Creation /\ Overtaken(req[c]) /\ req[c].at = "number"
  BY Stages DEF FilingInv, NextReference
<1>2. NextSequence \in 1..MaxReference /\ NextSequence \notin References
  BY NextIsNew, Bounds DEF NextReference
<1>3. /\ r \in Creation /\ r.at = "insert" /\ r.seq = NextSequence
      /\ r.rivals = req[c].rivals /\ r.tries = req[c].tries
  BY <1>1, <1>2, Numbered
<1>4. Goto(c, r) /\ UNCHANGED <<rows, foreign>>
  BY DEF NextReference
<1> HIDE DEF r
<1>5. r.seq # 0 /\ r.rivals >= r.tries /\ r.seq \notin References
  BY <1>1, <1>2, <1>3 DEF Overtaken
<1>6. r \in Request /\ Overtaken(r)
  BY <1>3, <1>5 DEF Request, Overtaken
<1> QED
  BY <1>4, <1>6, GotoStep

\* What one more rival does to a request, whatever the references become.
LEMMA RivalledFits ==
  ASSUME FilingInv, NEW d \in Clients
  PROVE  LET r == Rivalled(d)
         IN  /\ r \in Request
             /\ r.at \in {"number", "insert"} => r.rivals > r.tries /\ (r.at = "insert" => r.seq # 0)
             /\ r.at = "check" => r.rivals >= r.tries
             /\ r.at = "exhausted" => r.rivals > MaxRetries
<1> DEFINE q == req[d]
           r == Rivalled(d)
<1>1. q \in Request /\ Overtaken(q) /\ MaxRetries \in Nat
  BY Bounds DEF FilingInv
<1>2. CASE q.at \in {"number", "insert"} /\ q.rivals <= MaxRetries
  <2>1. q \in Creation
    BY <1>1, <1>2, Stages
  <2> DEFINE n == q.rivals + 1
  <2>2. n \in 0..MaxRetries + 1 /\ q.tries \in Nat /\ n > q.tries
    BY <1>1, <1>2, <2>1 DEF Overtaken, Creation
  <2>3. r = [q EXCEPT !.rivals = n]
    BY <1>2 DEF Rivalled
  <2> HIDE DEF n, r, q
  <2>4. r \in Creation /\ r.at = q.at /\ r.rivals = n /\ r.tries = q.tries /\ r.seq = q.seq
    BY <2>1, <2>2, <2>3 DEF Creation
  <2>5. r \in Request
    BY <2>4 DEF Request
  <2>6. r.at \in {"number", "insert"} /\ r.rivals > r.tries
    BY <1>2, <2>2, <2>4
  <2>7. r.at = "insert" => r.seq # 0
    BY <1>1, <2>4 DEF Overtaken
  <2> QED
    BY <2>5, <2>6, <2>7 DEF r
<1>3. CASE ~(q.at \in {"number", "insert"} /\ q.rivals <= MaxRetries)
  <2>1. r = q
    BY <1>3 DEF Rivalled
  <2>2. q.at \in {"number", "insert"} => q.rivals > q.tries
    <3>1. ASSUME q.at \in {"number", "insert"} PROVE q.rivals > q.tries
      <4>1. q \in Creation
        BY <1>1, <3>1, Stages
      <4>2. q.rivals \in Nat /\ q.tries \in 0..MaxRetries
        BY <1>1, <4>1 DEF Creation
      <4> HIDE DEF q
      <4> QED
        BY <1>1, <1>3, <3>1, <4>2
    <3> QED
      BY <3>1
  <2> HIDE DEF q, r
  <2> QED
    BY <1>1, <2>1, <2>2 DEF Overtaken, r
<1> QED
  BY <1>2, <1>3

LEMMA RivalledOvertaken ==
  ASSUME FilingInv, NEW d \in Clients, req'[d] = Rivalled(d)
  PROVE  req'[d] \in Request /\ Overtaken(req[d])'
<1> DEFINE r == Rivalled(d)
<1>1. /\ r \in Request
      /\ r.at \in {"number", "insert"} => r.rivals > r.tries /\ (r.at = "insert" => r.seq # 0)
      /\ r.at = "check" => r.rivals >= r.tries
      /\ r.at = "exhausted" => r.rivals > MaxRetries
  BY RivalledFits
<1>2. r.at \in {"number", "insert"} => r.rivals >= r.tries
  <2>1. ASSUME r.at \in {"number", "insert"} PROVE r.rivals \in Nat /\ r.tries \in Nat
    <3>1. r \in Creation
      BY <1>1, <2>1, Stages
    <3> HIDE DEF r
    <3> QED
      BY <3>1, Bounds DEF Creation
  <2> HIDE DEF r
  <2> QED
    BY <1>1, <2>1
<1> HIDE DEF r
<1>3. req'[d] = r
  BY DEF r
<1> QED
  BY <1>1, <1>2, <1>3 DEF Overtaken

\* A retry, the last refusal, a period that exists by now, or a new row.
LEMMA InsertStep ==
  ASSUME FilingInv, NEW c \in Clients, Insert(c)
  PROVE  FilingInv'
<1> DEFINE r == req[c]
<1>1. r \in Creation /\ Overtaken(r) /\ r.at = "insert"
  BY Stages DEF FilingInv, Insert
<1>2. /\ r.seq \in 1..MaxReference /\ r.tries \in 0..MaxRetries /\ r.rivals \in 0..MaxRetries + 1
      /\ r.rivals >= r.tries /\ r.choice \in Periods /\ r.method \in Methods \cup {DefaultMethod}
      /\ r.seq \in References => r.rivals > r.tries
  <2> HIDE DEF r
  <2> QED
    BY <1>1, Bounds DEF Creation, Overtaken
<1>3. CASE r.seq \in References /\ MayRetry(r)
  <2> DEFINE n == r.tries + 1
             q == [r EXCEPT !.at = "number", !.seq = 0, !.tries = n]
  <2>1. Goto(c, q) /\ UNCHANGED <<rows, foreign>>
    BY <1>3 DEF Insert
  <2> HIDE DEF r
  <2>2. n \in 0..MaxRetries /\ r.rivals >= n
    BY <1>2, <1>3, Bounds DEF MayRetry
  <2>a. 0 \in 0..MaxReference
    BY Bounds
  <2> HIDE DEF n
  <2>3. q \in Creation
    BY <1>1, <2>2, <2>a DEF Creation
  <2>4. q.at = "number"
    BY <1>1 DEF Creation
  <2>5. q.rivals = r.rivals
    BY <1>1 DEF Creation
  <2>6. q.tries = n
    BY <1>1 DEF Creation
  <2> HIDE DEF q
  <2>7. q \in Request /\ Overtaken(q)
    BY <2>2, <2>3, <2>4, <2>5, <2>6 DEF Request, Overtaken
  <2> QED
    BY <2>1, <2>7, GotoStep
<1>4. CASE r.seq \in References /\ ~MayRetry(r)
  <2> DEFINE q == [at |-> "exhausted", rivals |-> r.rivals]
  <2>1. Goto(c, q) /\ UNCHANGED <<rows, foreign>>
    BY <1>4 DEF Insert
  <2> HIDE DEF r
  <2>2. r.rivals > MaxRetries
    BY <1>2, <1>4, Bounds DEF MayRetry
  <2>3. q \in Request /\ Overtaken(q)
    BY <1>2, <2>2 DEF Request, Exhausted, Overtaken
  <2> HIDE DEF q
  <2> QED
    BY <2>1, <2>3, GotoStep
<1>5. CASE r.seq \notin References /\ Exists(Newest, r.choice.type, r.choice.value)
  <2>1. Goto(c, Idle) /\ UNCHANGED <<rows, foreign>>
    BY <1>5 DEF Insert, Refuse
  <2> QED
    BY <2>1, IdleFits, GotoStep
<1>6. CASE r.seq \notin References /\ ~Exists(Newest, r.choice.type, r.choice.value)
  <2> DEFINE s == [id |-> r.seq, type |-> r.choice.type, value |-> r.choice.value,
                   start |-> r.choice.start, status |-> "draft", method |-> r.method]
  <2>1. rows' = Append(rows, s) /\ req' = [d \in Clients |-> IF d = c THEN Idle ELSE Rivalled(d)]
        /\ UNCHANGED foreign
    BY <1>6 DEF Insert
  <2>2. r.choice.type \in Range(FrequencyOrder) /\ r.choice.value \in STRING /\ r.choice.start \in 1..12
    BY <1>2, FilingAssumption
  <2>3. s \in Submission
    BY <1>2, <2>2 DEF Submission
  <2>4. /\ s.id = r.seq /\ s.type = r.choice.type /\ s.value = r.choice.value
        /\ s.start = r.choice.start /\ s.status = "draft" /\ s.method = r.method
    OBVIOUS
  <2>5. [type |-> s.type, value |-> s.value, start |-> s.start] \in Periods
    BY <1>2, <2>4, FilingAssumption
  <2>6. \A i \in DOMAIN rows : rows[i].id # s.id /\ <<rows[i].type, rows[i].value>> # <<s.type, s.value>>
    <3>1. ASSUME NEW i \in DOMAIN rows
          PROVE  rows[i].id # s.id /\ <<rows[i].type, rows[i].value>> # <<s.type, s.value>>
      <4>1. rows[i] \in Range(rows) /\ rows[i] \in Range(Newest)
        BY RowsList, NewestList DEF FilingInv
      <4>2. rows[i].id \in References
        BY <4>1 DEF References
      <4> QED
        BY <1>6, <2>4, <4>1, <4>2 DEF Exists
    <3> QED
      BY <3>1
  <2>7. s.id \notin foreign
    BY <1>6, <2>4 DEF References
  <2> HIDE DEF s, r
  <2> DEFINE n == Len(rows)
  <2>8. n \in Nat /\ DOMAIN rows = 1..n
    BY RowsList DEF FilingInv
  <2>9. /\ rows' \in Seq(Submission) /\ DOMAIN rows' = 1..n + 1
        /\ \A i \in 1..n : rows'[i] = rows[i]
        /\ rows'[n + 1] = s
    BY <2>1, <2>3, <2>8, AppendProperties DEF FilingInv
  <2> HIDE DEF n
  <2>10. \A i \in DOMAIN rows' : i \in DOMAIN rows \/ i = n + 1
    BY <2>8, <2>9
  <2>11. \A i, j \in DOMAIN rows' : i # j => rows'[i].id # rows'[j].id /\
           <<rows'[i].type, rows'[i].value>> # <<rows'[j].type, rows'[j].value>>
    BY <2>6, <2>8, <2>9, <2>10 DEF FilingInv, TypeOK
  <2>12. \A i \in DOMAIN rows' :
           /\ [type |-> rows'[i].type, value |-> rows'[i].value, start |-> rows'[i].start] \in Periods
           /\ rows'[i].id \notin foreign
           /\ rows'[i].status \in {"draft", "submitted", "approved"}
           /\ rows'[i].method \in Methods \cup {DefaultMethod}
    <3>1. ASSUME NEW i \in DOMAIN rows'
          PROVE  /\ [type |-> rows'[i].type, value |-> rows'[i].value, start |-> rows'[i].start] \in Periods
                 /\ rows'[i].id \notin foreign
                 /\ rows'[i].status \in {"draft", "submitted", "approved"}
                 /\ rows'[i].method \in Methods \cup {DefaultMethod}
      <4>1. CASE i = n + 1
        BY <4>1, <1>2, <2>4, <2>5, <2>7, <2>9
      <4>2. CASE i \in DOMAIN rows
        BY <4>2, <2>8, <2>9 DEF FilingInv, TypeOK
      <4> QED
        BY <2>10, <4>1, <4>2
    <3> QED
      BY <3>1
  <2>13. TypeOK'
    BY <2>1, <2>11, <2>12 DEF TypeOK
  <2>14. ASSUME NEW d \in Clients PROVE req'[d] \in Request /\ Overtaken(req[d])'
    <3>1. CASE d = c
      <4>1. req'[d] = Idle
        BY <2>1, <3>1
      <4> QED
        BY <4>1, IdleFits DEF Overtaken
    <3>2. CASE d # c
      <4>1. req'[d] = Rivalled(d)
        BY <2>1, <3>2
      <4> QED
        BY <4>1, RivalledOvertaken
    <3> QED
      BY <3>1, <3>2
  <2>15. req' \in [Clients -> Request]
    BY <2>1, <2>14
  <2> QED
    BY <2>1, <2>9, <2>13, <2>14, <2>15 DEF FilingInv
<1> QED
  BY <1>3, <1>4, <1>5, <1>6

LEMMA ElsewhereStep ==
  ASSUME FilingInv, Elsewhere
  PROVE  FilingInv'
<1> DEFINE n == NextSequence
<1>1. n \in 1..MaxReference /\ n \notin References
  BY NextIsNew, Bounds DEF Elsewhere
<1>2. foreign' = foreign \cup {n} /\ rows' = rows /\ req' = [d \in Clients |-> Rivalled(d)]
  BY DEF Elsewhere
<1> HIDE DEF n
<1>3. \A i \in DOMAIN rows : rows[i].id # n
  <2>1. \A i \in DOMAIN rows : rows[i].id \in References
    BY RowsList DEF FilingInv, References
  <2> QED
    BY <1>1, <2>1
<1>4. TypeOK'
  BY <1>2, <1>3 DEF FilingInv, TypeOK
<1>5. \A d \in Clients : req'[d] \in Request /\ Overtaken(req[d])'
  BY <1>2, RivalledOvertaken
<1>6. req' \in [Clients -> Request]
  BY <1>2, <1>5
<1> QED
  BY <1>1, <1>2, <1>4, <1>5, <1>6 DEF FilingInv

-----------------------------------------------------------------------------
(* The rest of a submission's life. *)

\* Rows that are left over, or changed in status and method alone, keep the invariant.
LEMMA RowsKept ==
  ASSUME FilingInv, rows' \in Seq(Submission), UNCHANGED <<foreign, req>>,
         NEW k \in [DOMAIN rows' -> DOMAIN rows],
         \A i, j \in DOMAIN rows' : i # j => k[i] # k[j],
         \A i \in DOMAIN rows' : /\ rows'[i].id = rows[k[i]].id /\ rows'[i].type = rows[k[i]].type
                                 /\ rows'[i].value = rows[k[i]].value
                                 /\ rows'[i].start = rows[k[i]].start
  PROVE  FilingInv'
<1>1. \A i \in DOMAIN rows' : rows'[i] \in Submission
  OBVIOUS
<1>2. \A i, j \in DOMAIN rows' : i # j => rows'[i].id # rows'[j].id /\
        <<rows'[i].type, rows'[i].value>> # <<rows'[j].type, rows'[j].value>>
  BY DEF FilingInv, TypeOK
<1>3. \A i \in DOMAIN rows' :
        /\ [type |-> rows'[i].type, value |-> rows'[i].value, start |-> rows'[i].start] \in Periods
        /\ rows'[i].id \notin foreign
  BY DEF FilingInv, TypeOK
<1>4. \A i \in DOMAIN rows' : /\ rows'[i].status \in {"draft", "submitted", "approved"}
                              /\ rows'[i].method \in Methods \cup {DefaultMethod}
  BY <1>1 DEF Submission
<1>5. TypeOK'
  BY <1>2, <1>3, <1>4 DEF TypeOK
<1>6. References' \subseteq References
  <2>1. Range(rows') = {rows'[i] : i \in DOMAIN rows'}
    BY DEF Range
  <2>2. ASSUME NEW s \in Range(rows') PROVE s.id \in References
    <3>1. PICK i \in DOMAIN rows' : s = rows'[i]
      BY <2>1
    <3>2. rows[k[i]] \in Range(rows) /\ s.id = rows[k[i]].id
      BY <3>1, RowsList DEF FilingInv
    <3> QED
      BY <3>2 DEF References
  <2> QED
    BY <2>2 DEF References
<1>7. \A d \in Clients : Overtaken(req[d])'
  BY <1>6 DEF FilingInv, Overtaken
<1> QED
  BY <1>5, <1>7 DEF FilingInv

\* A row whose status or method changes.
LEMMA RowChanged ==
  ASSUME FilingInv, NEW i \in DOMAIN rows, NEW s \in Submission,
         s.id = rows[i].id, s.type = rows[i].type, s.value = rows[i].value, s.start = rows[i].start,
         rows' = [rows EXCEPT ![i] = s], UNCHANGED <<foreign, req>>
  PROVE  FilingInv'
<1>1. rows \in Seq(Submission)
  BY DEF FilingInv
<1>2. rows' \in Seq(Submission) /\ DOMAIN rows' = DOMAIN rows
  BY <1>1
<1> DEFINE k == [j \in DOMAIN rows |-> j]
<1>3. k \in [DOMAIN rows' -> DOMAIN rows] /\ \A j \in DOMAIN rows' : k[j] = j
  BY <1>2
<1> HIDE DEF k
<1>4. \A j \in DOMAIN rows' : /\ rows'[j].id = rows[j].id /\ rows'[j].type = rows[j].type
                              /\ rows'[j].value = rows[j].value /\ rows'[j].start = rows[j].start
  BY <1>1
<1>5. \A j \in DOMAIN rows' : /\ rows'[j].id = rows[k[j]].id /\ rows'[j].type = rows[k[j]].type
                              /\ rows'[j].value = rows[k[j]].value
                              /\ rows'[j].start = rows[k[j]].start
  BY <1>3, <1>4
<1>6. \A j, m \in DOMAIN rows' : j # m => k[j] # k[m]
  BY <1>3
<1> QED
  BY <1>2, <1>3, <1>5, <1>6, RowsKept

LEMMA SetStatusStep ==
  ASSUME FilingInv, NEW i \in DOMAIN rows, NEW from,
         NEW to \in {"draft", "submitted", "approved"}, SetStatus(i, from, to)
  PROVE  FilingInv'
<1> DEFINE s == [rows[i] EXCEPT !.status = to]
<1>1. rows[i] \in Submission
  BY RowsList DEF FilingInv
<1>2. s \in Submission /\ s.id = rows[i].id /\ s.type = rows[i].type /\ s.value = rows[i].value
      /\ s.start = rows[i].start
  BY <1>1 DEF Submission
<1>3. rows' = [rows EXCEPT ![i] = s] /\ UNCHANGED <<foreign, req>>
  BY DEF SetStatus
<1> HIDE DEF s
<1> QED
  BY <1>2, <1>3, RowChanged

LEMMA UpdateMethodStep ==
  ASSUME FilingInv, NEW i \in DOMAIN rows, NEW method \in Methods, UpdateMethod(i, method)
  PROVE  FilingInv'
<1> DEFINE s == [rows[i] EXCEPT !.method = method]
<1>1. rows[i] \in Submission
  BY RowsList DEF FilingInv
<1>2. s \in Submission /\ s.id = rows[i].id /\ s.type = rows[i].type /\ s.value = rows[i].value
      /\ s.start = rows[i].start
  BY <1>1 DEF Submission
<1>3. rows' = [rows EXCEPT ![i] = s] /\ UNCHANGED <<foreign, req>>
  BY DEF UpdateMethod
<1> HIDE DEF s
<1> QED
  BY <1>2, <1>3, RowChanged

\* The part of a list between two places.
LEMMA Slice ==
  ASSUME NEW T, NEW s \in Seq(T), NEW m \in 1..Len(s) + 1, NEW n \in m - 1..Len(s)
  PROVE  /\ SubSeq(s, m, n) \in Seq(T) /\ Len(SubSeq(s, m, n)) = n - m + 1
         /\ \A j \in 1..n - m + 1 : SubSeq(s, m, n)[j] = s[m + j - 1]
<1>1. m \in Int /\ n \in Int /\ \A j \in m..n : s[j] \in T
  OBVIOUS
<1>2. (IF m <= n THEN n - m + 1 ELSE 0) = n - m + 1
  OBVIOUS
<1> QED
  BY <1>1, <1>2, SubSeqProperties

\* A deletion closes the gap.
LEMMA Closed ==
  ASSUME NEW i \in DOMAIN rows, rows \in Seq(Submission),
         rows' = SubSeq(rows, 1, i - 1) \o SubSeq(rows, i + 1, Len(rows))
  PROVE  /\ rows' \in Seq(Submission) /\ Len(rows') = Len(rows) - 1
         /\ \A j \in 1..Len(rows) - 1 : rows'[j] = rows[IF j < i THEN j ELSE j + 1]
<1> DEFINE n == Len(rows)
           before == SubSeq(rows, 1, i - 1)
           after == SubSeq(rows, i + 1, n)
<1>1. n \in Nat /\ i \in 1..n
  BY RowsList
<1>2. before \in Seq(Submission) /\ Len(before) = i - 1 /\ \A j \in 1..i - 1 : before[j] = rows[j]
  <2>1. 1 \in 1..n + 1 /\ i - 1 \in 1 - 1..n
    BY <1>1
  <2>2. before \in Seq(Submission) /\ Len(before) = (i - 1) - 1 + 1
        /\ \A j \in 1..(i - 1) - 1 + 1 : before[j] = rows[1 + j - 1]
    BY <2>1, Slice
  <2>3. \A j \in 1..i - 1 : 1 + j - 1 = j
    OBVIOUS
  <2>4. (i - 1) - 1 + 1 = i - 1
    BY <1>1
  <2> QED
    BY <2>2, <2>3, <2>4
<1>3. after \in Seq(Submission) /\ Len(after) = n - i /\ \A j \in 1..n - i : after[j] = rows[i + j]
  <2>1. i + 1 \in 1..n + 1 /\ n \in (i + 1) - 1..n
    BY <1>1
  <2>2. after \in Seq(Submission) /\ Len(after) = n - (i + 1) + 1
        /\ \A j \in 1..n - (i + 1) + 1 : after[j] = rows[(i + 1) + j - 1]
    BY <2>1, Slice
  <2>3. \A j \in 1..n - i : (i + 1) + j - 1 = i + j
    BY <1>1
  <2>4. n - (i + 1) + 1 = n - i
    BY <1>1
  <2> HIDE DEF after, n
  <2> QED
    BY <2>2, <2>3, <2>4
<1> HIDE DEF before, after
<1>4. /\ rows' \in Seq(Submission) /\ Len(rows') = Len(before) + Len(after)
      /\ \A j \in 1..Len(before) + Len(after) :
           rows'[j] = IF j <= Len(before) THEN before[j] ELSE after[j - Len(before)]
  <2>1. rows' = before \o after
    BY DEF before, after
  <2>2. /\ before \o after \in Seq(Submission) /\ Len(before \o after) = Len(before) + Len(after)
        /\ \A j \in 1..Len(before) + Len(after) :
             (before \o after)[j] = IF j <= Len(before) THEN before[j] ELSE after[j - Len(before)]
    BY <1>2, <1>3, ConcatProperties
  <2> QED
    BY <2>1, <2>2
<1>5. Len(before) + Len(after) = n - 1
  BY <1>1, <1>2, <1>3
<1>6. ASSUME NEW j \in 1..n - 1 PROVE rows'[j] = rows[IF j < i THEN j ELSE j + 1]
  <2>1. CASE j < i
    <3>1. j <= Len(before) /\ j \in 1..i - 1
      BY <1>1, <1>2, <2>1
    <3> QED
      BY <1>2, <1>4, <1>5, <2>1, <3>1
  <2>2. CASE ~(j < i)
    <3>1. ~(j <= Len(before)) /\ j - Len(before) = j - (i - 1) /\ j - (i - 1) \in 1..n - i
      BY <1>1, <1>2, <2>2
    <3>2. i + (j - (i - 1)) = j + 1
      BY <1>1
    <3> QED
      BY <1>3, <1>4, <1>5, <2>2, <3>1, <3>2
  <2> QED
    BY <2>1, <2>2
<1> QED
  BY <1>4, <1>5, <1>6

LEMMA DeleteStep ==
  ASSUME FilingInv, NEW i \in DOMAIN rows, Delete(i)
  PROVE  FilingInv'
<1> DEFINE n == Len(rows)
           k == [j \in 1..n - 1 |-> IF j < i THEN j ELSE j + 1]
<1>1. /\ rows' \in Seq(Submission) /\ Len(rows') = n - 1
      /\ \A j \in 1..n - 1 : rows'[j] = rows[IF j < i THEN j ELSE j + 1]
  BY Closed DEF Delete, FilingInv
<1>2. n \in Nat /\ DOMAIN rows = 1..n /\ DOMAIN rows' = 1..n - 1
  BY <1>1, RowsList DEF FilingInv
<1>3. k \in [DOMAIN rows' -> DOMAIN rows] /\ \A j, m \in DOMAIN rows' : j # m => k[j] # k[m]
  BY <1>2
<1>4. \A j \in DOMAIN rows' : rows'[j] = rows[k[j]]
  BY <1>1, <1>2
<1> HIDE DEF k
<1> QED
  BY <1>1, <1>3, <1>4, RowsKept DEF Delete

-----------------------------------------------------------------------------
(* What holds in every state. *)

\* The invariant holds at first and is kept by every step.
LEMMA InitFits == Init => FilingInv
<1> SUFFICES ASSUME Init PROVE FilingInv
  OBVIOUS
<1>1. rows = <<>> /\ foreign = {} /\ req = [c \in Clients |-> Idle]
  BY DEF Init
<1>2. DOMAIN rows = {} /\ rows \in Seq(Submission)
  BY <1>1
<1>3. TypeOK
  BY <1>2 DEF TypeOK
<1>4. req \in [Clients -> Request] /\ \A c \in Clients : Overtaken(req[c])
  BY <1>1, IdleFits
<1> QED
  BY <1>1, <1>2, <1>3, <1>4 DEF FilingInv

LEMMA NextFits == FilingInv /\ [Next]_vars => FilingInv'
<1> SUFFICES ASSUME FilingInv, [Next]_vars PROVE FilingInv'
  OBVIOUS
<1>1. ASSUME NEW c \in Clients, NEW choice \in Periods, FindByPeriod(c, choice) PROVE FilingInv'
  BY <1>1, FindByPeriodStep
<1>2. ASSUME NEW c \in Clients, CheckYear(c) PROVE FilingInv'
  BY <1>2, CheckYearStep
<1>3. ASSUME NEW c \in Clients, NextReference(c) PROVE FilingInv'
  BY <1>3, NextReferenceStep
<1>4. ASSUME NEW c \in Clients, Insert(c) PROVE FilingInv'
  BY <1>4, InsertStep
<1>5. CASE Elsewhere
  BY <1>5, ElsewhereStep
<1>6. ASSUME NEW i \in DOMAIN rows, Submit(i) \/ Approve(i) \/ Return(i) PROVE FilingInv'
  BY <1>6, SetStatusStep DEF Submit, Approve, Return
<1>7. ASSUME NEW i \in DOMAIN rows, Delete(i) PROVE FilingInv'
  BY <1>7, DeleteStep
<1>8. ASSUME NEW i \in DOMAIN rows, NEW method \in Methods, UpdateMethod(i, method) PROVE FilingInv'
  BY <1>8, UpdateMethodStep
<1>9. CASE UNCHANGED vars
  <2>1. UNCHANGED <<rows, foreign, req>>
    BY <1>9 DEF vars
  <2>2. TypeOK' /\ References' = References
    BY <2>1 DEF FilingInv, TypeOK, References
  <2> QED
    BY <2>1, <2>2 DEF FilingInv, Overtaken
<1> QED
  BY <1>1, <1>2, <1>3, <1>4, <1>5, <1>6, <1>7, <1>8, <1>9 DEF Next

\* The inductive invariant: rows and requests are what they should be, and a creation was
\* overtaken at least as often as it drew a reference that was taken (create_submission).
THEOREM FilingInvariant == Spec => []FilingInv
<1>1. Init => FilingInv
  BY InitFits
<1>2. FilingInv /\ [Next]_vars => FilingInv'
  BY NextFits
<1> QED
  BY <1>1, <1>2, PTL DEF Spec

\* No two submissions of a year share a reference or a period, and no other cooperative has a
\* reference of theirs, whatever creations interleave (next_reference_seq, the table's two keys).
THEOREM TypeCorrect == Spec => []TypeOK
<1>1. FilingInv => TypeOK
  BY DEF FilingInv
<1> QED
  BY <1>1, FilingInvariant, PTL

\* A creation gives up for want of a reference only when more creations than its retries came
\* between its drawing one and its inserting (MAX_REFERENCE_RETRIES).
THEOREM RetriesEnough == Spec => []RetriesSuffice
<1>1. FilingInv => RetriesSuffice
  BY DEF FilingInv, RetriesSuffice, Overtaken
<1> QED
  BY <1>1, FilingInvariant, PTL

\* On a current list of a coherent year, createBlock refuses exactly what the server refuses.
THEOREM DialogExplains == Spec => []ButtonExplains
<1>1. FilingInv => ButtonExplains
  <2> SUFFICES ASSUME FilingInv, Coherent(Newest), NEW c \in Periods, Offered(YearLock(Newest), c)
               PROVE CreateBlock(YearLock(Newest), c.type, c.value, c.start) = "none"
                       <=> /\ ~Exists(Newest, c.type, c.value)
                           /\ Acceptable(Newest, c.type, c.value, c.start)
    BY Zenon DEF ButtonExplains
  <2>3. Listed(Newest)
    BY NewestListed
  <2>4. c.type \in Range(FrequencyOrder) /\ c.value \in ValuesOf(c.type) /\ c.start \in 1..12
    BY FilingAssumption
  <2>5. c.type = "MONTHLY" => YearLock(Newest).start \in {NoMonth, c.start}
    BY DEF Offered
  <2> QED
    BY <2>3, <2>4, <2>5, DialogMatchesServer
<1> QED
  BY <1>1, FilingInvariant, PTL

-----------------------------------------------------------------------------
(* How far a year is, for the server. *)

\* What the server computes of one frequency of a list.
At(list, type, k, stage) ==
  {i \in DOMAIN list : /\ list[i].type = type
                       /\ Expected(type)[k] \in Covers(list[i])
                       /\ Stage(list[i].status) = stage}
Positions(list, type) == {k \in DOMAIN Expected(type) : At(list, type, k, "approved") # {}}
IdAt(list, type, k) == list[Greatest(At(list, type, k, "approved"))].id
FirstOf(list, type) ==
  {k \in Positions(list, type) : \A j \in 1..(k - 1) : IdAt(list, type, j) # IdAt(list, type, k)}

\* The fields of the progress of a frequency.
LEMMA ServerType ==
  ASSUME NEW list, NEW type
  PROVE  ServerProgressFor(list, type).type = type
BY Zenon DEF ServerProgressFor

LEMMA ServerCount ==
  ASSUME NEW list, NEW type
  PROVE  ServerProgressFor(list, type).approved = Cardinality(Positions(list, type))
BY Zenon DEF ServerProgressFor, Positions, At

LEMMA ServerComplete ==
  ASSUME NEW list, NEW type
  PROVE  ServerProgressFor(list, type).complete = (Positions(list, type) = DOMAIN Expected(type))
BY Zenon DEF ServerProgressFor, Positions, At

LEMMA ServerReview ==
  ASSUME NEW list, NEW type
  PROVE  ServerProgressFor(list, type).inReview
           = {Expected(type)[k] : k \in {j \in DOMAIN Expected(type) \ Positions(list, type) :
                                           At(list, type, j, "in_review") # {}}}
BY Zenon DEF ServerProgressFor, Positions, At

LEMMA ServerDrafts ==
  ASSUME NEW list, NEW type
  PROVE  ServerProgressFor(list, type).drafts
           = {Expected(type)[k] : k \in {j \in DOMAIN Expected(type) \ Positions(list, type) :
                                           At(list, type, j, "in_review") = {}
                                           /\ At(list, type, j, "draft") # {}}}
BY Zenon DEF ServerProgressFor, Positions, At

LEMMA ServerAnchor ==
  ASSUME NEW list, NEW type
  PROVE  ServerProgressFor(list, type).anchor
           = IF ServerProgressFor(list, type).complete
             THEN IdAt(list, type, Greatest(FirstOf(list, type))) ELSE NoId
BY Zenon DEF ServerProgressFor, Positions, At, IdAt, FirstOf

\* A share is a number, so the best of one is that one.
LEMMA ServerPercent ==
  ASSUME NEW list, NEW type \in Range(FrequencyOrder)
  PROVE  Percent(ServerProgressFor(list, type)) \in Nat
<1> DEFINE p == ServerProgressFor(list, type)
           n == Len(Expected(type))
           P == Positions(list, type)
<1>1. n \in 1..12 /\ DOMAIN Expected(type) = 1..n
  BY Calendar
<1>2. P \in SUBSET (1..n)
  BY <1>1 DEF Positions
<1>3. IsFiniteSet(1..n) /\ 1 \in Int /\ n \in Int
  BY <1>1, FS_Interval
<1>4. IsFiniteSet(P)
  BY <1>2, <1>3, FS_Subset
<1>5. Cardinality(P) \in Nat
  BY <1>4, FS_CardinalityType
<1> DEFINE m == Cardinality(P)
<1>6. Percent(p) = (m * 100) \div n
  BY ServerCount, ServerType DEF Percent
<1> HIDE DEF m, n
<1>7. m * 100 \in Nat
  BY <1>5 DEF m
<1>8. ASSUME NEW a \in Nat, NEW b \in 1..12 PROVE a \div b \in Nat
  OBVIOUS
<1> QED
  BY <1>1, <1>6, <1>7, <1>8

\* A list of one frequency has the progress of that frequency.
LEMMA ServerOfOne ==
  ASSUME NEW list, NEW type \in Range(FrequencyOrder), TypesIn(list) = {type}
  PROVE  ServerYearProgress(list) = ServerProgressFor(list, type)
<1> DEFINE P == ServerProgressFor(list, type)
           all == {ServerProgressFor(list, t) : t \in TypesIn(list)}
           done == {p \in all : p.complete}
<1>1. all = {P}
  OBVIOUS
<1>2. Place(P.type) \in 1..4 /\ Percent(P) \in Nat
  BY ServerType, ServerPercent, Placed
<1>3. Place(P.type) <= Place(P.type) /\ Percent(P) <= Percent(P)
      /\ ~(Place(P.type) > Place(P.type))
  BY <1>2
<1> DEFINE first == CHOOSE p \in done : \A q \in done : Place(p.type) <= Place(q.type)
           last == CHOOSE p \in all : \A q \in all :
             Percent(q) <= Percent(p) /\ (Place(q.type) > Place(p.type) => Percent(q) < Percent(p))
<1>4. ServerYearProgress(list) = IF done # {} THEN first ELSE last
  BY Zenon DEF ServerYearProgress
<1> HIDE DEF P, all
<1>5. CASE done # {}
  <2>1. done = {P}
    BY <1>1, <1>5
  <2> HIDE DEF done
  <2>2. first = P
    BY <2>1, <1>3
  <2> QED
    BY <1>4, <1>5, <2>2 DEF P
<1>6. CASE done = {}
  <2>1. last = P
    BY <1>1, <1>3
  <2> QED
    BY <1>4, <1>6, <2>1 DEF P
<1> QED
  BY <1>5, <1>6

\* A coherent year has one frequency.
LEMMA OneType ==
  ASSUME NEW list, Listed(list), Coherent(list), list # <<>>
  PROVE  LET type == list[1].type
         IN  /\ type \in Range(FrequencyOrder) /\ TypesIn(list) = {type}
             /\ \A i \in DOMAIN list : list[i] \in Submission /\ list[i].type = type
<1>1. list \in Seq(Submission) /\ DOMAIN list = 1..Len(list) /\ Len(list) \in Nat /\ 1 \in DOMAIN list
  BY DEF Listed
<1>2. \A i \in DOMAIN list : list[i] \in Submission /\ list[i].type = list[1].type
  BY <1>1 DEF Coherent
<1>3. Range(list) = {list[i] : i \in DOMAIN list}
  BY DEF Range
<1>4. TypesIn(list) = {list[1].type}
  BY <1>1, <1>2, <1>3 DEF TypesIn
<1> QED
  BY <1>1, <1>2, <1>4 DEF Submission

\* A submission covers periods of its frequency.
LEMMA CoversPeriods ==
  ASSUME NEW s, s.type \in Range(FrequencyOrder), s.value \in ValuesOf(s.type)
  PROVE  /\ Covers(s) \in SUBSET PeriodsOf(s.type) /\ Covers(s) # {}
         /\ s.value = FullYear => Covers(s) = PeriodsOf(s.type)
<1>1. PeriodsOf(s.type) # {}
  <2> DEFINE e == Expected(s.type)
             n == Len(e)
  <2>1. n \in 1..12 /\ PeriodsOf(s.type) = {e[k] : k \in 1..n}
    BY Calendar
  <2> HIDE DEF e, n
  <2> QED
    BY <2>1
<1>2. s.value # FullYear => s.value \in PeriodsOf(s.type)
  BY DEF ValuesOf
<1> QED
  BY <1>1, <1>2 DEF Covers

LEMMA Approves ==
  ASSUME NEW status \in {"draft", "submitted", "approved"}
  PROVE  Stage(status) = "approved" <=> status = "approved"
BY DEF Stage

\* A complete coherent year has every period covered, and nothing but approved returns.
LEMMA CompleteYear ==
  ASSUME NEW list, Listed(list), Coherent(list), list # <<>>, ServerYearProgress(list).complete
  PROVE  /\ \A p \in PeriodsOf(list[1].type) : \E i \in DOMAIN list : p \in Covers(list[i])
         /\ \A i \in DOMAIN list : list[i].status = "approved"
<1> DEFINE type == list[1].type
           n == Len(Expected(type))
<1>1. /\ type \in Range(FrequencyOrder) /\ TypesIn(list) = {type}
      /\ \A i \in DOMAIN list : list[i] \in Submission /\ list[i].type = type
  BY OneType
<1>2. Positions(list, type) = DOMAIN Expected(type)
  <2>1. ServerProgressFor(list, type).complete
    BY <1>1, ServerOfOne
  <2> QED
    BY <2>1, ServerComplete
<1>3. DOMAIN Expected(type) = 1..n /\ PeriodsOf(type) = {Expected(type)[k] : k \in 1..n}
  BY <1>1, Calendar
<1>4. ASSUME NEW p \in PeriodsOf(type)
      PROVE  \E i \in DOMAIN list : p \in Covers(list[i]) /\ list[i].status = "approved"
  <2>1. PICK k \in 1..n : p = Expected(type)[k]
    BY <1>3
  <2>2. At(list, type, k, "approved") # {}
    BY <1>2, <1>3 DEF Positions
  <2>3. PICK i \in DOMAIN list : p \in Covers(list[i]) /\ Stage(list[i].status) = "approved"
    BY <2>1, <2>2 DEF At
  <2>4. list[i].status \in {"draft", "submitted", "approved"}
    BY <1>1 DEF Submission
  <2> QED
    BY <2>3, <2>4, Approves
<1>5. ASSUME NEW i \in DOMAIN list PROVE list[i].status = "approved"
  <2>1. Covers(list[i]) \in SUBSET PeriodsOf(type) /\ Covers(list[i]) # {}
    BY <1>1, CoversPeriods DEF Listed
  <2>2. PICK p \in PeriodsOf(type) : p \in Covers(list[i])
    BY <2>1
  <2>3. PICK j \in DOMAIN list : p \in Covers(list[j]) /\ list[j].status = "approved"
    BY <1>4
  <2>4. i = j
    BY <2>2, <2>3 DEF Coherent
  <2> QED
    BY <2>3, <2>4
<1> QED
  BY <1>4, <1>5

\* Nothing can be added to it.
LEMMA CompleteFull ==
  ASSUME NEW list, Listed(list), Coherent(list), list # <<>>, ServerYearProgress(list).complete,
         NEW longer, Listed(longer), Len(longer) = Len(list) + 1,
         \A i \in DOMAIN list : longer[i + 1] = list[i]
  PROVE  ~Coherent(longer)
<1> SUFFICES ASSUME Coherent(longer) PROVE FALSE
  OBVIOUS
<1>1. /\ Len(list) \in Nat /\ DOMAIN list = 1..Len(list) /\ 1 \in DOMAIN list
      /\ DOMAIN longer = 1..Len(list) + 1
  BY DEF Listed
<1>2. longer[2] = list[1] /\ longer[1].type = longer[2].type
  BY <1>1 DEF Coherent
<1>3. longer[1].type \in Range(FrequencyOrder) /\ longer[1].value \in ValuesOf(longer[1].type)
  <2>1. longer[1] \in Submission
    BY <1>1 DEF Listed
  <2> QED
    BY <1>1, <2>1 DEF Listed, Submission
<1>4. PICK p \in PeriodsOf(list[1].type) : p \in Covers(longer[1])
  BY <1>2, <1>3, CoversPeriods
<1>5. PICK i \in DOMAIN list : p \in Covers(list[i])
  BY CompleteYear
<1>6. i + 1 \in DOMAIN longer /\ 1 \in DOMAIN longer /\ i + 1 # 1 /\ longer[i + 1] = list[i]
  BY <1>1
<1> QED
  BY <1>4, <1>5, <1>6 DEF Coherent

\* So a step leaves it as it is, or makes it incoherent.
LEMMA CountedStep ==
  ASSUME FilingInv, FilingInv', [Next]_vars, rows # <<>>, Coherent(Newest),
         ServerYearProgress(Newest).complete
  PROVE  rows' # <<>> /\ (Newest' = Newest \/ ~Coherent(Newest'))
<1>1. /\ Listed(Newest) /\ DOMAIN Newest = DOMAIN rows /\ Len(Newest) = Len(rows)
      /\ rows \in Seq(Submission) /\ Len(rows) \in Nat /\ DOMAIN rows = 1..Len(rows)
      /\ \A i \in DOMAIN rows : Newest[i] = rows[Len(rows) + 1 - i]
      /\ \A i \in DOMAIN rows : /\ rows[i] = Newest[Len(rows) + 1 - i]
                                /\ Len(rows) + 1 - i \in DOMAIN rows
  BY NewestListed, NewestList, RowsList DEF FilingInv
<1>2. Newest # <<>>
  BY <1>1
<1>3. \A i \in DOMAIN rows : rows[i].status = "approved"
  BY <1>1, <1>2, CompleteYear
<1>4. CASE rows' = rows
  BY <1>4 DEF Newest
<1>5. ASSUME NEW c \in Clients, Insert(c), rows' # rows PROVE rows' # <<>> /\ ~Coherent(Newest')
  <2>1. \E s : rows' = Append(rows, s)
    BY <1>5 DEF Insert
  <2>2. PICK s : rows' = Append(rows, s)
    BY <2>1
  <2>3. rows' \in Seq(Submission) /\ Len(rows') = Len(rows) + 1 /\ DOMAIN rows' = 1..Len(rows) + 1
        /\ \A i \in DOMAIN rows : rows'[i] = rows[i]
    <3>1. s \in Submission /\ rows' \in Seq(Submission)
      <4>1. rows' \in Seq(Submission)
        BY DEF FilingInv
      <4>2. Len(rows) + 1 \in DOMAIN rows' /\ rows'[Len(rows) + 1] = s
        BY <1>1, <2>2
      <4> QED
        BY <4>1, <4>2
    <3> QED
      BY <1>1, <2>2, <3>1, AppendProperties
  <2> DEFINE n == Len(rows)
  <2>4. Listed(Newest)'
    BY NewestListed, PTL
  <2>5. DOMAIN Newest' = 1..n + 1 /\ \A i \in 1..n + 1 : Newest'[i] = rows'[n + 1 + 1 - i]
    BY <2>3 DEF Newest
  <2>6. Len(Newest') = n + 1
    BY <1>1, <2>4, <2>5 DEF Listed
  <2>7. \A i \in DOMAIN Newest : Newest'[i + 1] = Newest[i]
    <3>1. ASSUME NEW i \in 1..n PROVE Newest'[i + 1] = Newest[i]
      <4>1. i + 1 \in 1..n + 1 /\ n + 1 + 1 - (i + 1) = n + 1 - i /\ n + 1 - i \in 1..n
        BY <1>1
      <4>2. Newest'[i + 1] = rows'[n + 1 - i]
        BY <2>5, <4>1
      <4>3. rows'[n + 1 - i] = rows[n + 1 - i]
        BY <1>1, <2>3, <4>1
      <4> QED
        BY <1>1, <4>2, <4>3
    <3> QED
      BY <1>1, <3>1
  <2>8. Listed(Newest) /\ Len(Newest') = Len(Newest) + 1 /\ Listed(Newest')
    BY <1>1, <2>4, <2>6
  <2>9. ~Coherent(Newest')
    BY <1>2, <2>7, <2>8, CompleteFull
  <2>10. rows' # <<>>
    BY <1>1, <2>3
  <2> QED
    BY <2>9, <2>10
<1>6. ASSUME NEW i \in DOMAIN rows, Submit(i) \/ Approve(i) \/ Return(i) \/ Delete(i) PROVE FALSE
  BY <1>3, <1>6 DEF Submit, Approve, Return, Delete, SetStatus, Deletable
<1>7. ASSUME NEW i \in DOMAIN rows, NEW m \in Methods, UpdateMethod(i, m) PROVE FALSE
  BY <1>3, <1>7 DEF UpdateMethod
<1>8. \/ rows' = rows
      \/ \E c \in Clients : Insert(c) /\ rows' # rows
  BY <1>6, <1>7 DEF Next, FindByPeriod, CheckYear, NextReference, Elsewhere, vars
<1> QED
  BY <1>4, <1>5, <1>8

\* A year that counts goes on counting, with the same submission, while it stays coherent:
\* deletions, returns and late creations cannot undo it (year_progress, delete_submission).
THEOREM CountedForGood == Spec => CountedStays
<1> DEFINE Stays == /\ rows' # <<>>
                    /\ Coherent(Newest') =>
                         /\ ServerYearProgress(Newest').complete
                         /\ ServerYearProgress(Newest').anchor = ServerYearProgress(Newest).anchor
<1>1. FilingInv /\ FilingInv' /\ [Next]_vars
        => [(rows # <<>> /\ Coherent(Newest) /\ ServerYearProgress(Newest).complete) => Stays]_vars
  <2> SUFFICES ASSUME FilingInv, FilingInv', [Next]_vars, rows # <<>>, Coherent(Newest),
                      ServerYearProgress(Newest).complete
               PROVE  Stays
    OBVIOUS
  <2>1. rows' # <<>> /\ (Newest' = Newest \/ ~Coherent(Newest'))
    BY CountedStep
  <2>2. CASE Newest' = Newest
    BY Zenon, <2>1, <2>2
  <2>3. CASE ~Coherent(Newest')
    BY Zenon, <2>1, <2>3
  <2> QED
    BY <2>1, <2>2, <2>3
<1> QED
  BY <1>1, FilingInvariant, PTL DEF CountedStays, Spec

-----------------------------------------------------------------------------
(* How far a year is, for the client. *)

\* The rows of a period, for the client; and those of a stage, for the server.
Of(list, type, p) == {i \in DOMAIN list : list[i].type = type /\ p \in Covers(list[i])}
StateFor(list, type, p) == Greatest({StateOf(list[i].status) : i \in Of(list, type, p)})
Done(list, type) == {p \in PeriodsOf(type) : StateFor(list, type, p) = 3}
ApprovedRows(list, type, p) == {i \in Of(list, type, p) : list[i].status = "approved"}
ApprovedId(list, type, p) ==
  IF ApprovedRows(list, type, p) = {} THEN NoId ELSE list[Greatest(ApprovedRows(list, type, p))].id

\* The fields of the progress of a frequency.
LEMMA ClientType ==
  ASSUME NEW list, NEW type
  PROVE  ProgressFor(list, type).type = type
BY Zenon DEF ProgressFor

LEMMA ClientStates ==
  ASSUME NEW list, NEW type
  PROVE  ProgressFor(list, type).state = [p \in PeriodsOf(type) |-> StateFor(list, type, p)]
BY Zenon DEF ProgressFor, StateFor, Of

LEMMA ClientCount ==
  ASSUME NEW list, NEW type
  PROVE  ProgressFor(list, type).approved
           = Cardinality({p \in PeriodsOf(type) : ProgressFor(list, type).state[p] = 3})
BY Zenon DEF ProgressFor

LEMMA ClientComplete ==
  ASSUME NEW list, NEW type
  PROVE  ProgressFor(list, type).complete
           = (ProgressFor(list, type).approved = Len(Expected(type)))
BY Zenon DEF ProgressFor

LEMMA ClientAnchor ==
  ASSUME NEW list, NEW type
  PROVE  ProgressFor(list, type).anchor
           = IF ProgressFor(list, type).complete
             THEN ApprovedId(list, type, Expected(type)[Len(Expected(type))]) ELSE NoId
BY Zenon DEF ProgressFor, Of, ApprovedRows, ApprovedId

LEMMA GreatestOne ==
  ASSUME NEW x \in Nat
  PROVE  Greatest({x}) = x
<1>1. {x} \in SUBSET (0..x) /\ {x} # {}
  OBVIOUS
<1> QED
  BY <1>1, MaxOf

\* In a coherent list a period has at most one row.
LEMMA RowOf ==
  ASSUME NEW list, Listed(list), Coherent(list), list # <<>>,
         NEW p, NEW i \in DOMAIN list, p \in Covers(list[i])
  PROVE  /\ Of(list, list[1].type, p) = {i} /\ i \in Nat
         /\ StateFor(list, list[1].type, p) = StateOf(list[i].status)
<1>1. /\ \A j \in DOMAIN list : list[j] \in Submission /\ list[j].type = list[1].type
      /\ DOMAIN list = 1..Len(list)
  BY OneType DEF Listed
<1>2. \A j \in DOMAIN list : p \in Covers(list[j]) => j = i
  BY DEF Coherent
<1>3. Of(list, list[1].type, p) = {i}
  BY <1>1, <1>2 DEF Of
<1>4. list[i].status \in {"draft", "submitted", "approved"}
  BY <1>1 DEF Submission
<1>5. StateOf(list[i].status) \in Nat
  BY <1>4 DEF StateOf
<1>6. {StateOf(list[j].status) : j \in Of(list, list[1].type, p)} = {StateOf(list[i].status)}
  BY <1>3
<1>7. StateFor(list, list[1].type, p) = StateOf(list[i].status)
  BY <1>5, <1>6, GreatestOne DEF StateFor
<1> QED
  BY <1>1, <1>3, <1>7

LEMMA NoRowOf ==
  ASSUME NEW list, NEW type, NEW p, \A i \in DOMAIN list : p \notin Covers(list[i])
  PROVE  Of(list, type, p) = {} /\ StateFor(list, type, p) = 0
<1>1. Of(list, type, p) = {}
  BY DEF Of
<1>2. {StateOf(list[j].status) : j \in Of(list, type, p)} = {}
  BY <1>1
<1> QED
  BY <1>1, <1>2 DEF StateFor, Greatest

\* The two classifications of a status.
LEMMA Statuses ==
  ASSUME NEW status \in {"draft", "submitted", "approved"}
  PROVE  /\ StateOf(status) = 3 <=> Stage(status) = "approved"
         /\ StateOf(status) = 2 <=> Stage(status) = "in_review"
         /\ StateOf(status) = 1 <=> Stage(status) = "draft"
         /\ StateOf(status) = 3 <=> status = "approved"
BY DEF StateOf, Stage

\* Both sides put a period in the same state,
LEMMA SameState ==
  ASSUME NEW list, Listed(list), Coherent(list), list # <<>>,
         NEW k \in DOMAIN Expected(list[1].type)
  PROVE  LET type == list[1].type
             state == StateFor(list, type, Expected(type)[k])
         IN  /\ state = 3 <=> k \in Positions(list, type)
             /\ state = 2 <=> k \notin Positions(list, type) /\ At(list, type, k, "in_review") # {}
             /\ state = 1 <=> k \notin Positions(list, type) /\ At(list, type, k, "in_review") = {}
                                /\ At(list, type, k, "draft") # {}
<1> DEFINE type == list[1].type
           p == Expected(type)[k]
           state == StateFor(list, type, p)
<1>1. \A j \in DOMAIN list : list[j] \in Submission /\ list[j].type = type
  BY OneType
<1>2. CASE \E i \in DOMAIN list : p \in Covers(list[i])
  <2>1. PICK i \in DOMAIN list : p \in Covers(list[i])
    BY <1>2
  <2>2. state = StateOf(list[i].status) /\ Of(list, type, p) = {i}
    BY <2>1, RowOf
  <2>3. list[i].status \in {"draft", "submitted", "approved"}
    BY <1>1 DEF Submission
  <2>4. \A stage : At(list, type, k, stage) = IF Stage(list[i].status) = stage THEN {i} ELSE {}
    <3>1. \A stage : At(list, type, k, stage) = {j \in Of(list, type, p) : Stage(list[j].status) = stage}
      BY DEF At, Of
    <3> HIDE DEF p
    <3> QED
      BY <2>2, <3>1
  <2>5. k \in Positions(list, type) <=> At(list, type, k, "approved") # {}
    BY DEF Positions, At
  <2>6. Stage(list[i].status) = "approved" <=> k \in Positions(list, type)
    BY <2>4, <2>5
  <2>7. /\ Stage(list[i].status) = "in_review" <=> At(list, type, k, "in_review") # {}
        /\ Stage(list[i].status) = "draft" <=> At(list, type, k, "draft") # {}
    BY <2>4
  <2>8. Stage(list[i].status) = "in_review" => Stage(list[i].status) # "approved"
    OBVIOUS
  <2>9. Stage(list[i].status) = "draft" => Stage(list[i].status) \notin {"approved", "in_review"}
    OBVIOUS
  <2> HIDE DEF state
  <2> QED
    BY <2>2, <2>3, <2>6, <2>7, <2>8, <2>9, Statuses DEF state
<1>3. CASE ~ \E i \in DOMAIN list : p \in Covers(list[i])
  <2>1. state = 0
    BY <1>3, NoRowOf
  <2>2. \A stage : At(list, type, k, stage) = {}
    BY <1>3 DEF At
  <2>3. k \notin Positions(list, type)
    BY <1>3 DEF Positions, At
  <2> HIDE DEF state
  <2> QED
    BY <2>1, <2>2, <2>3 DEF state
<1> QED
  BY <1>2, <1>3

\* A list of one frequency has the progress of that frequency.
LEMMA ClientOfOne ==
  ASSUME NEW list, NEW type \in Range(FrequencyOrder), TypesIn(list) = {type},
         ProgressFor(list, type).approved \in Nat
  PROVE  YearProgress(list) = ProgressFor(list, type)
<1> DEFINE P == ProgressFor(list, type)
           all == {ProgressFor(list, t) : t \in TypesIn(list)}
           done == {p \in all : p.complete}
           first == CHOOSE p \in done : \A q \in done : Place(p.type) <= Place(q.type)
           best == CHOOSE p \in all : \A q \in all :
                     ~Further(q, p) /\ (Place(q.type) < Place(p.type) => Further(p, q))
<1>1. all = {P}
  OBVIOUS
<1>2. Place(P.type) \in 1..4 /\ P.type = type
  BY ClientType, Placed
<1>3. ~Further(P, P)
  <2> DEFINE a == P.approved
             n == Len(Expected(type))
  <2>1. a \in Nat /\ n \in Nat
    BY Calendar
  <2>2. Further(P, P) <=> a * n > a * n
    BY <1>2 DEF Further
  <2> HIDE DEF a, n
  <2>3. a * n \in Nat
    BY <2>1
  <2> QED
    BY <2>2, <2>3
<1>4. Place(P.type) <= Place(P.type) /\ ~(Place(P.type) < Place(P.type))
  BY <1>2
<1>5. YearProgress(list) = IF done # {} THEN first ELSE best
  BY Zenon DEF YearProgress
<1> HIDE DEF P, all
<1>6. CASE done # {}
  <2>1. done = {P}
    BY <1>1, <1>6
  <2> HIDE DEF done
  <2>2. first = P
    BY <2>1, <1>4
  <2> QED
    BY <1>5, <1>6, <2>2 DEF P
<1>7. CASE done = {}
  <2>1. best = P
    BY <1>1, <1>3, <1>4
  <2> QED
    BY <1>5, <1>7, <2>1 DEF P
<1> QED
  BY <1>6, <1>7

\* count the same approved periods,
LEMMA SameCount ==
  ASSUME NEW list, Listed(list), Coherent(list), list # <<>>
  PROVE  LET type == list[1].type
             client == ProgressFor(list, type)
             server == ServerProgressFor(list, type)
         IN  /\ client.approved = server.approved /\ client.approved \in Nat
             /\ client.complete = server.complete
<1> DEFINE type == list[1].type
           e == Expected(type)
           n == Len(e)
           client == ProgressFor(list, type)
           server == ServerProgressFor(list, type)
           S == Positions(list, type)
           C == {q \in PeriodsOf(type) : client.state[q] = 3}
           f == [k \in S |-> e[k]]
<1>1. /\ type \in Range(FrequencyOrder)
      /\ n \in 1..12 /\ DOMAIN e = 1..n /\ PeriodsOf(type) = {e[k] : k \in 1..n}
      /\ \A i, j \in 1..n : e[i] = e[j] => i = j
  BY OneType, Calendar
<1>2. S \in SUBSET (1..n)
  BY <1>1 DEF Positions
<1>3. \A k \in 1..n : client.state[e[k]] = 3 <=> k \in S
  <2>1. client.state = [q \in PeriodsOf(type) |-> StateFor(list, type, q)]
    BY ClientStates
  <2>2. ASSUME NEW k \in 1..n PROVE client.state[e[k]] = 3 <=> k \in S
    <3>1. client.state[e[k]] = StateFor(list, type, e[k])
      BY <1>1, <2>1
    <3>2. StateFor(list, type, e[k]) = 3 <=> k \in S
      BY <1>1, SameState
    <3> QED
      BY <3>1, <3>2
  <2> QED
    BY <2>2
<1>4. C = {e[k] : k \in S}
  BY <1>1, <1>2, <1>3
<1> HIDE DEF S, C, e, n
<1>5. f \in Bijection(S, C)
  <2>1. f \in [S -> C]
    BY <1>4
  <2>2. \A a, b \in S : f[a] = f[b] => a = b
    BY <1>1, <1>2
  <2>3. \A t \in C : \E s \in S : f[s] = t
    BY <1>4
  <2> QED
    BY <2>1, <2>2, <2>3, Fun_IsBij
<1>6. ExistsBijection(S, C)
  BY <1>5, Fun_ExistsBij
<1>7. n \in Nat /\ IsFiniteSet(1..n) /\ Cardinality(1..n) = n
  <2>1. n \in Int /\ 1 \in Int /\ (IF 1 > n THEN 0 ELSE n - 1 + 1) = n /\ n \in Nat
    BY <1>1
  <2> QED
    BY <2>1, FS_Interval
<1>8. IsFiniteSet(S) /\ (Cardinality(1..n) = Cardinality(S) => 1..n = S)
  BY <1>2, <1>7, FS_Subset
<1>9. Cardinality(C) = Cardinality(S) /\ Cardinality(S) \in Nat
  BY <1>6, <1>8, FS_Bijection, FS_CardinalityType
<1>10. client.approved = Cardinality(C) /\ server.approved = Cardinality(S)
  BY ClientCount, ServerCount DEF C, S
<1>11. client.complete = (client.approved = n)
  BY Zenon, ClientComplete DEF e, n
<1>12. server.complete = (S = DOMAIN e)
  BY Zenon, ServerComplete DEF S, e
<1> HIDE DEF client, server
<1>13. (client.approved = n) = (S = DOMAIN e)
  BY <1>1, <1>7, <1>8, <1>9, <1>10
<1>14. client.complete = server.complete
  BY Zenon, <1>11, <1>12, <1>13
<1>15. client.approved = server.approved /\ client.approved \in Nat
  BY <1>9, <1>10
<1> QED
  BY Zenon, <1>14, <1>15 DEF client, server

\* and let the same submission stand for a complete year: its full-year return, or the last.
LEMMA SameAnchor ==
  ASSUME NEW list, Listed(list), Coherent(list), list # <<>>,
         ServerYearProgress(list).complete,
         \A i, j \in DOMAIN list : i # j => list[i].id # list[j].id
  PROVE  LET type == list[1].type
             n == Len(Expected(type))
         IN  ApprovedId(list, type, Expected(type)[n]) = IdAt(list, type, Greatest(FirstOf(list, type)))
<1> DEFINE type == list[1].type
           e == Expected(type)
           n == Len(e)
           g == Greatest(FirstOf(list, type))
<1>1. /\ type \in Range(FrequencyOrder) /\ n \in 1..12 /\ DOMAIN e = 1..n
      /\ PeriodsOf(type) = {e[k] : k \in 1..n} /\ \A i, j \in 1..n : e[i] = e[j] => i = j
      /\ \A i \in DOMAIN list : list[i] \in Submission /\ list[i].type = type
  BY OneType, Calendar
<1>a. 1 \in 1..n /\ n \in 1..n
  <2> HIDE DEF n
  <2> QED
    BY <1>1
<1>2. \A k \in 1..n : \E i \in DOMAIN list : e[k] \in Covers(list[i])
  BY <1>1, CompleteYear
<1>3. \A i \in DOMAIN list : list[i].status = "approved" /\ i \in Nat
  BY CompleteYear DEF Listed
<1> DEFINE row == [k \in 1..n |-> CHOOSE i \in DOMAIN list : e[k] \in Covers(list[i])]
<1>4. \A k \in 1..n : row[k] \in DOMAIN list /\ e[k] \in Covers(list[row[k]])
  BY <1>2
<1> HIDE DEF row
<1>5. ASSUME NEW k \in 1..n
      PROVE  /\ At(list, type, k, "approved") = {row[k]} /\ IdAt(list, type, k) = list[row[k]].id
             /\ ApprovedId(list, type, e[k]) = list[row[k]].id
  <2>1. Of(list, type, e[k]) = {row[k]} /\ row[k] \in Nat
    BY <1>4, RowOf
  <2>2. ApprovedRows(list, type, e[k]) = {row[k]}
    BY <1>3, <1>4, <2>1 DEF ApprovedRows
  <2>3. At(list, type, k, "approved") = {row[k]}
    <3>1. At(list, type, k, "approved") = {i \in Of(list, type, e[k]) : Stage(list[i].status) = "approved"}
      BY DEF At, Of
    <3>2. Stage("approved") = "approved"
      BY DEF Stage
    <3> HIDE DEF e
    <3> QED
      BY <1>3, <1>4, <2>1, <3>1, <3>2
  <2>4. Greatest({row[k]}) = row[k]
    BY <2>1, GreatestOne
  <2> HIDE DEF e, type
  <2> QED
    BY <2>2, <2>3, <2>4 DEF IdAt, ApprovedId
<1>6. Positions(list, type) = 1..n
  <2>1. \A k \in 1..n : At(list, type, k, "approved") # {}
    BY <1>5
  <2> HIDE DEF n
  <2> QED
    BY <1>1, <2>1 DEF Positions
<1>7. g \in FirstOf(list, type) /\ (\A m \in FirstOf(list, type) : m <= g)
      /\ FirstOf(list, type) \in SUBSET (1..n)
  <2>1. FirstOf(list, type) \in SUBSET (1..n)
    BY <1>6 DEF FirstOf
  <2>2. 1 \in FirstOf(list, type)
    <3>1. 1 \in Positions(list, type) /\ 1..(1 - 1) = {}
      BY <1>a, <1>6
    <3> QED
      BY <3>1 DEF FirstOf
  <2>3. n \in Nat /\ FirstOf(list, type) \in SUBSET (0..n)
    BY <1>1, <2>1
  <2> HIDE DEF n
  <2> QED
    BY <2>1, <2>2, <2>3, MaxOf
<1> HIDE DEF g
<1>8. n \in 1..n /\ g \in 1..n
  BY <1>1, <1>7
<1>9. list[row[g]].id = list[row[n]].id
  <2>1. CASE list[row[1]].value = FullYear
    <3>1. 1 \in 1..n /\ row[1] \in DOMAIN list
      BY <1>4, <1>a
    <3>2. Covers(list[row[1]]) = PeriodsOf(type)
      BY <2>1, <3>1, <1>1 DEF Covers
    <3>3. \A k \in 1..n : e[k] \in Covers(list[row[1]])
      BY <1>1, <3>2
    <3>4. \A k \in 1..n : row[k] = row[1]
      BY <1>4, <3>1, <3>3 DEF Coherent
    <3> QED
      BY <1>8, <3>4
  <2>2. CASE list[row[1]].value # FullYear
    <3>1. ASSUME NEW k \in 1..n PROVE Covers(list[row[k]]) = {e[k]}
      <4>1. CASE list[row[k]].value = FullYear
        <5>1. Covers(list[row[k]]) = PeriodsOf(type)
          BY <1>1, <1>4, <4>1 DEF Covers
        <5>3. e[1] \in Covers(list[row[k]])
          BY <1>1, <1>a, <5>1
        <5>4. row[k] = row[1]
          BY <1>4, <1>a, <5>3 DEF Coherent
        <5> QED
          BY <2>2, <4>1, <5>4
      <4>2. CASE list[row[k]].value # FullYear
        BY <1>4, <4>2 DEF Covers
      <4> QED
        BY <4>1, <4>2
    <3>2. \A k \in 1..n - 1 : row[k] # row[n]
      <4>1. ASSUME NEW k \in 1..n - 1, row[k] = row[n] PROVE FALSE
        <5>1. k \in 1..n /\ k # n
          BY <1>1
        <5>2. {e[k]} = {e[n]}
          BY <1>8, <3>1, <4>1, <5>1
        <5> QED
          BY <1>1, <1>8, <5>1, <5>2
      <4> QED
        BY <4>1
    <3>3. \A k \in 1..n - 1 : IdAt(list, type, k) # IdAt(list, type, n)
      <4>1. \A k \in 1..n - 1 : k \in 1..n
        BY <1>1
      <4> HIDE DEF n
      <4> QED
        BY <1>4, <1>5, <1>8, <3>2, <4>1
    <3>4. n \in FirstOf(list, type)
      BY <1>6, <1>8, <3>3 DEF FirstOf
    <3>5. n <= g
      BY <1>7, <3>4
    <3>6. g = n
      BY <1>1, <1>8, <3>5
    <3> QED
      BY <3>6
  <2> QED
    BY <2>1, <2>2
<1> HIDE DEF n, e, type
<1>10. ApprovedId(list, type, e[n]) = IdAt(list, type, g)
  BY <1>5, <1>8, <1>9
<1> QED
  BY <1>10 DEF n, e, type, g

\* The references tell the submissions of a list apart.
LEMMA UniqueIds ==
  ASSUME FilingInv
  PROVE  \A i, j \in DOMAIN Newest : i # j => Newest[i].id # Newest[j].id
<1>1. /\ DOMAIN Newest = DOMAIN rows /\ DOMAIN rows = 1..Len(rows) /\ Len(rows) \in Nat
      /\ \A i \in DOMAIN rows : Newest[i] = rows[Len(rows) + 1 - i] /\ Len(rows) + 1 - i \in DOMAIN rows
  BY NewestList, RowsList DEF FilingInv
<1>2. \A i, j \in DOMAIN rows : i # j => rows[i].id # rows[j].id
  BY DEF FilingInv, TypeOK
<1>3. ASSUME NEW i \in DOMAIN Newest, NEW j \in DOMAIN Newest, i # j PROVE Newest[i].id # Newest[j].id
  <2>1. Len(rows) + 1 - i # Len(rows) + 1 - j
    BY <1>1, <1>3
  <2> QED
    BY <1>1, <1>2, <1>3, <2>1
<1> QED
  BY <1>3

LEMMA MirrorFits == FilingInv => ProgressMirrored
<1> SUFFICES ASSUME FilingInv, rows # <<>>, Coherent(Newest)
             PROVE  LET client == YearProgress(Newest)
                        server == ServerYearProgress(Newest)
                    IN  /\ client.type = server.type
                        /\ client.approved = server.approved
                        /\ client.complete = server.complete
                        /\ client.anchor = server.anchor
                        /\ {p \in PeriodsOf(client.type) : client.state[p] = 2} = server.inReview
                        /\ {p \in PeriodsOf(client.type) : client.state[p] = 1} = server.drafts
  BY Zenon DEF ProgressMirrored
<1> DEFINE list == Newest
           type == list[1].type
           e == Expected(type)
           n == Len(e)
           client == ProgressFor(list, type)
           server == ServerProgressFor(list, type)
<1>1. Listed(list) /\ list # <<>> /\ Coherent(list)
  <2>1. Len(list) = Len(rows) /\ Len(rows) \in Nat /\ Len(rows) # 0
    BY NewestList, RowsList DEF FilingInv
  <2> QED
    BY <2>1, NewestListed
<1>2. \A i, j \in DOMAIN list : i # j => list[i].id # list[j].id
  BY UniqueIds
<1> HIDE DEF list
<1>3. /\ type \in Range(FrequencyOrder) /\ TypesIn(list) = {type}
      /\ n \in 1..12 /\ DOMAIN e = 1..n /\ PeriodsOf(type) = {e[k] : k \in 1..n}
  BY <1>1, OneType, Calendar
<1>4. /\ client.approved = server.approved /\ client.approved \in Nat
      /\ client.complete = server.complete
  BY <1>1, SameCount
<1>5. YearProgress(list) = client /\ ServerYearProgress(list) = server
  BY <1>3, <1>4, ClientOfOne, ServerOfOne
<1>6. client.type = type /\ server.type = type
  BY ClientType, ServerType
<1>7. client.state = [q \in PeriodsOf(type) |-> StateFor(list, type, q)]
  BY ClientStates
<1>8. \A k \in 1..n :
        /\ client.state[e[k]] = 2 <=> k \notin Positions(list, type) /\ At(list, type, k, "in_review") # {}
        /\ client.state[e[k]] = 1 <=> k \notin Positions(list, type) /\ At(list, type, k, "in_review") = {}
                                        /\ At(list, type, k, "draft") # {}
  <2>1. ASSUME NEW k \in 1..n
        PROVE  /\ client.state[e[k]] = 2 <=> k \notin Positions(list, type) /\ At(list, type, k, "in_review") # {}
               /\ client.state[e[k]] = 1 <=> k \notin Positions(list, type) /\ At(list, type, k, "in_review") = {}
                                               /\ At(list, type, k, "draft") # {}
    <3>1. client.state[e[k]] = StateFor(list, type, e[k])
      BY <1>3, <1>7
    <3> HIDE DEF client
    <3> QED
      BY <1>1, <1>3, <3>1, SameState
  <2> QED
    BY <2>1
<1> DEFINE rest == DOMAIN e \ Positions(list, type)
<1>9a. server.inReview = {e[k] : k \in {j \in rest : At(list, type, j, "in_review") # {}}}
  BY Zenon, ServerReview
<1>9b. server.drafts = {e[k] : k \in {j \in rest : At(list, type, j, "in_review") = {}
                                                  /\ At(list, type, j, "draft") # {}}}
  BY Zenon, ServerDrafts
<1>10. client.anchor = server.anchor
  <2>1. client.anchor = IF client.complete THEN ApprovedId(list, type, e[n]) ELSE NoId
    BY Zenon, ClientAnchor
  <2>2. server.anchor = IF server.complete THEN IdAt(list, type, Greatest(FirstOf(list, type))) ELSE NoId
    BY Zenon, ServerAnchor
  <2>3. server.complete => ApprovedId(list, type, e[n]) = IdAt(list, type, Greatest(FirstOf(list, type)))
    BY Zenon, <1>1, <1>2, <1>5, SameAnchor
  <2> QED
    BY Zenon, <1>4, <2>1, <2>2, <2>3
<1> HIDE DEF client, server, e, n
<1>11. {p \in PeriodsOf(type) : client.state[p] = 2} = server.inReview
  BY <1>3, <1>8, <1>9a
<1>12. {p \in PeriodsOf(type) : client.state[p] = 1} = server.drafts
  BY <1>3, <1>8, <1>9b
<1> HIDE DEF type
<1> QED
  BY Zenon, <1>4, <1>5, <1>6, <1>10, <1>11, <1>12 DEF list

\* The client's panel and the server agree on how far a coherent year is, period by period,
\* whether it counts and which submission stands for it (yearProgress, year_progress).
THEOREM ClientMirrors == Spec => []ProgressMirrored
  BY MirrorFits, FilingInvariant, PTL

-----------------------------------------------------------------------------
(* Which report stands for a year. *)

\* A list of returns of different periods of a frequency, with gaps or without.
Periodic(list, type, m) ==
  /\ m \in Nat /\ DOMAIN list \in SUBSET (1..m)
  /\ \A i \in DOMAIN list :
       /\ list[i].type = type /\ list[i].value \in PeriodsOf(type)
       /\ list[i].value # FullYear
       /\ list[i].status \in {"draft", "submitted", "approved"}
  /\ \A i, j \in DOMAIN list :
       i # j => list[i].value # list[j].value /\ list[i].id # list[j].id

\* A position counts with an approved return of its period, whose id it has.
LEMMA PeriodicAt ==
  ASSUME NEW type, NEW list, NEW m, Periodic(list, type, m), NEW k,
         NEW i \in DOMAIN list, list[i].value = Expected(type)[k],
         list[i].status = "approved"
  PROVE  At(list, type, k, "approved") = {i} /\ IdAt(list, type, k) = list[i].id
<1>1. ASSUME NEW j \in DOMAIN list
      PROVE  /\ Covers(list[j]) = {list[j].value} /\ list[j].type = type /\ j \in Nat
             /\ list[j].value = list[i].value => j = i
  BY DEF Periodic, Covers
<1>2. Stage("approved") = "approved"
  BY DEF Stage
<1>3. At(list, type, k, "approved") = {i}
  <2> DEFINE p == Expected(type)[k]
  <2> HIDE DEF p
  <2>1. list[i].value = p
    BY DEF p
  <2>2. At(list, type, k, "approved")
          = {j \in DOMAIN list : list[j].type = type /\ p \in Covers(list[j])
                                 /\ Stage(list[j].status) = "approved"}
    BY DEF At, p
  <2> QED
    BY <1>1, <1>2, <2>1, <2>2
<1>4. Greatest({i}) = i
  BY <1>1, GreatestOne
<1> QED
  BY <1>3, <1>4 DEF IdAt

LEMMA PeriodicPosition ==
  ASSUME NEW type, NEW list, NEW m, Periodic(list, type, m), NEW k \in Positions(list, type)
  PROVE  \E i \in DOMAIN list :
           list[i].value = Expected(type)[k] /\ list[i].status = "approved"
<1> DEFINE p == Expected(type)[k]
<1>1. PICK i \in DOMAIN list : p \in Covers(list[i]) /\ Stage(list[i].status) = "approved"
  BY DEF Positions, At
<1> HIDE DEF p
<1>2. list[i].status \in {"draft", "submitted", "approved"} /\ list[i].value # FullYear
  BY DEF Periodic
<1> QED
  BY <1>1, <1>2, Approves DEF Covers, p

\* A complete year of such returns is reported under its last period.
LEMMA PeriodicAnchor ==
  ASSUME NEW type \in Range(FrequencyOrder), NEW list, NEW m, Periodic(list, type, m),
         Positions(list, type) = DOMAIN Expected(type), NEW i \in DOMAIN list,
         list[i].value = Expected(type)[Len(Expected(type))]
  PROVE  IdAt(list, type, Greatest(FirstOf(list, type))) = list[i].id
<1> DEFINE e == Expected(type)
           n == Len(e)
           F == FirstOf(list, type)
<1>1. /\ n \in 1..12 /\ DOMAIN e = 1..n
      /\ \A a, b \in 1..n : e[a] = e[b] => a = b
  BY Calendar
<1>2. ASSUME NEW k \in 1..n
      PROVE  \E j \in DOMAIN list : list[j].value = e[k] /\ IdAt(list, type, k) = list[j].id
  <2>1. PICK j \in DOMAIN list : list[j].value = e[k] /\ list[j].status = "approved"
    BY <1>1, PeriodicPosition
  <2> QED
    BY <2>1, PeriodicAt
<1> HIDE DEF n, e
<1>3. n \in 1..n /\ n \in Nat
  BY <1>1
<1>4. ASSUME NEW k \in 1..n PROVE IdAt(list, type, k) = list[i].id <=> k = n
  <2>1. PICK j \in DOMAIN list : list[j].value = e[k] /\ IdAt(list, type, k) = list[j].id
    BY <1>2
  <2>2. list[i].value = e[n]
    BY DEF e, n
  <2>3. j = i <=> k = n
    BY <1>1, <1>3, <2>1, <2>2 DEF Periodic
  <2> QED
    BY <2>1, <2>3 DEF Periodic
<1>5. Positions(list, type) = 1..n
  BY <1>1 DEF e
<1>6. n \in F
  <2>1. \A k \in 1..(n - 1) : k \in 1..n /\ k # n
    BY <1>3
  <2>2. \A k \in 1..(n - 1) : IdAt(list, type, k) # IdAt(list, type, n)
    BY <1>3, <1>4, <2>1
  <2> QED
    BY <1>3, <1>5, <2>2 DEF FirstOf
<1>7. F \in SUBSET (1..n)
  BY <1>5 DEF FirstOf
<1>8. F \in SUBSET (0..n) /\ F # {}
  BY <1>6, <1>7
<1>9. Greatest(F) \in F /\ n <= Greatest(F)
  BY <1>3, <1>6, <1>8, MaxOf
<1>10. Greatest(F) = n
  BY <1>3, <1>7, <1>9
<1> QED
  BY <1>3, <1>4, <1>10

\* A single return of a coherent year is all there is.
LEMMA SingleIsAll ==
  ASSUME NEW list, Listed(list), Coherent(list), NEW i \in DOMAIN list,
         IsSingleReturn(list[i])
  PROVE  DOMAIN list = {i}
<1> DEFINE type == list[1].type
<1>1. /\ type \in Range(FrequencyOrder)
      /\ \A j \in DOMAIN list : list[j].type = type /\ list[j].value \in ValuesOf(type)
  BY OneType DEF Listed
<1>2. \A j \in DOMAIN list : Covers(list[j]) \in SUBSET PeriodsOf(type) /\ Covers(list[j]) # {}
  BY <1>1, CoversPeriods
<1>3. Covers(list[i]) = PeriodsOf(type)
  <2>1. CASE list[i].value = FullYear
    BY <1>1, <2>1 DEF Covers
  <2>2. CASE list[i].value # FullYear
    <3>1. type = "YEARLY"
      BY <1>1, <2>2 DEF IsSingleReturn
    <3>2. PeriodsOf("YEARLY") = {"Y"}
      BY DEF PeriodsOf, Expected, Range
    <3>3. list[i].value \in PeriodsOf(type)
      BY <1>1, <3>1 DEF ValuesOf
    <3> QED
      BY <2>2, <3>1, <3>2, <3>3 DEF Covers
  <2> QED
    BY <2>1, <2>2
<1>4. ASSUME NEW j \in DOMAIN list, j # i PROVE FALSE
  BY <1>2, <1>3, <1>4 DEF Coherent
<1> QED
  BY <1>4

\* Without single returns a coherent year is a list of different periods.
LEMMA CoherentIsPeriodic ==
  ASSUME NEW list, Listed(list), Coherent(list), list # <<>>,
         \A i, j \in DOMAIN list : i # j => list[i].id # list[j].id,
         \A i \in DOMAIN list : ~IsSingleReturn(list[i])
  PROVE  Periodic(list, list[1].type, Len(list))
<1> DEFINE type == list[1].type
<1>1. /\ type \in Range(FrequencyOrder)
      /\ \A j \in DOMAIN list : list[j] \in Submission /\ list[j].type = type
  BY OneType
<1>2. Len(list) \in Nat /\ DOMAIN list = 1..Len(list)
  BY DEF Listed
<1>3. ASSUME NEW i \in DOMAIN list
      PROVE  /\ list[i].value \in PeriodsOf(type) /\ list[i].value # FullYear
             /\ list[i].status \in {"draft", "submitted", "approved"}
             /\ Covers(list[i]) = {list[i].value}
  <2>1. list[i].value # FullYear /\ list[i].value \in ValuesOf(type)
    BY <1>1 DEF Listed, IsSingleReturn
  <2>2. list[i].status \in {"draft", "submitted", "approved"}
    BY <1>1 DEF Submission
  <2> QED
    BY <2>1, <2>2 DEF ValuesOf, Covers
<1>4. ASSUME NEW i \in DOMAIN list, NEW j \in DOMAIN list, i # j
      PROVE  list[i].value # list[j].value
  BY <1>3, <1>4 DEF Coherent
<1> QED
  BY <1>1, <1>2, <1>3, <1>4 DEF Periodic

\* A list with x taken out and put at m, approved: the periods and the references stay,
\* and no other return becomes approved.
Moved(counted, list, x, m) ==
  /\ m \notin DOMAIN list /\ DOMAIN counted = (DOMAIN list \ {x}) \cup {m}
  /\ \A i \in DOMAIN list \ {x} : counted[i] = list[i]
  /\ counted[m].value = list[x].value /\ counted[m].id = list[x].id
  /\ counted[m].status = "approved"

LEMMA CountedShape ==
  ASSUME NEW list \in Seq(Submission), NEW type, Periodic(list, type, Len(list)),
         NEW x \in DOMAIN list, NEW m, m = Len(list) + 1,
         NEW counted, counted = CountedAsApproved(list, list[x])
  PROVE  Periodic(counted, type, m) /\ Moved(counted, list, x, m)
<1> DEFINE s == list[x]
           t == [s EXCEPT !.status = "approved"]
           others == {i \in DOMAIN list : list[i].id # s.id}
<1>1. Len(list) \in Nat /\ DOMAIN list = 1..Len(list) /\ s \in Submission
  OBVIOUS
<1>2. counted = [i \in others \cup {m} |-> IF i = m THEN t ELSE list[i]]
  BY DEF CountedAsApproved
<1>3. others = DOMAIN list \ {x}
  BY DEF Periodic
<1>4. m \in Nat /\ m \notin DOMAIN list /\ DOMAIN list \in SUBSET (1..m) /\ m \in 1..m
  BY <1>1
<1>5. t.value = s.value /\ t.id = s.id /\ t.type = s.type /\ t.status = "approved"
  BY <1>1 DEF Submission
<1>6. s.type = type /\ s.value \in PeriodsOf(type) /\ s.value # FullYear
  BY DEF Periodic
<1> HIDE DEF t
<1>7. DOMAIN counted = (DOMAIN list \ {x}) \cup {m}
  BY <1>2, <1>3
<1>8. counted[m] = t /\ \A i \in DOMAIN list \ {x} : counted[i] = list[i]
  BY <1>2, <1>3, <1>4
<1> HIDE DEF others
<1>9. \A i \in DOMAIN list \ {x} :
        list[i].value # s.value /\ list[i].id # s.id
  BY DEF Periodic
<1>10. DOMAIN counted \in SUBSET (1..m)
  BY <1>4, <1>7
<1>11. ASSUME NEW i \in DOMAIN counted
       PROVE  /\ counted[i].type = type /\ counted[i].value \in PeriodsOf(type)
              /\ counted[i].value # FullYear
              /\ counted[i].status \in {"draft", "submitted", "approved"}
  <2>1. CASE i = m
    BY <1>5, <1>6, <1>8, <2>1
  <2>2. CASE i \in DOMAIN list \ {x}
    BY <1>8, <2>2 DEF Periodic
  <2> QED
    BY <1>7, <2>1, <2>2
<1>12. ASSUME NEW i \in DOMAIN counted, NEW j \in DOMAIN counted, i # j
       PROVE  counted[i].value # counted[j].value /\ counted[i].id # counted[j].id
  <2> HIDE DEF s
  <2>1. CASE i = m
    BY <1>5, <1>7, <1>8, <1>9, <1>12, <2>1
  <2>2. CASE j = m
    BY <1>5, <1>7, <1>8, <1>9, <1>12, <2>2
  <2>3. CASE i \in DOMAIN list \ {x} /\ j \in DOMAIN list \ {x}
    BY <1>8, <1>12, <2>3 DEF Periodic
  <2> QED
    BY <1>7, <2>1, <2>2, <2>3
<1>13. Periodic(counted, type, m)
  BY <1>4, <1>10, <1>11, <1>12 DEF Periodic
<1> HIDE DEF s
<1> QED
  BY <1>2, <1>4, <1>5, <1>6, <1>7, <1>8, <1>13 DEF s, Moved

\* A list of one frequency counts as a year when each period has an approved return.
LEMMA PeriodicComplete ==
  ASSUME NEW type \in Range(FrequencyOrder), NEW list, NEW m, Periodic(list, type, m),
         DOMAIN list # {}
  PROVE  LET year == ServerYearProgress(list)
         IN  /\ year.type = type
             /\ year.complete <=>
                  \A p \in PeriodsOf(type) : \E i \in DOMAIN list :
                    list[i].value = p /\ list[i].status = "approved"
             /\ year.complete => \A i \in DOMAIN list :
                  list[i].value = Expected(type)[Len(Expected(type))] => year.anchor = list[i].id
<1> DEFINE e == Expected(type)
           n == Len(e)
           P == Positions(list, type)
           full == \A p \in PeriodsOf(type) : \E i \in DOMAIN list :
                     list[i].value = p /\ list[i].status = "approved"
<1>1. DOMAIN e = 1..n /\ PeriodsOf(type) = {e[k] : k \in 1..n}
  BY Calendar
<1>2. TypesIn(list) = {type}
  BY DEF TypesIn, Range, Periodic
<1>3. ServerYearProgress(list) = ServerProgressFor(list, type)
  BY <1>2, ServerOfOne
<1> DEFINE year == ServerProgressFor(list, type)
<1>4. year.type = type
  BY ServerType
<1>5. year.complete = (P = DOMAIN e)
  BY Zenon, ServerComplete
<1>6. year.anchor = IF year.complete THEN IdAt(list, type, Greatest(FirstOf(list, type)))
                    ELSE NoId
  BY Zenon, ServerAnchor
<1>7. (P = DOMAIN e) <=> full
  <2>1. ASSUME P = DOMAIN e, NEW p \in PeriodsOf(type)
        PROVE  \E i \in DOMAIN list : list[i].value = p /\ list[i].status = "approved"
    <3>1. PICK k \in 1..n : p = e[k]
      BY <1>1
    <3>2. k \in P
      BY <1>1, <2>1
    <3> QED
      BY <3>1, <3>2, PeriodicPosition
  <2>2. ASSUME full, NEW k \in DOMAIN e PROVE k \in P
    <3>1. e[k] \in PeriodsOf(type)
      BY <1>1
    <3>2. PICK i \in DOMAIN list : list[i].value = e[k] /\ list[i].status = "approved"
      BY <2>2, <3>1
    <3>3. At(list, type, k, "approved") = {i}
      BY <3>2, PeriodicAt
    <3> QED
      BY <3>3 DEF Positions
  <2>3. P \in SUBSET DOMAIN e
    BY DEF Positions
  <2> QED
    BY <2>1, <2>2, <2>3
<1>8. ASSUME P = DOMAIN e, NEW i \in DOMAIN list, list[i].value = e[n]
      PROVE  IdAt(list, type, Greatest(FirstOf(list, type))) = list[i].id
  BY <1>8, PeriodicAnchor
<1> HIDE DEF year, P, e, n, full
<1>9. year.complete <=> full
  BY Zenon, <1>5, <1>7
<1>10. year.complete => \A i \in DOMAIN list : list[i].value = e[n] => year.anchor = list[i].id
  BY Zenon, <1>5, <1>6, <1>8
<1> QED
  BY Zenon, <1>3, <1>4, <1>9, <1>10 DEF year, full, e, n

\* What the client offers of such a year.
LEMMA OfferedOf ==
  ASSUME NEW list, Listed(list), \A i \in DOMAIN list : ~IsSingleReturn(list[i]),
         list # <<>>, NEW exportable
  PROVE  ReportChoices(list, exportable)
           = IF YearProgress(list).complete THEN {YearProgress(list).anchor} ELSE {}
<1>1. list \in Seq(Submission) /\ DOMAIN list = 1..Len(list) /\ Len(list) \in Nat
      /\ DOMAIN list # {}
  BY DEF Listed
<1>2. Restrict(list, {i \in DOMAIN list : ~IsSingleReturn(list[i])}) = list
  <2>1. {i \in DOMAIN list : ~IsSingleReturn(list[i])} = DOMAIN list
    OBVIOUS
  <2>2. [i \in DOMAIN list |-> list[i]] = list
    BY <1>1
  <2> QED
    BY <2>1, <2>2 DEF Restrict
<1>3. {s.id : s \in {t \in Range(list) : IsSingleReturn(t) /\ t.status \in exportable}} = {}
  <2>1. \A t \in Range(list) : ~IsSingleReturn(t)
    BY DEF Range
  <2> QED
    BY <2>1
<1>4. ReportChoices(list, exportable) = YearReport(list)
  BY Zenon, <1>2, <1>3 DEF ReportChoices
<1>5. YearReport(list) = IF YearProgress(list).complete THEN {YearProgress(list).anchor} ELSE {}
  BY Zenon, <1>1 DEF YearReport
<1> QED
  BY Zenon, <1>4, <1>5

\* A return that is its own report.
LEMMA SingleReport ==
  ASSUME NEW list, Listed(list), Coherent(list), NEW x \in DOMAIN list,
         IsSingleReturn(list[x])
  PROVE  /\ ReportSubmission(list, list[x]) = list[x].id
         /\ list[x].status \in {"submitted", "approved"}
              => list[x].id \in ReportChoices(list, {"submitted", "approved"})
<1>1. ReportSubmission(list, list[x]) = list[x].id
  BY Zenon DEF ReportSubmission
<1>2. list[x] \in Range(list)
  BY DEF Range
<1> QED
  BY Zenon, <1>1, <1>2 DEF ReportChoices

\* For a period of a year, the two sides look at the same returns in another order.
LEMMA SharedReport ==
  ASSUME NEW list, Listed(list), Coherent(list), list # <<>>,
         \A i, j \in DOMAIN list : i # j => list[i].id # list[j].id,
         YearProgress(list).complete = ServerYearProgress(list).complete,
         YearProgress(list).anchor = ServerYearProgress(list).anchor,
         \A i \in DOMAIN list : ~IsSingleReturn(list[i]),
         NEW x \in DOMAIN list
  PROVE  LET offered == ReportChoices(list, {"submitted", "approved"})
             given == ReportSubmission(list, list[x])
         IN  /\ list[x].id \in offered => given = list[x].id
             /\ list[x].status = "approved" /\ given # NoId => given \in offered
<1>0. PICK m, counted : m = Len(list) + 1 /\ counted = CountedAsApproved(list, list[x])
  OBVIOUS
<1> DEFINE type == list[1].type
           e == Expected(type)
           last == e[Len(e)]
           here == ServerYearProgress(list)
           there == ServerYearProgress(counted)
           offered == ReportChoices(list, {"submitted", "approved"})
           given == ReportSubmission(list, list[x])
<1>1. /\ type \in Range(FrequencyOrder) /\ list \in Seq(Submission)
      /\ \A i \in DOMAIN list : list[i].type = type
  BY OneType DEF Listed
<1>2. Periodic(list, type, Len(list))
  BY CoherentIsPeriodic
<1>3. Periodic(counted, type, m) /\ Moved(counted, list, x, m)
  BY Zenon, <1>0, <1>1, <1>2, CountedShape
<1>4. last \in PeriodsOf(type)
  <2> DEFINE n == Len(e)
  <2>1. n \in 1..12 /\ PeriodsOf(type) = {e[k] : k \in 1..n}
    BY <1>1, Calendar
  <2> HIDE DEF n, e
  <2>2. n \in 1..n
    BY <2>1
  <2> QED
    BY <2>1, <2>2 DEF n
<1>5. offered = IF here.complete THEN {here.anchor} ELSE {}
  BY Zenon, OfferedOf
<1>6. given = IF there.type = list[x].type /\ there.complete THEN there.anchor ELSE NoId
  BY Zenon, <1>0 DEF ReportSubmission
<1>7. /\ here.complete <=> \A p \in PeriodsOf(type) : \E i \in DOMAIN list :
           list[i].value = p /\ list[i].status = "approved"
      /\ here.complete => \A i \in DOMAIN list :
           list[i].value = last => here.anchor = list[i].id
  BY Zenon, <1>1, <1>2, PeriodicComplete
<1>8. /\ there.type = type
      /\ there.complete <=> \A p \in PeriodsOf(type) : \E i \in DOMAIN counted :
           counted[i].value = p /\ counted[i].status = "approved"
      /\ there.complete => \A i \in DOMAIN counted :
           counted[i].value = last => there.anchor = counted[i].id
  <2>1. DOMAIN counted # {}
    BY <1>3 DEF Moved
  <2> QED
    BY Zenon, <1>1, <1>3, <2>1, PeriodicComplete
<1>9. given = IF there.complete THEN there.anchor ELSE NoId
  BY Zenon, <1>1, <1>6, <1>8
<1> HIDE DEF here, there, offered, given, last, e, type
<1>10. ASSUME here.complete PROVE there.complete
  <2> SUFFICES ASSUME NEW p \in PeriodsOf(type)
               PROVE  \E i \in DOMAIN counted :
                        counted[i].value = p /\ counted[i].status = "approved"
    BY <1>8
  <2>1. PICK i \in DOMAIN list : list[i].value = p /\ list[i].status = "approved"
    BY <1>7, <1>10
  <2>2. CASE i = x BY <1>3, <2>1, <2>2 DEF Moved
  <2>3. CASE i # x BY <1>3, <2>1, <2>3 DEF Moved
  <2> QED
    BY <2>2, <2>3
<1>11. ASSUME there.complete, list[x].status = "approved" PROVE here.complete
  <2> SUFFICES ASSUME NEW p \in PeriodsOf(type)
               PROVE  \E i \in DOMAIN list : list[i].value = p /\ list[i].status = "approved"
    BY <1>7
  <2>1. PICK i \in DOMAIN counted : counted[i].value = p /\ counted[i].status = "approved"
    BY <1>8, <1>11
  <2>2. CASE i = m BY <1>3, <1>11, <2>1, <2>2 DEF Moved
  <2>3. CASE i # m BY <1>3, <2>1, <2>3 DEF Moved
  <2> QED
    BY <2>2, <2>3
\* Both anchors are the return of the last period.
<1>12. ASSUME here.complete PROVE here.anchor = there.anchor
  <2>1. PICK i \in DOMAIN list : list[i].value = last
    BY <1>4, <1>7, <1>12
  <2>2. here.anchor = list[i].id
    BY <1>7, <1>12, <2>1
  <2>3. CASE i = x BY <1>3, <1>8, <1>10, <1>12, <2>1, <2>2, <2>3 DEF Moved
  <2>4. CASE i # x BY <1>3, <1>8, <1>10, <1>12, <2>1, <2>2, <2>4 DEF Moved
  <2> QED
    BY <2>3, <2>4
<1>13. list[x].id \in offered => given = list[x].id
  BY <1>5, <1>9, <1>10, <1>12
<1>14. list[x].status = "approved" /\ given # NoId => given \in offered
  BY <1>5, <1>9, <1>11, <1>12
<1> QED
  BY <1>13, <1>14 DEF offered, given

\* What ProgressMirrored says of the rows, for their list.
LEMMA NewestMirrored ==
  ASSUME FilingInv, rows # <<>>, Coherent(Newest)
  PROVE  /\ Listed(Newest) /\ Newest # <<>> /\ Range(Newest) = Range(rows)
         /\ \A i, j \in DOMAIN Newest : i # j => Newest[i].id # Newest[j].id
         /\ YearProgress(Newest).complete = ServerYearProgress(Newest).complete
         /\ YearProgress(Newest).anchor = ServerYearProgress(Newest).anchor
<1>1. Listed(Newest) /\ Newest # <<>> /\ Range(Newest) = Range(rows)
  <2>1. /\ Len(Newest) = Len(rows) /\ Len(rows) \in Nat /\ Len(rows) # 0
        /\ Range(Newest) = Range(rows)
    BY NewestList, RowsList DEF FilingInv
  <2> QED
    BY <2>1, NewestListed
<1>2. \A i, j \in DOMAIN Newest : i # j => Newest[i].id # Newest[j].id
  BY UniqueIds
<1>3. /\ YearProgress(Newest).complete = ServerYearProgress(Newest).complete
      /\ YearProgress(Newest).anchor = ServerYearProgress(Newest).anchor
  BY Zenon, MirrorFits DEF ProgressMirrored
<1> QED
  BY Zenon, <1>1, <1>2, <1>3

LEMMA ReportsFit == FilingInv => ReportsAgree
<1> DEFINE offered == ReportChoices(Newest, {"submitted", "approved"})
<1> SUFFICES ASSUME FilingInv, Coherent(Newest), NEW s \in Range(rows)
             PROVE  /\ s.id \in offered => ReportSubmission(Newest, s) = s.id
                    /\ (\/ s.status = "approved"
                        \/ s.status = "submitted" /\ IsSingleReturn(s))
                         /\ ReportSubmission(Newest, s) # NoId
                       => ReportSubmission(Newest, s) \in offered
  BY Zenon DEF ReportsAgree
<1>1. rows # <<>>
  BY DEF Range
<1>2. /\ Listed(Newest) /\ Newest # <<>> /\ Range(Newest) = Range(rows)
      /\ \A i, j \in DOMAIN Newest : i # j => Newest[i].id # Newest[j].id
      /\ YearProgress(Newest).complete = ServerYearProgress(Newest).complete
      /\ YearProgress(Newest).anchor = ServerYearProgress(Newest).anchor
  BY Zenon, <1>1, NewestMirrored
<1>3. PICK x \in DOMAIN Newest : s = Newest[x]
  BY <1>2 DEF Range
<1> HIDE DEF offered
<1>4. CASE IsSingleReturn(s)
  <2>1. /\ ReportSubmission(Newest, s) = s.id
        /\ s.status \in {"submitted", "approved"} => s.id \in offered
    BY Zenon, <1>2, <1>3, <1>4, SingleReport DEF offered
  <2> QED
    BY <2>1
<1>5. CASE ~IsSingleReturn(s)
  <2>1. \A i \in DOMAIN Newest : ~IsSingleReturn(Newest[i])
    <3>1. ASSUME NEW i \in DOMAIN Newest, IsSingleReturn(Newest[i]) PROVE FALSE
      <4>1. DOMAIN Newest = {i}
        BY <1>2, <3>1, SingleIsAll
      <4>2. x = i
        BY <4>1
      <4> QED
        BY <1>3, <1>5, <3>1, <4>2
    <3> QED
      BY <3>1
  <2>2. /\ s.id \in offered => ReportSubmission(Newest, s) = s.id
        /\ s.status = "approved" /\ ReportSubmission(Newest, s) # NoId
             => ReportSubmission(Newest, s) \in offered
    BY Zenon, <1>2, <1>3, <2>1, SharedReport DEF offered
  <2> QED
    BY <1>5, <2>2
<1> QED
  BY <1>4, <1>5

\* In a coherent year the client offers exactly the reports of filed returns that the server
\* gives, each under the submission the server names (reportChoices, report_submission).
THEOREM ReportsAlwaysAgree == Spec => []ReportsAgree
  BY ReportsFit, FilingInvariant, PTL

=============================================================================
