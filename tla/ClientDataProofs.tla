-------------------------- MODULE ClientDataProofs --------------------------
(* What holds of a dataset of the client and a mutation that concerns it,   *)
(* for any people and any number of saves, whatever pair of hooks it is.    *)
EXTENDS ClientData, TLAPS

-----------------------------------------------------------------------------
(* The inductive invariant. *)

\* A save and a waiting one exclude each other, and there is room to apply either.
OneSave ==
  /\ save = "sent" => server < MaxVersion
  /\ save # "idle" => outbox = Nothing
  /\ outbox # Nothing /\ outbox.needs = "server" => server < MaxVersion

\* Nobody sees a version the server has not had, and only datasets with a row have one.
Past == seen \in 0..server
RowDeclared == row # Nothing => pair.row

\* A fetch that will be taken for fresh started after the last answered save.
FetchCurrent ==
  pair.promised /\ fetch # Nothing => fetch.v >= seen \/ fetch.kind = "late"

\* NoStaleFresh speaks of open views; an answer that waits for a view to open is no older.
AnswerCurrent ==
  pair.promised /\ screen # Nothing => screen.v >= seen \/ Stale(screen) \/ screen.kind \in {"late", "lost"}

DataInv ==
  /\ TypeOK /\ pair \in Related /\ OwnDataOnly
  /\ OneSave /\ Past /\ RowDeclared /\ FetchCurrent /\ AnswerCurrent

-----------------------------------------------------------------------------
(* The helpers of the actions. *)

LEMMA NothingIsNo ==
  Nothing \notin Answers /\ Nothing \notin Rows /\ Nothing \notin Fetches /\ Nothing \notin Waiting
<1>1. Nothing \notin Answers
  BY DEF Nothing, Answers
<1>2. Nothing \notin Rows
  BY DEF Nothing, Rows
<1>3. Nothing \notin Fetches
  BY DEF Nothing, Fetches
<1>4. Nothing \notin Waiting
  BY DEF Nothing, Waiting
<1> QED
  BY <1>1, <1>2, <1>3, <1>4

LEMMA NewFetch ==
  ASSUME NEW v \in Versions
  PROVE  FetchOf(v) \in Fetches /\ FetchOf(v).v = v /\ FetchOf(v).kind = "own"
BY DEF FetchOf, Fetches

LEMMA NewAnswer ==
  ASSUME NEW u \in Users, NEW v \in Versions, NEW kind \in {"own", "late", "copy", "lost"}
  PROVE  LET a == Answer(u, v, kind) IN a \in Answers /\ a.of = u /\ a.v = v /\ a.kind = kind
BY DEF Answer, Answers

LEMMA StaleAnswer ==
  ASSUME NEW a \in Answers
  PROVE  LET b == [a EXCEPT !.is = "stale"]
         IN  b \in Answers /\ b.is = "stale" /\ b.of = a.of
BY DEF Answers

LEMMA LateFetch ==
  ASSUME NEW f \in Fetches
  PROVE  LET g == [f EXCEPT !.kind = "late"] IN g \in Fetches /\ g.kind = "late"
BY DEF Fetches

\* What an invalidation leaves: nothing that a view would take for fresh, and a fetch that is new
\* or known to be late.
LEMMA Invalidated ==
  ASSUME TypeOK, NEW v \in Versions, InvalidateAt(v)
  PROVE  /\ screen' \in {Nothing} \union Answers
         /\ screen' # Nothing => screen # Nothing /\ screen'.is = "stale" /\ screen'.of = screen.of
         /\ fetch' \in {Nothing} \union Fetches
         /\ fetch' # Nothing => fetch'.v = v \/ fetch'.kind = "late"
<1>3. /\ fetch' \in {Nothing} \union Fetches
      /\ fetch' # Nothing => fetch'.v = v \/ fetch'.kind = "late"
  <2>1. CASE Restarts
    <3>1. fetch' = FetchOf(v)
      BY <2>1 DEF InvalidateAt
    <3> QED
      BY <3>1, NewFetch
  <2>2. CASE ~Restarts /\ fetch # Nothing
    <3>1. fetch' = [fetch EXCEPT !.kind = "late"] /\ fetch \in Fetches
      BY <2>2 DEF InvalidateAt, TypeOK
    <3> QED
      BY <3>1, LateFetch
  <2>3. CASE ~Restarts /\ fetch = Nothing
    <3>1. fetch' = Nothing
      BY <2>3 DEF InvalidateAt
    <3> QED
      BY <3>1
  <2> QED
    BY <2>1, <2>2, <2>3
<1>4. /\ screen' \in {Nothing} \union Answers
      /\ screen' # Nothing => screen # Nothing /\ screen'.is = "stale" /\ screen'.of = screen.of
  <2>1. CASE screen = Nothing
    BY <2>1 DEF InvalidateAt
  <2>2. CASE screen # Nothing
    <3>1. screen' = [screen EXCEPT !.is = "stale"] /\ screen \in Answers
      BY <2>2 DEF InvalidateAt, TypeOK
    <3> QED
      BY <2>2, <3>1, StaleAnswer
  <2> QED
    BY <2>1, <2>2
<1> QED
  BY <1>3, <1>4

\* The answers and fetches after an invalidation, or after none, when the last answered save is v.
LEMMA CurrentAfter ==
  ASSUME DataInv, NEW v \in Versions, InvalidateAt(v), seen' \in 0..v, pair' = pair, user' = user
  PROVE  OwnDataOnly' /\ FetchCurrent' /\ AnswerCurrent'
<1>1. /\ TypeOK /\ v \in Nat
      /\ screen' # Nothing => screen # Nothing /\ screen'.is = "stale" /\ screen'.of = screen.of
      /\ fetch' # Nothing => fetch'.v = v \/ fetch'.kind = "late"
  BY Invalidated, BoundsAssumption DEF DataInv, Versions
<1>2. OwnDataOnly'
  BY <1>1 DEF DataInv, OwnDataOnly
<1>3. FetchCurrent'
  BY <1>1 DEF FetchCurrent
<1>4. AnswerCurrent'
  BY <1>1 DEF AnswerCurrent, Stale
<1> QED
  BY <1>2, <1>3, <1>4

LEMMA Kept ==
  ASSUME DataInv, UNCHANGED <<pair, user, screen, fetch, seen>>
  PROVE  OwnDataOnly' /\ FetchCurrent' /\ AnswerCurrent'
BY DEF DataInv, OwnDataOnly, FetchCurrent, AnswerCurrent, Stale

\* onSuccess of a save that promises nothing yet.
LEMMA OnSuccessKeeps ==
  ASSUME DataInv, OnSuccess, UNCHANGED <<pair, user, server, seen>>
  PROVE  /\ screen' \in {Nothing} \union Answers /\ fetch' \in {Nothing} \union Fetches
         /\ OwnDataOnly' /\ FetchCurrent' /\ AnswerCurrent'
<1>1. TypeOK /\ server \in Versions /\ seen' \in 0..server
  BY DEF DataInv, TypeOK, Past
<1>2. CASE pair.reaches
  BY <1>1, <1>2, Invalidated, CurrentAfter DEF OnSuccess
<1>3. CASE ~pair.reaches
  <2>1. UNCHANGED <<screen, fetch>>
    BY <1>3 DEF OnSuccess
  <2> QED
    BY <1>1, <2>1, Kept DEF TypeOK
<1> QED
  BY <1>2, <1>3

\* What the actions that touch neither versions nor saves leave alone.
LEMMA SaveUntouched ==
  ASSUME DataInv, UNCHANGED <<pair, server, save, outbox, seen>>
  PROVE  OneSave' /\ Past' /\ pair' \in Related
BY DEF DataInv, OneSave, Past

\* A row the mutation rewrites stays the row it is.
LEMMA RowWritten ==
  ASSUME DataInv, WriteRow, pair' = pair
  PROVE  row' \in {Nothing} \union Rows /\ RowDeclared'
<1>1. row \in {Nothing} \union Rows /\ (row # Nothing => pair.row)
  BY DEF DataInv, TypeOK, RowDeclared
<1>2. ASSUME row # Nothing
      PROVE  [row EXCEPT !.by = "here"] \in Rows
  BY <1>1, <1>2 DEF Rows
<1>3. row' = row \/ (row # Nothing /\ row' = [row EXCEPT !.by = "here"])
  BY DEF WriteRow
<1> QED
  BY <1>1, <1>2, <1>3 DEF RowDeclared

-----------------------------------------------------------------------------
(* The actions. *)

\* A view that opens, closes or fetches again.
LEMMA FetchStep ==
  ASSUME DataInv, UNCHANGED <<pair, link, user, server, row, screen, save, outbox, seen>>, mounted' \in BOOLEAN,
         fetch' = fetch \/ fetch' = FetchOf(server)
  PROVE  DataInv'
<1>1. server \in Versions /\ seen \in 0..server /\ server \in Nat
  BY BoundsAssumption DEF DataInv, TypeOK, Past, Versions
<1>2. fetch' \in {Nothing} \union Fetches
  BY <1>1, NewFetch DEF DataInv, TypeOK
<1>3. TypeOK'
  BY <1>2 DEF DataInv, TypeOK
<1>4. FetchCurrent'
  BY <1>1, NewFetch DEF DataInv, FetchCurrent
<1>5. OwnDataOnly' /\ AnswerCurrent' /\ RowDeclared'
  BY DEF DataInv, OwnDataOnly, AnswerCurrent, Stale, RowDeclared
<1> QED
  BY <1>3, <1>4, <1>5, SaveUntouched DEF DataInv

LEMMA ViewStep ==
  ASSUME DataInv, Open \/ Close \/ Focus
  PROVE  DataInv'
<1>1. FetchIfNeeded => fetch' = fetch \/ fetch' = FetchOf(server)
  BY DEF FetchIfNeeded
<1>2. mounted' \in BOOLEAN
  BY DEF Open, Close, Focus, DataInv, TypeOK
<1> QED
  BY <1>1, <1>2, FetchStep DEF Open, Close, Focus

LEMMA AgeStep ==
  ASSUME DataInv, Age
  PROVE  DataInv'
<1>1. /\ screen # Nothing /\ screen' = [screen EXCEPT !.is = "stale"]
      /\ UNCHANGED <<pair, link, user, server, row, mounted, fetch, save, outbox, seen>>
  BY DEF Age
<1>2. screen \in Answers
  BY <1>1 DEF DataInv, TypeOK
<1>3. screen' \in Answers /\ screen'.is = "stale" /\ screen'.of = screen.of
  BY <1>1, <1>2, StaleAnswer
<1>4. TypeOK'
  BY <1>1, <1>3 DEF DataInv, TypeOK
<1>5. OwnDataOnly' /\ AnswerCurrent'
  BY <1>1, <1>3 DEF DataInv, OwnDataOnly, AnswerCurrent, Stale
<1>6. RowDeclared' /\ FetchCurrent'
  BY <1>1 DEF DataInv, RowDeclared, FetchCurrent
<1> QED
  BY <1>1, <1>4, <1>5, <1>6, SaveUntouched DEF DataInv

LEMMA FetchedStep ==
  ASSUME DataInv, Fetched
  PROVE  DataInv'
<1>1. /\ fetch # Nothing /\ fetch' = Nothing /\ screen' = Answer(user, fetch.v, fetch.kind)
      /\ row' = IF pair.row THEN [of |-> user, v |-> fetch.v, by |-> "server"] ELSE row
      /\ UNCHANGED <<pair, link, user, server, mounted, save, outbox, seen>>
  BY DEF Fetched
<1>2. fetch.v \in Versions /\ fetch.kind \in {"own", "late"} /\ user \in Users
  BY <1>1 DEF DataInv, TypeOK, Fetches
<1>3. screen' \in Answers /\ screen'.of = user /\ screen'.v = fetch.v /\ screen'.kind = fetch.kind
  BY <1>1, <1>2, NewAnswer
<1>4. row' \in {Nothing} \union Rows /\ RowDeclared'
  <2>1. [of |-> user, v |-> fetch.v, by |-> "server"] \in Rows
    BY <1>2 DEF Rows
  <2> QED
    BY <1>1, <2>1 DEF DataInv, TypeOK, RowDeclared
<1>5. TypeOK'
  BY <1>1, <1>3, <1>4 DEF DataInv, TypeOK
<1>6. OwnDataOnly'
  BY <1>1, <1>3 DEF OwnDataOnly
<1>7. AnswerCurrent' /\ FetchCurrent'
  BY <1>1, <1>3 DEF DataInv, AnswerCurrent, FetchCurrent
<1> QED
  BY <1>1, <1>4, <1>5, <1>6, <1>7, SaveUntouched DEF DataInv

LEMMA FromDeviceStep ==
  ASSUME DataInv, FromDevice
  PROVE  DataInv'
<1>1. /\ fetch' = Nothing /\ UNCHANGED <<pair, link, user, server, row, mounted, save, outbox, seen>>
      /\ ReadCacheOrFallback
  BY DEF FromDevice
<1>2. 0 \in Versions /\ user \in Users
  BY BoundsAssumption DEF DataInv, TypeOK, Versions
<1>3. /\ screen' \in {Nothing} \union Answers /\ OwnDataOnly' /\ AnswerCurrent'
  <2>1. CASE Readable
    <3>1. screen' = Answer(row.of, row.v, "copy") /\ row # Nothing /\ (row.of = user \/ pair.shared)
      BY <1>1, <2>1 DEF ReadCacheOrFallback, Readable
    <3>2. row.of \in Users /\ row.v \in Versions /\ pair.row
      BY <3>1 DEF DataInv, TypeOK, Rows, RowDeclared
    <3>3. screen' \in Answers /\ screen'.of = row.of /\ screen'.kind = "copy"
      BY <3>1, <3>2, NewAnswer
    <3> QED
      BY <1>1, <3>1, <3>2, <3>3 DEF OwnDataOnly, AnswerCurrent, Stale
  <2>2. CASE ~Readable /\ pair.fallback
    <3>1. screen' = Answer(user, 0, "copy")
      BY <1>1, <2>2 DEF ReadCacheOrFallback
    <3>2. screen' \in Answers /\ screen'.of = user /\ screen'.kind = "copy"
      BY <1>2, <3>1, NewAnswer
    <3>3. pair.promised => pair.row
      BY <2>2, HooksAssumption DEF DataInv
    <3> QED
      BY <1>1, <3>2, <3>3 DEF OwnDataOnly, AnswerCurrent, Stale
  <2>3. CASE ~Readable /\ ~pair.fallback
    <3>1. screen' = screen
      BY <1>1, <2>3 DEF ReadCacheOrFallback
    <3> QED
      BY <1>1, <3>1 DEF DataInv, TypeOK, OwnDataOnly, AnswerCurrent, Stale
  <2> QED
    BY <2>1, <2>2, <2>3
<1>4. TypeOK'
  BY <1>1, <1>3 DEF DataInv, TypeOK
<1>5. RowDeclared' /\ FetchCurrent'
  BY <1>1 DEF DataInv, RowDeclared, FetchCurrent
<1> QED
  BY <1>1, <1>3, <1>4, <1>5, SaveUntouched DEF DataInv

LEMMA SeedStep ==
  ASSUME DataInv, Seed
  PROVE  DataInv'
<1>1. /\ pair.seeded /\ row' = [of |-> user, v |-> server, by |-> "server"]
      /\ UNCHANGED <<pair, link, user, server, screen, mounted, fetch, save, outbox, seen>>
  BY DEF Seed
<1>2. row' \in Rows
  BY <1>1 DEF DataInv, TypeOK, Rows
<1>3. RowDeclared'
  BY <1>1, HooksAssumption DEF DataInv, RowDeclared
<1>4. TypeOK'
  BY <1>1, <1>2 DEF DataInv, TypeOK
<1> QED
  BY <1>1, <1>3, <1>4, SaveUntouched, Kept DEF DataInv

LEMMA EvictStep ==
  ASSUME DataInv, Evict
  PROVE  DataInv'
<1>1. /\ row' = Nothing /\ UNCHANGED <<pair, link, user, server, screen, mounted, fetch, save, outbox, seen>>
  BY DEF Evict
<1>2. TypeOK' /\ RowDeclared'
  BY <1>1 DEF DataInv, TypeOK, RowDeclared
<1> QED
  BY <1>1, <1>2, SaveUntouched, Kept DEF DataInv

LEMMA KeepStep ==
  ASSUME DataInv, Keep
  PROVE  DataInv'
<1>1. /\ Asked /\ WriteRow /\ OnSuccess /\ outbox' = [of |-> user, needs |-> "server"]
      /\ UNCHANGED <<pair, link, user, server, mounted, save, seen>>
  BY DEF Keep
<1>2. outbox' \in Waiting /\ outbox'.needs = "server"
  BY <1>1 DEF DataInv, TypeOK, Waiting
<1>3. OneSave' /\ Past' /\ pair' \in Related
  BY <1>1 DEF DataInv, OneSave, Past, Asked
<1>4. row' \in {Nothing} \union Rows /\ RowDeclared'
  BY <1>1, RowWritten
<1>5. /\ screen' \in {Nothing} \union Answers /\ fetch' \in {Nothing} \union Fetches
      /\ OwnDataOnly' /\ FetchCurrent' /\ AnswerCurrent'
  BY <1>1, OnSuccessKeeps
<1>6. TypeOK'
  BY <1>1, <1>2, <1>4, <1>5 DEF DataInv, TypeOK
<1> QED
  BY <1>3, <1>4, <1>5, <1>6 DEF DataInv

LEMMA RefuseStep ==
  ASSUME DataInv, Refuse
  PROVE  DataInv'
<1>1. WriteRow /\ UNCHANGED <<pair, link, user, server, screen, mounted, fetch, save, outbox, seen>>
  BY DEF Refuse
<1>2. row' \in {Nothing} \union Rows /\ RowDeclared'
  BY <1>1, RowWritten
<1>3. TypeOK'
  BY <1>1, <1>2 DEF DataInv, TypeOK
<1> QED
  BY <1>1, <1>2, <1>3, SaveUntouched, Kept DEF DataInv

LEMMA SendStep ==
  ASSUME DataInv, Send
  PROVE  DataInv'
<1>1. /\ Asked /\ WriteRow /\ save' = "sent"
      /\ UNCHANGED <<pair, link, user, server, screen, mounted, fetch, outbox, seen>>
  BY DEF Send
<1>2. row' \in {Nothing} \union Rows /\ RowDeclared'
  BY <1>1, RowWritten
<1>3. OneSave' /\ Past' /\ pair' \in Related
  BY <1>1 DEF DataInv, OneSave, Past, Asked
<1>4. TypeOK'
  BY <1>1, <1>2 DEF DataInv, TypeOK
<1> QED
  BY <1>1, <1>2, <1>3, <1>4, Kept DEF DataInv

LEMMA ApplyStep ==
  ASSUME DataInv, Apply
  PROVE  DataInv'
<1>1. /\ save = "sent" /\ save' = "applied" /\ server' = server + 1
      /\ UNCHANGED <<pair, link, user, row, screen, mounted, fetch, outbox, seen>>
  BY DEF Apply
<1>2. outbox = Nothing /\ server < MaxVersion /\ server \in Nat /\ seen \in 0..server
  BY <1>1, BoundsAssumption DEF DataInv, OneSave, TypeOK, Versions, Past
<1>3. server' \in Versions
  BY <1>1, <1>2, BoundsAssumption DEF Versions
<1>4. OneSave' /\ Past' /\ pair' \in Related
  BY <1>1, <1>2 DEF DataInv, OneSave, Past
<1>5. TypeOK' /\ RowDeclared'
  BY <1>1, <1>3 DEF DataInv, TypeOK, RowDeclared
<1> QED
  BY <1>1, <1>4, <1>5, Kept DEF DataInv

LEMMA AnsweredStep ==
  ASSUME DataInv, Answered
  PROVE  DataInv'
<1>1. /\ save = "applied" /\ save' = "idle" /\ seen' = (IF pair.promised THEN server ELSE seen) /\ OnSuccess
      /\ UNCHANGED <<pair, link, user, server, row, mounted, outbox>>
  BY DEF Answered
<1>2. server \in Versions /\ server \in Nat /\ seen \in 0..server
  BY BoundsAssumption DEF DataInv, TypeOK, Versions, Past
<1>3. seen' \in 0..server /\ seen' \in Versions
  BY <1>1, <1>2 DEF DataInv, TypeOK
<1>4. /\ screen' \in {Nothing} \union Answers /\ fetch' \in {Nothing} \union Fetches
      /\ OwnDataOnly' /\ FetchCurrent' /\ AnswerCurrent'
  <2>1. CASE pair.promised
    <3>1. InvalidateAt(server)
      BY <1>1, <2>1, HooksAssumption DEF DataInv, OnSuccess
    <3> QED
      BY <1>1, <1>2, <1>3, <3>1, Invalidated, CurrentAfter DEF DataInv
  <2>2. CASE ~pair.promised
    BY <1>1, <2>2, OnSuccessKeeps
  <2> QED
    BY <2>1, <2>2
<1>5. OneSave' /\ Past' /\ pair' \in Related /\ RowDeclared'
  BY <1>1, <1>3 DEF DataInv, OneSave, Past, RowDeclared
<1>6. TypeOK'
  BY <1>1, <1>3, <1>4 DEF DataInv, TypeOK
<1> QED
  BY <1>4, <1>5, <1>6 DEF DataInv

LEMMA DeclinedStep ==
  ASSUME DataInv, Declined
  PROVE  DataInv'
<1>1. save' = "idle" /\ UNCHANGED <<pair, link, user, server, row, screen, mounted, fetch, outbox, seen>>
  BY DEF Declined
<1>2. TypeOK' /\ OneSave' /\ Past' /\ pair' \in Related /\ RowDeclared'
  BY <1>1 DEF DataInv, TypeOK, OneSave, Past, RowDeclared
<1> QED
  BY <1>1, <1>2, Kept DEF DataInv

LEMMA LostStep ==
  ASSUME DataInv, Lost
  PROVE  DataInv'
<1>1. save # "idle" /\ save' = "idle" /\ UNCHANGED <<pair, link, user, server, row, mounted, seen>>
  BY DEF Lost
<1>2. outbox = Nothing /\ user \in Users /\ save \in {"sent", "applied"}
  BY <1>1 DEF DataInv, OneSave, TypeOK
<1>3. CASE pair.queueable
  <2> DEFINE needs == IF save = "applied" THEN "answer" ELSE "server"
  <2>1. outbox' = [of |-> user, needs |-> needs] /\ OnSuccess
    BY <1>3 DEF Lost
  <2>2. outbox' \in Waiting /\ outbox'.needs = needs
    BY <1>2, <2>1 DEF Waiting
  <2>3. OneSave' /\ Past' /\ pair' \in Related /\ RowDeclared'
    BY <1>1, <1>2, <2>2 DEF DataInv, OneSave, Past, RowDeclared
  <2>4. /\ screen' \in {Nothing} \union Answers /\ fetch' \in {Nothing} \union Fetches
        /\ OwnDataOnly' /\ FetchCurrent' /\ AnswerCurrent'
    BY <1>1, <2>1, OnSuccessKeeps
  <2>5. TypeOK'
    BY <1>1, <2>2, <2>4 DEF DataInv, TypeOK
  <2> QED
    BY <2>3, <2>4, <2>5 DEF DataInv
<1>4. CASE ~pair.queueable
  <2>1. UNCHANGED <<outbox, screen, fetch>>
    BY <1>4 DEF Lost
  <2>2. TypeOK' /\ OneSave' /\ Past' /\ pair' \in Related /\ RowDeclared'
    BY <1>1, <1>2, <2>1 DEF DataInv, TypeOK, OneSave, Past, RowDeclared
  <2> QED
    BY <1>1, <2>1, <2>2, Kept DEF DataInv
<1> QED
  BY <1>3, <1>4

LEMMA SyncCompleteStep ==
  ASSUME DataInv, SyncComplete
  PROVE  DataInv'
<1>1. /\ outbox # Nothing /\ outbox' = Nothing /\ InvalidateAt(server')
      /\ server' = (IF outbox.needs = "server" THEN server + 1 ELSE server)
      /\ seen' = (IF pair.promised THEN server' ELSE seen)
      /\ UNCHANGED <<pair, link, user, row, mounted, save>>
  BY DEF SyncComplete
<1>2. save = "idle" /\ server \in Nat /\ seen \in 0..server /\ (outbox.needs = "server" => server < MaxVersion)
  BY <1>1, BoundsAssumption DEF DataInv, OneSave, TypeOK, Versions, Past
<1>3. server' \in Versions /\ seen' \in 0..server' /\ seen' \in Versions
  BY <1>1, <1>2, BoundsAssumption DEF DataInv, TypeOK, Versions
<1>4. /\ screen' \in {Nothing} \union Answers /\ fetch' \in {Nothing} \union Fetches
      /\ OwnDataOnly' /\ FetchCurrent' /\ AnswerCurrent'
  BY <1>1, <1>3, Invalidated, CurrentAfter DEF DataInv
<1>5. OneSave' /\ Past' /\ pair' \in Related /\ RowDeclared'
  BY <1>1, <1>2, <1>3 DEF DataInv, OneSave, Past, RowDeclared
<1>6. TypeOK'
  BY <1>1, <1>3, <1>4 DEF DataInv, TypeOK
<1> QED
  BY <1>4, <1>5, <1>6 DEF DataInv

LEMMA GoOnlineStep ==
  ASSUME DataInv, GoOnline
  PROVE  DataInv'
<1> DEFINE f == [FetchOf(server) EXCEPT !.from = "server"]
<1>1. /\ link' \in {"live", "cached"}
      /\ (fetch' = f \/ fetch' = fetch)
      /\ UNCHANGED <<pair, user, server, row, screen, mounted, save, outbox, seen>>
  BY DEF GoOnline
<1>2. server \in Versions /\ server \in Nat /\ seen \in 0..server
  BY BoundsAssumption DEF DataInv, TypeOK, Versions, Past
<1>3. f \in Fetches /\ f.v = server
  BY <1>2, NewFetch DEF Fetches
<1> HIDE DEF f
<1>4. TypeOK'
  <2>1. fetch' \in {Nothing} \union Fetches
    BY <1>1, <1>3 DEF DataInv, TypeOK
  <2> QED
    BY <1>1, <2>1 DEF DataInv, TypeOK
<1>5. FetchCurrent'
  BY <1>1, <1>2, <1>3 DEF DataInv, FetchCurrent
<1>6. OwnDataOnly' /\ AnswerCurrent' /\ RowDeclared'
  BY <1>1 DEF DataInv, OwnDataOnly, AnswerCurrent, Stale, RowDeclared
<1> QED
  BY <1>1, <1>4, <1>5, <1>6, SaveUntouched DEF DataInv

LEMMA RestoredStep ==
  ASSUME DataInv, Restored
  PROVE  DataInv'
<1>1. /\ link' = "live" /\ InvalidateAt(server)
      /\ UNCHANGED <<pair, user, server, row, mounted, save, outbox, seen>>
  BY DEF Restored
<1>2. TypeOK /\ server \in Versions /\ seen' \in 0..server
  BY <1>1 DEF DataInv, TypeOK, Past
<1>3. /\ screen' \in {Nothing} \union Answers /\ fetch' \in {Nothing} \union Fetches
      /\ OwnDataOnly' /\ FetchCurrent' /\ AnswerCurrent'
  BY <1>1, <1>2, Invalidated, CurrentAfter
<1>4. TypeOK' /\ RowDeclared'
  BY <1>1, <1>3 DEF DataInv, TypeOK, RowDeclared
<1> QED
  BY <1>1, <1>3, <1>4, SaveUntouched DEF DataInv

LEMMA GoOfflineStep ==
  ASSUME DataInv, GoOffline
  PROVE  DataInv'
<1>1. link' = "cut" /\ UNCHANGED <<pair, user, server, row, screen, mounted, fetch, save, outbox, seen>>
  BY DEF GoOffline
<1>2. TypeOK' /\ RowDeclared'
  BY <1>1 DEF DataInv, TypeOK, RowDeclared
<1> QED
  BY <1>1, <1>2, SaveUntouched, Kept DEF DataInv

LEMMA ReloadStep ==
  ASSUME DataInv, Reload
  PROVE  DataInv'
<1>1. /\ mounted' = FALSE /\ fetch' = Nothing /\ UNCHANGED <<pair, link, user, server, row, save, outbox, seen>>
      /\ \/ screen' = screen
         \/ screen # Nothing /\ screen' = [screen EXCEPT !.kind = "lost"]
  BY DEF Reload
<1>2. screen # Nothing => /\ [screen EXCEPT !.kind = "lost"] \in Answers
                          /\ [screen EXCEPT !.kind = "lost"].of = screen.of
                          /\ [screen EXCEPT !.kind = "lost"].kind = "lost"
  BY DEF DataInv, TypeOK, Answers
<1>3. screen' \in {Nothing} \union Answers
  BY <1>1, <1>2 DEF DataInv, TypeOK
<1>4. TypeOK' /\ RowDeclared' /\ FetchCurrent'
  BY <1>1, <1>3 DEF DataInv, TypeOK, RowDeclared, FetchCurrent
<1>5. OwnDataOnly' /\ AnswerCurrent'
  BY <1>1, <1>2 DEF DataInv, OwnDataOnly, AnswerCurrent, Stale
<1> QED
  BY <1>1, <1>4, <1>5, SaveUntouched DEF DataInv

LEMMA SignInStep ==
  ASSUME DataInv, NEW u \in Users, SignIn(u)
  PROVE  DataInv'
<1>1. /\ save = "idle" /\ user' = u /\ screen' = Nothing /\ mounted' = FALSE /\ fetch' = Nothing /\ seen' = 0
      /\ row' \in {row, Nothing} /\ UNCHANGED <<pair, link, server, save, outbox>>
  BY DEF SignIn
<1>2. 0 \in Versions /\ server \in Nat
  BY BoundsAssumption DEF DataInv, TypeOK, Versions
<1>3. TypeOK'
  BY <1>1, <1>2 DEF DataInv, TypeOK
<1>4. OneSave' /\ Past' /\ pair' \in Related /\ RowDeclared'
  BY <1>1, <1>2 DEF DataInv, OneSave, Past, RowDeclared
<1>5. OwnDataOnly' /\ FetchCurrent' /\ AnswerCurrent'
  BY <1>1 DEF OwnDataOnly, FetchCurrent, AnswerCurrent
<1> QED
  BY <1>3, <1>4, <1>5 DEF DataInv

-----------------------------------------------------------------------------
(* The theorems. *)

LEMMA DataStarts == Init => DataInv
<1> SUFFICES ASSUME Init PROVE DataInv
  OBVIOUS
<1>1. user \in Users
  BY UsersAssumption DEF Init
<1>2. 0 \in Versions /\ server = 0 /\ seen = 0
  BY BoundsAssumption DEF Init, Versions
<1>3. TypeOK
  BY <1>1, <1>2 DEF Init, TypeOK
<1>4. OwnDataOnly /\ RowDeclared /\ FetchCurrent /\ AnswerCurrent
  BY DEF Init, OwnDataOnly, RowDeclared, FetchCurrent, AnswerCurrent
<1>5. pair \in Related /\ OneSave /\ Past
  BY <1>2 DEF Init, OneSave, Past
<1> QED
  BY <1>3, <1>4, <1>5 DEF DataInv

LEMMA DataStep == DataInv /\ [Next]_vars => DataInv'
<1> SUFFICES ASSUME DataInv, [Next]_vars PROVE DataInv'
  OBVIOUS
<1>1. CASE Open \/ Close \/ Focus \/ Age \/ Fetched \/ FromDevice \/ Seed \/ Evict
  BY <1>1, ViewStep, AgeStep, FetchedStep, FromDeviceStep, SeedStep, EvictStep
<1>2. CASE Keep \/ Refuse \/ Send \/ Apply \/ Answered \/ Declined \/ Lost \/ SyncComplete
  BY <1>2, KeepStep, RefuseStep, SendStep, ApplyStep, AnsweredStep, DeclinedStep, LostStep, SyncCompleteStep
<1>3. CASE GoOnline \/ Restored \/ GoOffline \/ Reload \/ \E u \in Users : SignIn(u)
  BY <1>3, GoOnlineStep, RestoredStep, GoOfflineStep, ReloadStep, SignInStep
<1>4. CASE UNCHANGED vars
  <2>1. UNCHANGED <<pair, link, user, server, row, screen, mounted, fetch, save, outbox, seen>>
    BY <1>4 DEF vars
  <2>2. TypeOK' /\ RowDeclared'
    BY <2>1 DEF DataInv, TypeOK, RowDeclared
  <2> QED
    BY <2>1, <2>2, SaveUntouched, Kept DEF DataInv
<1> QED
  BY <1>1, <1>2, <1>3, <1>4 DEF Next

\* DataInv holds of every state of the dataset, the device, the page and the save.
THEOREM DataInvariant == Spec => []DataInv
<1> QED
  BY DataStarts, DataStep, PTL DEF Spec

\* An open view never shows as fresh what is older than one's own last answered save: onSuccess of
\* every hook reaches the answer and restarts, or outdates, the fetch under way (useOfflineQuery,
\* runMutation).
THEOREM FreshAfterSave == Spec => []NoStaleFresh
<1>1. DataInv => NoStaleFresh
  BY DEF DataInv, AnswerCurrent, NoStaleFresh, NeedsFetch
<1> QED
  BY <1>1, DataInvariant, PTL

\* Nobody is shown what was stored for somebody else on the device (cacheGet).
THEOREM OnlyOwnData == Spec => []OwnDataOnly
<1>1. DataInv => OwnDataOnly
  BY DEF DataInv
<1> QED
  BY <1>1, DataInvariant, PTL

=============================================================================
