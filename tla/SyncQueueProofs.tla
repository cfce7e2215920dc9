--------------------------- MODULE SyncQueueProofs ---------------------------
(* What holds of the offline queue for any tabs, users, saves, retries and  *)
(* crashes.                                                                 *)
EXTENDS SyncQueue, FiniteSetTheorems, SequenceTheorems, TLAPS

-----------------------------------------------------------------------------
(* The inductive invariant. *)

\* A flush that is idle has nothing to send; one that waits for an answer has an item to
\* wait for.
FlushFits == \A t \in Tabs :
  /\ flush[t].at = "idle" => flush[t].todo = <<>>
  /\ flush[t].at = "wait" => flush[t].todo # <<>>

\* TakenOnce is not inductive: it is the whole flush that only one tab is in.
OneFlush == locks => \A t, u \in Tabs : t # u => flush[t].at = "idle" \/ flush[u].at = "idle"

\* What is queued, and what a tab is about to send, belongs to the person who made the change.
ItemsOwned == \A i \in Saves :
  queue[i] # NoItem => call[i].at # "new" /\ queue[i].user = call[i].user

TodoOwned == \A t \in Tabs : \A n \in DOMAIN flush[t].todo :
  LET i == flush[t].todo[n][1] IN call[i].at # "new" /\ call[i].user = profile[t]

\* A request is on its way exactly for what its sender is waiting for, and each sender waits for
\* one request.
Awaited == \A r \in net :
  /\ r.from \in Tabs => flush[r.from].at = "wait" /\ r.item = Head(flush[r.from].todo)[1]
  /\ r.from \in Saves => call[r.from].at = "sent" /\ r.item = r.from
  /\ r.from # Nobody => \A q \in net : q.from = r.from => q = r

\* A success that anybody remembers (the request, the record of ids, the item) is one.
Remembered ==
  /\ \A r \in net : /\ r.stage \in {"applied", "ok"} => applied[r.item] > 0
                    /\ r.id = "late" => r.item \in answered /\ r.stage \notin {"running", "applied"}
  /\ \A i \in answered : applied[i] > 0
  /\ \A i \in Saves : queue[i] # NoItem /\ queue[i].status = "done" => applied[i] > 0

\* The item of a call under way is gone only when the user dropped it, or when it was done.
CallKept == \A i \in Saves :
  call[i].at \in {"queued", "registered", "sent"} /\ queue[i] = NoItem => told[i] = "dismissed" \/ applied[i] > 0

SyncInv ==
  /\ TypeOK /\ FlushFits /\ OneFlush /\ ItemsOwned /\ TodoOwned
  /\ Awaited /\ Remembered /\ CallKept /\ NothingLost

-----------------------------------------------------------------------------
(* The helpers of the actions. *)

USE DEF client, server, device

LEMMA OverCall ==
  ASSUME NEW c \in Call
  PROVE  Over(c) \in Call /\ Over(c).at = "over" /\ Over(c).user = c.user
<1>1. Over(c) \in Call
  BY DEF Over, Call
<1>2. Over(c).at = "over"
  BY DEF Over, Call
<1>3. Over(c).user = c.user
  BY DEF Over, Call
<1> QED
  BY <1>1, <1>2, <1>3

LEMMA MarkItem ==
  ASSUME TypeOK, NEW i \in Saves, queue[i] # NoItem, NEW s \in {"pending", "syncing", "done", "failed"}
  PROVE  /\ Mark(i, s) \in Item /\ Mark(i, s).status = s /\ Mark(i, s).user = queue[i].user
         /\ Mark(i, s).retries = queue[i].retries
BY DEF TypeOK, Mark, Item

LEMMA MarkRetries ==
  ASSUME TypeOK, NEW i \in Saves, queue[i] # NoItem, NEW s \in {"pending", "syncing", "done", "failed"},
         NEW n \in 0..MaxRetries + 1
  PROVE  LET item == [Mark(i, s) EXCEPT !.retries = n]
         IN  item \in Item /\ item.status = s /\ item.user = queue[i].user
BY MarkItem DEF Item

LEMMA UpdateQueue ==
  ASSUME TypeOK, NEW i \in Saves, NEW item, Update(i, item), queue[i] # NoItem => item \in Item
  PROVE  /\ queue' \in [Saves -> Item \cup {NoItem}]
         /\ \A j \in Saves : j # i => queue'[j] = queue[j]
         /\ queue[i] = NoItem => queue'[i] = NoItem
         /\ queue[i] # NoItem => queue'[i] = item
BY DEF TypeOK, Update

LEMMA RetryLaterQueue ==
  ASSUME TypeOK, NEW i \in Saves, NEW n \in 0..MaxRetries + 1, RetryLater(i, n)
  PROVE  /\ queue' \in [Saves -> Item \cup {NoItem}]
         /\ \A j \in Saves : j # i => queue'[j] = queue[j]
         /\ queue[i] = NoItem => queue'[i] = NoItem
         /\ queue[i] # NoItem => queue'[i] \in Item /\ queue'[i].status \in {"pending", "failed"}
                                 /\ queue'[i].user = queue[i].user
<1> DEFINE m == NextRetry(n)
           s == IF m > MaxRetries THEN "failed" ELSE "pending"
           item == [Mark(i, s) EXCEPT !.retries = m]
<1>1. m \in 0..MaxRetries + 1
  BY SyncQueueAssumption DEF NextRetry
<1>2. s \in {"pending", "failed"}
  OBVIOUS
<1>3. queue[i] # NoItem => item \in Item /\ item.status = s /\ item.user = queue[i].user
  BY <1>1, <1>2, MarkRetries
<1>4. Update(i, item)
  BY Zenon DEF RetryLater
<1> QED
  BY <1>2, <1>3, <1>4, UpdateQueue

LEMMA TellTold ==
  ASSUME TypeOK, NEW i \in Saves, NEW answer \in {"accepted", "saved", "refused"}, Tell(i, answer)
  PROVE  /\ told' \in [Saves -> {"nothing", "accepted", "saved", "refused", "dismissed"}]
         /\ \A j \in Saves : j # i => told'[j] = told[j]
         /\ told'[i] \in {answer, "dismissed"}
         /\ told[i] = "dismissed" => told'[i] = "dismissed"
BY DEF TypeOK, Tell

LEMMA SendNet ==
  ASSUME TypeOK, NEW s \in Saves \cup Tabs, NEW i \in Saves, NEW id \in {"none", "fresh", "late"}, Send(s, i, id)
  PROVE  \E m \in Request : /\ m.item = i /\ m.from = s /\ m.id = id /\ m.stage = "sent"
                            /\ net' = net \cup {m}
BY DEF Send, Request

LEMMA AbandonNet ==
  ASSUME TypeOK, NEW rs \in SUBSET net, Abandon(rs)
  PROVE  /\ net' \in SUBSET Request
         /\ \A q \in net' : \/ q \in net \ rs
                            \/ q.from = Nobody /\ \E r \in rs : q.item = r.item /\ q.id = r.id /\ q.stage = r.stage
<1>1. PICK arrived \in SUBSET {r \in rs : r.stage = "sent"} :
        net' = (net \ rs) \cup {[r EXCEPT !.from = Nobody] :
                                  r \in arrived \cup {q \in rs : q.stage \in {"running", "applied"}}}
  BY DEF Abandon
<1>2. ASSUME NEW r \in Request
      PROVE  LET q == [r EXCEPT !.from = Nobody]
             IN  q \in Request /\ q.from = Nobody /\ q.item = r.item /\ q.id = r.id /\ q.stage = r.stage
  BY DEF Request
<1>3. rs \subseteq Request /\ net \subseteq Request
  BY DEF TypeOK
<1>4. ASSUME NEW q \in net', q \notin net \ rs
      PROVE  q \in Request /\ q.from = Nobody /\ \E r \in rs : q.item = r.item /\ q.id = r.id /\ q.stage = r.stage
  <2>1. PICK r \in arrived \cup {p \in rs : p.stage \in {"running", "applied"}} : q = [r EXCEPT !.from = Nobody]
    BY <1>1, <1>4
  <2>2. r \in rs /\ r \in Request
    BY <1>3, <2>1
  <2> QED
    BY <1>2, <2>1, <2>2
<1> QED
  BY <1>3, <1>4

LEMMA AdvanceNet ==
  ASSUME TypeOK, NEW r \in net, NEW stage \in {"running", "applied", "ok", "refused", "error"}, Advance(r, stage)
  PROVE  \E m \in Request : /\ m.item = r.item /\ m.from = r.from /\ m.id = r.id /\ m.stage = stage
                            /\ net' \subseteq (net \ {r}) \cup {m}
<1> DEFINE m == [r EXCEPT !.stage = stage]
<1>1. r \in Request
  BY DEF TypeOK
<1>2. m \in Request
  BY <1>1 DEF Request
<1>3. m.from = r.from /\ m.item = r.item /\ m.id = r.id /\ m.stage = stage
  BY <1>1 DEF Request
<1>4. net' \subseteq (net \ {r}) \cup {m}
  BY DEF Advance
<1> HIDE DEF m
<1> QED
  BY <1>2, <1>3, <1>4

\* The item a flush is at, and the ones after it.
LEMMA HeadItem ==
  ASSUME TypeOK, NEW t \in Tabs, flush[t].todo # <<>>
  PROVE  /\ Head(flush[t].todo)[1] \in Saves /\ Head(flush[t].todo)[2] \in 0..MaxRetries + 1
         /\ Tail(flush[t].todo) \in Seq(Saves \X (0..MaxRetries + 1))
         /\ 1 \in DOMAIN flush[t].todo /\ Head(flush[t].todo) = flush[t].todo[1]
         /\ \A n \in DOMAIN Tail(flush[t].todo) :
              n + 1 \in DOMAIN flush[t].todo /\ Tail(flush[t].todo)[n] = flush[t].todo[n + 1]
<1> DEFINE E == Saves \X (0..MaxRetries + 1)
<1> HIDE DEF E
<1>1. flush[t].todo \in Seq(E)
  BY DEF TypeOK, Flush, E
<1>2. Head(flush[t].todo) \in E /\ Tail(flush[t].todo) \in Seq(E)
  BY <1>1
<1>3. /\ 1 \in DOMAIN flush[t].todo /\ Head(flush[t].todo) = flush[t].todo[1]
      /\ \A n \in DOMAIN Tail(flush[t].todo) :
              n + 1 \in DOMAIN flush[t].todo /\ Tail(flush[t].todo)[n] = flush[t].todo[n + 1]
  BY <1>1
<1> QED
  BY <1>2, <1>3 DEF E

LEMMA TodoItem ==
  ASSUME TypeOK, NEW t \in Tabs, NEW n \in DOMAIN flush[t].todo
  PROVE  flush[t].todo[n][1] \in Saves /\ flush[t].todo[n][2] \in 0..MaxRetries + 1
<1> DEFINE E == Saves \X (0..MaxRetries + 1)
<1> HIDE DEF E
<1>1. flush[t].todo \in Seq(E)
  BY DEF TypeOK, Flush, E
<1>2. flush[t].todo[n] \in E
  BY <1>1
<1> QED
  BY <1>2 DEF E

LEMMA NextRetryBounded ==
  ASSUME NEW n \in 0..MaxRetries + 1
  PROVE  NextRetry(n) \in 0..MaxRetries + 1
BY SyncQueueAssumption DEF NextRetry

\* The revived items are the same items.
LEMMA RevivedItems ==
  ASSUME TypeOK
  PROVE  /\ Revived \in [Saves -> Item \cup {NoItem}]
         /\ \A i \in Saves : queue[i] = NoItem => Revived[i] = NoItem
         /\ \A i \in Saves : queue[i] # NoItem => /\ Revived[i] # NoItem /\ Revived[i].user = queue[i].user
                                                  /\ Revived[i].status = "done" => queue[i].status = "done"
<1>1. ASSUME NEW i \in Saves
      PROVE  /\ Revived[i] \in Item \cup {NoItem}
             /\ queue[i] = NoItem => Revived[i] = NoItem
             /\ queue[i] # NoItem => /\ Revived[i] # NoItem /\ Revived[i].user = queue[i].user
                                     /\ Revived[i].status = "done" => queue[i].status = "done"
  <2> DEFINE r == [queue[i] EXCEPT !.status = "pending"]
  <2>1. CASE queue[i] # NoItem /\ queue[i].status = "syncing" /\ queue[i].clock = "over"
    <3>1. queue[i] \in Item
      BY <2>1 DEF TypeOK
    <3>2. r \in Item
      BY <3>1 DEF Item
    <3>3. r.user = queue[i].user /\ r.status = "pending"
      BY <3>1 DEF Item
    <3>4. Revived[i] = r
      BY <2>1 DEF Revived
    <3> HIDE DEF r
    <3> QED
      BY <2>1, <3>2, <3>3, <3>4, SyncQueueAssumption
  <2>2. CASE ~(queue[i] # NoItem /\ queue[i].status = "syncing" /\ queue[i].clock = "over")
    <3>1. Revived[i] = queue[i]
      BY <2>2 DEF Revived
    <3> QED
      BY <3>1 DEF TypeOK
  <2> QED
    BY <2>1, <2>2
<1> QED
  BY <1>1 DEF Revived

\* What a flush reads from the queue.
LEMMA TodoRead ==
  ASSUME TypeOK, NEW t \in Tabs, profile[t] # Nobody, queue' = Revived,
         NEW s \in InOrder(Pending(queue', profile[t]))
  PROVE  LET todo == [n \in DOMAIN s |-> <<s[n], queue'[s[n]].retries>>]
         IN  /\ todo \in Seq(Saves \X (0..MaxRetries + 1))
             /\ \A n \in DOMAIN todo : /\ todo[n][1] \in Saves /\ queue[todo[n][1]] # NoItem
                                       /\ queue[todo[n][1]].user = profile[t]
<1> DEFINE items == Pending(queue', profile[t])
           todo == [n \in DOMAIN s |-> <<s[n], queue'[s[n]].retries>>]
<1>1. items \subseteq Saves /\ IsFiniteSet(items)
  <2>1. items \subseteq Saves
    BY DEF Pending
  <2>2. IsFiniteSet(Saves)
    BY FS_Interval, SyncQueueAssumption DEF Saves
  <2> QED
    BY <2>1, <2>2, FS_Subset
<1>2. Cardinality(items) \in Nat
  BY <1>1, FS_CardinalityType
<1>3. s \in [1..Cardinality(items) -> items]
  BY DEF InOrder
<1>4. ASSUME NEW n \in DOMAIN s
      PROVE  /\ s[n] \in Saves /\ queue[s[n]] # NoItem /\ queue[s[n]].user = profile[t]
             /\ queue'[s[n]].retries \in 0..MaxRetries + 1
  <2>1. s[n] \in items
    BY <1>3
  <2>2. s[n] \in Saves /\ queue'[s[n]] # NoItem /\ queue'[s[n]].user = profile[t]
    BY <2>1 DEF Pending
  <2>3. queue'[s[n]] \in Item
    BY <2>2, RevivedItems
  <2>4. queue'[s[n]].retries \in 0..MaxRetries + 1
    BY <2>3 DEF Item
  <2> QED
    BY <2>2, <2>4, RevivedItems
<1>5. DOMAIN todo = 1..Cardinality(items) /\ \A n \in DOMAIN todo : todo[n] = <<s[n], queue'[s[n]].retries>>
  BY <1>3
<1>6. \A n \in DOMAIN todo : todo[n] \in Saves \X (0..MaxRetries + 1)
  BY <1>3, <1>4, <1>5
<1>7. todo \in Seq(Saves \X (0..MaxRetries + 1))
  <2>1. todo = [n \in 1..Cardinality(items) |-> todo[n]]
    BY <1>5
  <2> HIDE DEF todo, items
  <2>2. todo \in [1..Cardinality(items) -> Saves \X (0..MaxRetries + 1)]
    BY <1>5, <1>6, <2>1
  <2> QED
    BY <1>2, <2>2, SeqDef
<1> QED
  BY <1>3, <1>4, <1>7

-----------------------------------------------------------------------------
(* One step of runMutation. *)

\* What a step leaves alone keeps its part of the invariant.
LEMMA FlushUntouched ==
  ASSUME SyncInv, UNCHANGED <<flush, otherTab, device>>
  PROVE  /\ FlushFits' /\ OneFlush'
         /\ flush' \in [Tabs -> Flush] /\ otherTab' \in SUBSET Tabs
         /\ locks' \in BOOLEAN /\ profile' \in [Tabs -> Users \cup {Nobody}] /\ faults' \in 0..MaxFaults
BY DEF SyncInv, FlushFits, OneFlush, TypeOK

LEMMA RunMutationStep ==
  ASSUME SyncInv, NEW i \in Saves, NEW t \in Tabs, NEW d \in BOOLEAN, NEW offline \in BOOLEAN,
         RunMutation(i, t, d, offline)
  PROVE  SyncInv'
<1> DEFINE item == [user |-> profile[t], status |-> "pending", retries |-> 0, clock |-> "over"]
           c == [at |-> "queued", tab |-> t, user |-> profile[t], method |-> IF d THEN "DELETE" ELSE "PUT"]
<1>1. /\ TypeOK /\ call[i].at = "new" /\ profile[t] \in Users
      /\ UNCHANGED <<flush, otherTab, net, server, device>>
  BY DEF SyncInv, RunMutation, TypeOK
<1>2. item \in Item
  BY <1>1, SyncQueueAssumption DEF Item
<1>3. c \in Call
  BY <1>1 DEF Call
<1>4. Over(c) \in Call /\ Over(c).at = "over" /\ Over(c).user = profile[t]
  BY <1>3, OverCall
<1>5. CASE offline /\ d
  <2>1. queue' = queue /\ call' = [call EXCEPT ![i].at = "over"] /\ Tell(i, "refused")
    BY <1>5 DEF RunMutation
  <2>2. call[i] \in Call
    BY <1>1 DEF TypeOK
  <2>3. [call[i] EXCEPT !.at = "over"] \in Call /\ [call[i] EXCEPT !.at = "over"].at = "over"
    BY <2>2 DEF Call
  <2>4. call' \in [Saves -> Call] /\ call'[i].at = "over" /\ \A j \in Saves : j # i => call'[j] = call[j]
    BY <1>1, <2>1, <2>3 DEF TypeOK
  <2>5. queue[i] = NoItem
    BY <1>1 DEF SyncInv, ItemsOwned
  <2>6. TypeOK'
    BY <1>1, <2>1, <2>4, FlushUntouched, TellTold DEF TypeOK
  <2>7. ItemsOwned' /\ TodoOwned' /\ Awaited'
    BY <1>1, <2>1, <2>4, <2>5, TodoItem DEF SyncInv, ItemsOwned, TodoOwned, Awaited
  <2>8. Remembered' /\ CallKept' /\ NothingLost'
    BY <1>1, <2>1, <2>4, <2>5, TellTold DEF SyncInv, Remembered, CallKept, NothingLost
  <2> QED
    BY <1>1, <2>6, <2>7, <2>8, FlushUntouched DEF SyncInv
<1>6. CASE ~(offline /\ d)
  <2>1. queue' = [queue EXCEPT ![i] = item] /\ call' = [call EXCEPT ![i] = IF offline THEN Over(c) ELSE c]
    BY <1>6 DEF RunMutation, Enqueue
  <2>2. /\ queue' \in [Saves -> Item \cup {NoItem}] /\ queue'[i] = item /\ queue'[i] # NoItem
        /\ \A j \in Saves : j # i => queue'[j] = queue[j]
    BY <1>1, <1>2, <2>1, SyncQueueAssumption DEF TypeOK
  <2>3. /\ call' \in [Saves -> Call] /\ call'[i].at # "new" /\ call'[i].user = profile[t]
        /\ \A j \in Saves : j # i => call'[j] = call[j]
    BY <1>1, <1>3, <1>4, <2>1 DEF TypeOK
  <2>4. /\ told' \in [Saves -> {"nothing", "accepted", "saved", "refused", "dismissed"}]
        /\ \A j \in Saves : j # i => told'[j] = told[j]
    <3>1. CASE offline
      BY <1>1, <1>6, <3>1, TellTold DEF RunMutation
    <3>2. CASE ~offline
      BY <1>1, <1>6, <3>2 DEF RunMutation, TypeOK
    <3> QED
      BY <3>1, <3>2
  <2>5. item.user = profile[t] /\ item.status = "pending"
    OBVIOUS
  <2> HIDE DEF item, c
  <2>6. TypeOK'
    BY <1>1, <2>2, <2>3, <2>4, FlushUntouched DEF TypeOK
  <2>7. ItemsOwned'
    BY <2>2, <2>3, <2>5 DEF SyncInv, ItemsOwned
  <2>8. TodoOwned'
    BY <1>1, <2>3, TodoItem DEF SyncInv, TodoOwned
  <2>9. Awaited'
    BY <1>1, <2>3 DEF SyncInv, Awaited
  <2>10. Remembered' /\ CallKept' /\ NothingLost'
    BY <1>1, <2>2, <2>3, <2>4, <2>5 DEF SyncInv, Remembered, CallKept, NothingLost
  <2> QED
    BY <1>1, <2>6, <2>7, <2>8, <2>9, <2>10, FlushUntouched DEF SyncInv
<1> QED
  BY <1>5, <1>6

\* A call goes on, or is over, and stays the call of the same person.
LEMMA CallGoesOn ==
  ASSUME SyncInv, NEW i \in Saves, call[i].at # "new", NEW c \in Call, c.user = call[i].user, c.at # "new",
         call' = [call EXCEPT ![i] = c], UNCHANGED <<flush, device>>
  PROVE  /\ call' \in [Saves -> Call] /\ call'[i] = c /\ \A j \in Saves : j # i => call'[j] = call[j]
         /\ TodoOwned'
         /\ (\A j \in Saves : queue'[j] # NoItem => queue[j] # NoItem /\ queue'[j].user = queue[j].user) => ItemsOwned'
<1>1. call' \in [Saves -> Call] /\ call'[i] = c /\ \A j \in Saves : j # i => call'[j] = call[j]
  BY DEF SyncInv, TypeOK
<1>2. \A j \in Saves : call'[j].user = call[j].user /\ (call[j].at # "new" => call'[j].at # "new")
  BY <1>1
<1>3. TodoOwned'
  BY <1>2, TodoItem DEF SyncInv, TodoOwned
<1>4. (\A j \in Saves : queue'[j] # NoItem => queue[j] # NoItem /\ queue'[j].user = queue[j].user) => ItemsOwned'
  BY <1>2 DEF SyncInv, ItemsOwned
<1> QED
  BY <1>1, <1>3, <1>4

LEMMA CallAt ==
  ASSUME TypeOK, NEW i \in Saves, NEW place \in {"registered", "sent"}
  PROVE  LET c == [call[i] EXCEPT !.at = place] IN c \in Call /\ c.at = place /\ c.user = call[i].user
BY DEF TypeOK, Call

LEMMA MarkSyncingStep ==
  ASSUME SyncInv, NEW i \in Saves, MarkSyncing(i)
  PROVE  SyncInv'
<1>1. TypeOK /\ call[i].at = "queued" /\ UNCHANGED <<flush, otherTab, net, server, device>>
  BY DEF SyncInv, MarkSyncing
<1>2. CASE queue[i] = NoItem
  <2>1. call' = [call EXCEPT ![i] = Over(call[i])] /\ Tell(i, "accepted") /\ queue' = queue
    BY <1>2 DEF MarkSyncing
  <2>2. Over(call[i]) \in Call /\ Over(call[i]).at = "over" /\ Over(call[i]).user = call[i].user
    BY <1>1, OverCall DEF TypeOK
  <2>3. /\ call' \in [Saves -> Call] /\ call'[i].at = "over" /\ \A j \in Saves : j # i => call'[j] = call[j]
        /\ TodoOwned' /\ ItemsOwned'
    BY <1>1, <2>1, <2>2, CallGoesOn
  <2>4. TypeOK'
    BY <1>1, <2>1, <2>3, FlushUntouched, TellTold DEF TypeOK
  <2>5. Awaited'
    BY <1>1, <2>3 DEF SyncInv, Awaited
  <2>6. told[i] = "dismissed" \/ applied[i] > 0
    BY <1>1, <1>2 DEF SyncInv, CallKept
  <2>7. Remembered' /\ CallKept' /\ NothingLost'
    BY <1>1, <2>1, <2>3, <2>6, TellTold DEF SyncInv, Remembered, CallKept, NothingLost
  <2> QED
    BY <1>1, <2>3, <2>4, <2>5, <2>7, FlushUntouched DEF SyncInv
<1>3. CASE queue[i] # NoItem
  <2> DEFINE c == [call[i] EXCEPT !.at = "registered"]
  <2>1. call' = [call EXCEPT ![i] = c] /\ told' = told /\ Update(i, Mark(i, "syncing"))
    BY <1>3 DEF MarkSyncing
  <2>2. c \in Call /\ c.at = "registered" /\ c.user = call[i].user
    BY <1>1, CallAt
  <2> HIDE DEF c
  <2>3. /\ queue' \in [Saves -> Item \cup {NoItem}] /\ queue'[i] \in Item /\ queue'[i].status = "syncing"
        /\ queue'[i].user = queue[i].user /\ \A j \in Saves : j # i => queue'[j] = queue[j]
    BY <1>1, <1>3, <2>1, MarkItem, UpdateQueue
  <2>4. /\ call' \in [Saves -> Call] /\ call'[i].at = "registered" /\ \A j \in Saves : j # i => call'[j] = call[j]
        /\ TodoOwned' /\ ItemsOwned'
    BY <1>1, <1>3, <2>1, <2>2, <2>3, CallGoesOn
  <2>5. TypeOK'
    BY <1>1, <2>1, <2>3, <2>4, FlushUntouched DEF TypeOK
  <2>6. Awaited'
    BY <1>1, <2>4 DEF SyncInv, Awaited
  <2>7. Remembered' /\ CallKept' /\ NothingLost'
    BY <1>1, <2>1, <2>3, <2>4, SyncQueueAssumption DEF SyncInv, Remembered, CallKept, NothingLost
  <2> QED
    BY <1>1, <2>4, <2>5, <2>6, <2>7, FlushUntouched DEF SyncInv
<1> QED
  BY <1>2, <1>3

LEMMA SendFirstStep ==
  ASSUME SyncInv, NEW i \in Saves, SendFirst(i)
  PROVE  SyncInv'
<1> DEFINE id == IF Cardinality(Expected(call[i].tab)) = 1 THEN Id(i) ELSE "none"
           c == [call[i] EXCEPT !.at = "sent"]
<1>1. /\ TypeOK /\ call[i].at = "registered" /\ Send(i, i, id) /\ call' = [call EXCEPT ![i] = c]
      /\ UNCHANGED <<queue, told, flush, otherTab, server, device>>
  BY DEF SyncInv, SendFirst
<1>2. id \in {"none", "fresh", "late"} /\ (id = "late" => i \in answered)
  BY DEF Id
<1>3. c \in Call /\ c.at = "sent" /\ c.user = call[i].user
  BY <1>1, CallAt
<1> HIDE DEF id, c
<1>4. PICK m \in Request : /\ m.item = i /\ m.from = i /\ m.id = id /\ m.stage = "sent"
                           /\ net' = net \cup {m}
  BY <1>1, <1>2, SendNet
<1>5. /\ call' \in [Saves -> Call] /\ call'[i].at = "sent" /\ \A j \in Saves : j # i => call'[j] = call[j]
      /\ TodoOwned' /\ ItemsOwned'
  BY <1>1, <1>3, CallGoesOn
<1>6. TypeOK'
  BY <1>1, <1>4, <1>5, FlushUntouched DEF TypeOK
<1>7. \A r \in net : r.from # i
  BY <1>1 DEF SyncInv, Awaited
<1>8. i \notin Tabs
  BY SyncQueueAssumption
<1>9. Awaited'
  BY <1>1, <1>4, <1>5, <1>7, <1>8 DEF SyncInv, Awaited
<1>10. Remembered' /\ CallKept' /\ NothingLost'
  BY <1>1, <1>2, <1>4, <1>5 DEF SyncInv, Remembered, CallKept, NothingLost
<1> QED
  BY <1>1, <1>5, <1>6, <1>9, <1>10, FlushUntouched DEF SyncInv

\* The end of a call: nothing waits for its requests any more, and if its item is gone or done, the
\* user dropped it, the server applied it, or the user is told that it was refused.
LEMMA CallEnds ==
  ASSUME SyncInv, NEW i \in Saves, call[i].at # "new",
         NEW answer \in {"accepted", "saved", "refused"}, Settle(i, answer),
         queue' \in [Saves -> Item \cup {NoItem}], \A j \in Saves : j # i => queue'[j] = queue[j],
         queue'[i] # NoItem => queue[i] # NoItem /\ queue'[i].user = queue[i].user,
         queue'[i] # NoItem /\ queue'[i].status = "done" => applied[i] > 0,
         queue'[i] = NoItem => told[i] = "dismissed" \/ applied[i] > 0 \/ answer = "refused",
         net' \in SUBSET Request,
         \A q \in net' : q.from # i,
         \A q \in net' : \/ q \in net
                         \/ q.from = Nobody /\ \E r \in net : q.item = r.item /\ q.id = r.id /\ q.stage = r.stage
  PROVE  SyncInv'
<1>1. TypeOK /\ UNCHANGED <<flush, otherTab, server, device>> /\ Tell(i, answer)
  BY DEF SyncInv, Settle
<1>2. call' = [call EXCEPT ![i] = Over(call[i])]
  BY DEF Settle
<1>3. Over(call[i]) \in Call /\ Over(call[i]).at = "over" /\ Over(call[i]).user = call[i].user
  BY <1>1, OverCall DEF TypeOK
<1>4. /\ call' \in [Saves -> Call] /\ call'[i].at = "over" /\ \A j \in Saves : j # i => call'[j] = call[j]
      /\ TodoOwned' /\ ItemsOwned'
  BY <1>1, <1>2, <1>3, CallGoesOn
<1>5. TypeOK'
  BY <1>1, <1>4, FlushUntouched, TellTold DEF TypeOK
<1>6. Awaited'
  BY <1>1, <1>4, SyncQueueAssumption DEF SyncInv, Awaited
<1>7. Remembered'
  BY <1>1 DEF SyncInv, Remembered
<1>8. CallKept'
  BY <1>1, <1>4, TellTold DEF SyncInv, CallKept
<1>9. NothingLost'
  BY <1>1, TellTold DEF SyncInv, NothingLost
<1> QED
  BY <1>1, <1>4, <1>5, <1>6, <1>7, <1>8, <1>9, FlushUntouched DEF SyncInv

LEMMA FirstAnsweredStep ==
  ASSUME SyncInv, NEW i \in Saves, FirstAnswered(i)
  PROVE  SyncInv'
<1>1. PICK r \in Own(i) : /\ Answered(i, r)
                          /\ IF r.stage = "ok" THEN Update(i, Mark(i, "done")) /\ Settle(i, "saved")
                             ELSE queue' = [queue EXCEPT ![i] = NoItem] /\ Settle(i, "refused")
  BY DEF FirstAnswered
<1>2. TypeOK /\ call[i].at = "sent" /\ r \in net /\ r.from = i /\ net' = net \ {r}
  BY <1>1 DEF SyncInv, FirstAnswered, Answered, Own
<1>3. r.item = i /\ \A q \in net' : q.from # i
  BY <1>2, SyncQueueAssumption DEF SyncInv, Awaited
<1>4. net' \in SUBSET Request
  BY <1>2 DEF TypeOK
<1>5. CASE r.stage = "ok"
  <2>1. applied[i] > 0
    BY <1>2, <1>3, <1>5 DEF SyncInv, Remembered
  <2>2. /\ queue' \in [Saves -> Item \cup {NoItem}] /\ \A j \in Saves : j # i => queue'[j] = queue[j]
        /\ queue'[i] # NoItem => queue[i] # NoItem /\ queue'[i].user = queue[i].user
    BY <1>1, <1>2, <1>5, MarkItem, UpdateQueue
  <2>3. Settle(i, "saved")
    BY <1>1, <1>5
  <2> QED
    BY <1>2, <1>3, <1>4, <2>1, <2>2, <2>3, CallEnds
<1>6. CASE r.stage # "ok"
  <2>1. queue' = [queue EXCEPT ![i] = NoItem] /\ Settle(i, "refused")
    BY <1>1, <1>6
  <2>2. queue' \in [Saves -> Item \cup {NoItem}] /\ queue'[i] = NoItem /\ \A j \in Saves : j # i => queue'[j] = queue[j]
    BY <1>2, <2>1 DEF TypeOK
  <2> QED
    BY <1>2, <1>3, <1>4, <2>1, <2>2, CallEnds
<1> QED
  BY <1>5, <1>6

LEMMA FirstLostStep ==
  ASSUME SyncInv, NEW i \in Saves, FirstLost(i)
  PROVE  SyncInv'
<1>1. PICK r \in Own(i) : Abandon({r})
  BY DEF FirstLost, Lost
<1>2. TypeOK /\ call[i].at = "sent" /\ r \in net /\ r.from = i
  BY <1>1 DEF SyncInv, FirstLost, Own
<1>3. /\ net' \in SUBSET Request
      /\ \A q \in net' : \/ q \in net \ {r}
                         \/ q.from = Nobody /\ q.item = r.item /\ q.id = r.id /\ q.stage = r.stage
  BY <1>1, <1>2, AbandonNet
<1>4. \A q \in net' : q.from # i
  BY <1>2, <1>3, SyncQueueAssumption DEF SyncInv, Awaited
<1>5. CASE call[i].method = "DELETE"
  <2>1. queue' = [queue EXCEPT ![i] = NoItem] /\ Settle(i, "refused")
    BY <1>5 DEF FirstLost
  <2>2. queue' \in [Saves -> Item \cup {NoItem}] /\ queue'[i] = NoItem /\ \A j \in Saves : j # i => queue'[j] = queue[j]
    BY <1>2, <2>1 DEF TypeOK
  <2> QED
    BY <1>2, <1>3, <1>4, <2>1, <2>2, CallEnds
<1>6. CASE call[i].method # "DELETE"
  <2> DEFINE item == [Mark(i, "pending") EXCEPT !.retries = 0]
  <2>1. Update(i, item) /\ Settle(i, "accepted")
    BY <1>6 DEF FirstLost
  <2>2. queue[i] # NoItem => item \in Item /\ item.status = "pending" /\ item.user = queue[i].user
    BY <1>2, MarkRetries, SyncQueueAssumption
  <2> HIDE DEF item
  <2>3. /\ queue' \in [Saves -> Item \cup {NoItem}] /\ \A j \in Saves : j # i => queue'[j] = queue[j]
        /\ queue[i] = NoItem => queue'[i] = NoItem
        /\ queue[i] # NoItem => queue'[i] = item
    BY <1>2, <2>1, <2>2, UpdateQueue
  <2>4. queue[i] = NoItem => told[i] = "dismissed" \/ applied[i] > 0
    BY <1>2 DEF SyncInv, CallKept
  <2> QED
    BY <1>2, <1>3, <1>4, <2>1, <2>2, <2>3, <2>4, CallEnds, SyncQueueAssumption
<1> QED
  BY <1>5, <1>6

-----------------------------------------------------------------------------
(* One step of a flush. *)

\* The flush of one tab goes on.
LEMMA FlushGoesOn ==
  ASSUME SyncInv, NEW t \in Tabs, NEW f \in Flush, flush' = [flush EXCEPT ![t] = f], UNCHANGED <<call, device>>,
         f.at = "idle" => f.todo = <<>>,
         f.at = "wait" => f.todo # <<>>,
         locks /\ f.at # "idle" => \A u \in Tabs : u # t => flush[u].at = "idle",
         \A n \in DOMAIN f.todo :
           f.todo[n][1] \in Saves /\ call[f.todo[n][1]].at # "new" /\ call[f.todo[n][1]].user = profile[t]
  PROVE  /\ flush' \in [Tabs -> Flush] /\ flush'[t] = f /\ \A u \in Tabs : u # t => flush'[u] = flush[u]
         /\ FlushFits' /\ OneFlush' /\ TodoOwned'
<1>1. flush' \in [Tabs -> Flush] /\ flush'[t] = f /\ \A u \in Tabs : u # t => flush'[u] = flush[u]
  BY DEF SyncInv, TypeOK
<1>2. FlushFits'
  BY <1>1 DEF SyncInv, FlushFits
<1>3. OneFlush'
  BY <1>1 DEF SyncInv, OneFlush
<1>4. TodoOwned'
  BY <1>1 DEF SyncInv, TodoOwned
<1> QED
  BY <1>1, <1>2, <1>3, <1>4

\* Items that change their state, but neither come nor go.
LEMMA ItemsGoOn ==
  ASSUME SyncInv, UNCHANGED <<call, told, server>>,
         queue' \in [Saves -> Item \cup {NoItem}],
         \A j \in Saves : queue[j] = NoItem => queue'[j] = NoItem,
         \A j \in Saves : queue[j] # NoItem => /\ queue'[j] # NoItem /\ queue'[j].user = queue[j].user
                                               /\ queue'[j].status = "done" => applied[j] > 0
  PROVE  /\ ItemsOwned' /\ CallKept' /\ NothingLost'
         /\ \A j \in Saves : queue'[j] # NoItem /\ queue'[j].status = "done" => applied[j] > 0
BY DEF SyncInv, ItemsOwned, CallKept, NothingLost

\* The requests under way, seen from one tab that goes on.
LEMMA NetGoesOn ==
  ASSUME SyncInv, NEW t \in Tabs, UNCHANGED <<call, server>>,
         \A u \in Tabs : u # t => flush'[u] = flush[u],
         \A q \in net' : q.from # t,
         \A q \in net' : \/ q \in net
                         \/ q.from = Nobody /\ \E r \in net : q.item = r.item /\ q.id = r.id /\ q.stage = r.stage,
         \A j \in Saves : queue'[j] # NoItem /\ queue'[j].status = "done" => applied[j] > 0
  PROVE  Awaited' /\ Remembered'
<1>1. Awaited'
  BY SyncQueueAssumption DEF SyncInv, Awaited
<1>2. Remembered'
  BY DEF SyncInv, Remembered
<1> QED
  BY <1>1, <1>2

LEMMA Unsent ==
  ASSUME SyncInv, NEW t \in Tabs, flush[t].at # "wait"
  PROVE  \A q \in net : q.from # t
BY DEF SyncInv, Awaited

LEMMA FlushAt ==
  ASSUME TypeOK, NEW t \in Tabs, NEW place \in {"asked", "begin", "wait"}
  PROVE  LET f == [flush[t] EXCEPT !.at = place] IN f \in Flush /\ f.at = place /\ f.todo = flush[t].todo
BY DEF TypeOK, Flush

\* A flush that moves while the queue and the network rest.
LEMMA FlushAtStep ==
  ASSUME SyncInv, NEW t \in Tabs, NEW f \in Flush, flush' = [flush EXCEPT ![t] = f], otherTab' \in SUBSET Tabs,
         UNCHANGED <<queue, call, told, net, server, device>>, flush[t].at # "wait",
         f.at \notin {"wait"},
         f.at = "idle" => f.todo = <<>>,
         locks /\ f.at # "idle" => \A u \in Tabs : u # t => flush[u].at = "idle",
         f.todo = flush[t].todo \/ f.todo = <<>>
  PROVE  SyncInv'
<1>1. TypeOK
  BY DEF SyncInv
<1>2. \A n \in DOMAIN f.todo :
        f.todo[n][1] \in Saves /\ call[f.todo[n][1]].at # "new" /\ call[f.todo[n][1]].user = profile[t]
  <2>1. CASE f.todo = flush[t].todo
    BY <1>1, <2>1, TodoItem DEF SyncInv, TodoOwned
  <2>2. CASE f.todo = <<>>
    BY <2>2
  <2> QED
    BY <2>1, <2>2
<1>3. /\ flush' \in [Tabs -> Flush] /\ \A u \in Tabs : u # t => flush'[u] = flush[u]
      /\ FlushFits' /\ OneFlush' /\ TodoOwned'
  BY <1>2, FlushGoesOn
<1>4. TypeOK'
  BY <1>1, <1>3 DEF TypeOK
<1>5. ItemsOwned' /\ CallKept' /\ NothingLost'
  BY DEF SyncInv, ItemsOwned, CallKept, NothingLost
<1>6. Awaited' /\ Remembered'
  <2>1. \A j \in Saves : queue'[j] # NoItem /\ queue'[j].status = "done" => applied[j] > 0
    BY DEF SyncInv, Remembered
  <2> QED
    BY <1>3, <2>1, NetGoesOn, Unsent
<1> QED
  BY <1>3, <1>4, <1>5, <1>6 DEF SyncInv

LEMMA IdleFlush == Idle \in Flush /\ Idle.at = "idle" /\ Idle.todo = <<>>
BY DEF Idle, Flush

LEMMA FlushAskStep ==
  ASSUME SyncInv, NEW t \in Tabs, FlushAsk(t)
  PROVE  SyncInv'
<1>1. TypeOK /\ flush[t].at = "idle" /\ UNCHANGED <<queue, call, told, net, server, device>>
  BY DEF SyncInv, FlushAsk
<1>2. CASE locks
  <2> DEFINE f == [flush[t] EXCEPT !.at = "begin"]
  <2>1. /\ \A u \in Tabs : flush[u].at = "idle"
        /\ flush' = [flush EXCEPT ![t] = f] /\ otherTab' = otherTab \cup (Tabs \ {t})
    BY <1>2 DEF FlushAsk, Start
  <2>2. f \in Flush /\ f.at = "begin" /\ f.todo = flush[t].todo
    BY <1>1, FlushAt
  <2>3. otherTab' \in SUBSET Tabs
    BY <1>1, <2>1 DEF TypeOK
  <2> HIDE DEF f
  <2> QED
    BY <1>1, <2>1, <2>2, <2>3, FlushAtStep
<1>3. CASE ~locks
  <2> DEFINE f == [flush[t] EXCEPT !.at = "asked"]
  <2>1. flush' = [flush EXCEPT ![t] = f] /\ otherTab' = otherTab
    BY <1>3 DEF FlushAsk
  <2>2. f \in Flush /\ f.at = "asked" /\ f.todo = flush[t].todo
    BY <1>1, FlushAt
  <2>3. otherTab' \in SUBSET Tabs
    BY <1>1, <2>1 DEF TypeOK
  <2> HIDE DEF f
  <2> QED
    BY <1>1, <1>3, <2>1, <2>2, <2>3, FlushAtStep
<1> QED
  BY <1>2, <1>3

LEMMA FlushGrantedStep ==
  ASSUME SyncInv, NEW t \in Tabs, FlushGranted(t)
  PROVE  SyncInv'
<1> DEFINE f == [flush[t] EXCEPT !.at = "begin"]
<1>1. /\ TypeOK /\ flush[t].at = "asked" /\ UNCHANGED <<queue, call, told, net, server, device>>
      /\ flush' = [flush EXCEPT ![t] = f] /\ otherTab' = otherTab \cup (Tabs \ {t})
  BY DEF SyncInv, FlushGranted, Start
<1>2. f \in Flush /\ f.at = "begin" /\ f.todo = flush[t].todo
  BY <1>1, FlushAt
<1>3. otherTab' \in SUBSET Tabs
  BY <1>1 DEF TypeOK
<1>4. locks => \A u \in Tabs : u # t => flush[u].at = "idle"
  BY <1>1 DEF SyncInv, OneFlush
<1> HIDE DEF f
<1> QED
  BY <1>1, <1>2, <1>3, <1>4, FlushAtStep

LEMMA FlushEndStep ==
  ASSUME SyncInv, NEW t \in Tabs, FlushEnd(t)
  PROVE  SyncInv'
<1>1. /\ flush[t].at = "send" /\ UNCHANGED <<queue, call, told, net, server, device>>
      /\ flush' = [flush EXCEPT ![t] = Idle] /\ otherTab' = otherTab \cap {t}
  BY DEF FlushEnd, Leave
<1>2. otherTab' \in SUBSET Tabs
  BY <1>1 DEF SyncInv, TypeOK
<1> QED
  BY <1>1, <1>2, IdleFlush, FlushAtStep

LEMMA OtherTabTimeoutStep ==
  ASSUME SyncInv, NEW t \in Tabs, OtherTabTimeout(t)
  PROVE  SyncInv'
<1>1. UNCHANGED <<queue, call, told, flush, net, server, device>> /\ otherTab' \in SUBSET Tabs
  BY DEF OtherTabTimeout, SyncInv, TypeOK
<1>2. TypeOK'
  BY <1>1 DEF SyncInv, TypeOK
<1>3. FlushFits' /\ OneFlush' /\ ItemsOwned' /\ TodoOwned' /\ CallKept' /\ NothingLost'
  BY <1>1 DEF SyncInv, FlushFits, OneFlush, ItemsOwned, TodoOwned, CallKept, NothingLost
<1>4. Awaited' /\ Remembered'
  BY <1>1 DEF SyncInv, Awaited, Remembered
<1> QED
  BY <1>2, <1>3, <1>4 DEF SyncInv

LEMMA FlushBeginStep ==
  ASSUME SyncInv, NEW t \in Tabs, FlushBegin(t)
  PROVE  SyncInv'
<1> DEFINE items == IF profile[t] = Nobody THEN {} ELSE Pending(queue', profile[t])
<1>1. TypeOK /\ flush[t].at = "begin" /\ queue' = Revived /\ UNCHANGED <<call, told, net, server, device>>
  BY DEF SyncInv, FlushBegin
<1>2. /\ queue' \in [Saves -> Item \cup {NoItem}]
      /\ ItemsOwned' /\ CallKept' /\ NothingLost'
      /\ \A j \in Saves : queue'[j] # NoItem /\ queue'[j].status = "done" => applied[j] > 0
  <2>1. \A j \in Saves : queue[j] # NoItem => (Revived[j].status = "done" => applied[j] > 0)
    BY <1>1, RevivedItems DEF SyncInv, Remembered
  <2> QED
    BY <1>1, <2>1, RevivedItems, ItemsGoOn
<1>3. PICK f \in Flush : /\ flush' = [flush EXCEPT ![t] = f] /\ otherTab' \in SUBSET Tabs
                         /\ f.at \in {"idle", "send"} /\ (f.at = "idle" => f.todo = <<>>)
                         /\ \A n \in DOMAIN f.todo : /\ f.todo[n][1] \in Saves /\ queue[f.todo[n][1]] # NoItem
                                                     /\ queue[f.todo[n][1]].user = profile[t]
  <2>1. CASE items = {}
    <3>1. flush' = [flush EXCEPT ![t] = Idle] /\ otherTab' = otherTab \cap {t}
      BY <2>1 DEF FlushBegin, Leave
    <3>2. otherTab' \in SUBSET Tabs
      BY <1>1, <3>1 DEF TypeOK
    <3>3. Idle \in Flush /\ Idle.at = "idle" /\ Idle.todo = <<>> /\ DOMAIN Idle.todo = {}
      BY IdleFlush
    <3> QED
      BY <3>1, <3>2, <3>3
  <2>2. CASE items # {}
    <3>1. profile[t] # Nobody /\ items = Pending(queue', profile[t])
      BY <2>2
    <3>2. PICK s \in InOrder(Pending(queue', profile[t])) :
            flush' = [flush EXCEPT ![t] =
                        [at |-> "send", todo |-> [n \in DOMAIN s |-> <<s[n], queue'[s[n]].retries>>]]]
      BY <2>2, <3>1 DEF FlushBegin
    <3>3. otherTab' = otherTab
      BY <2>2 DEF FlushBegin
    <3> DEFINE todo == [n \in DOMAIN s |-> <<s[n], queue'[s[n]].retries>>]
               f == [at |-> "send", todo |-> todo]
    <3>4. /\ todo \in Seq(Saves \X (0..MaxRetries + 1))
          /\ \A n \in DOMAIN todo : /\ todo[n][1] \in Saves /\ queue[todo[n][1]] # NoItem
                                    /\ queue[todo[n][1]].user = profile[t]
      BY <1>1, <3>1, TodoRead
    <3> HIDE DEF todo
    <3>5. f \in Flush /\ f.at = "send" /\ f.todo = todo
      BY <3>4 DEF Flush
    <3>6. flush' = [flush EXCEPT ![t] = f]
      BY <3>2 DEF todo
    <3> HIDE DEF f
    <3> QED
      BY <1>1, <3>3, <3>4, <3>5, <3>6 DEF TypeOK
  <2> QED
    BY <2>1, <2>2
<1>4. \A n \in DOMAIN f.todo :
        f.todo[n][1] \in Saves /\ call[f.todo[n][1]].at # "new" /\ call[f.todo[n][1]].user = profile[t]
  BY <1>3 DEF SyncInv, ItemsOwned
<1>5. locks => \A u \in Tabs : u # t => flush[u].at = "idle"
  BY <1>1 DEF SyncInv, OneFlush
<1>6. /\ flush' \in [Tabs -> Flush] /\ \A u \in Tabs : u # t => flush'[u] = flush[u]
      /\ FlushFits' /\ OneFlush' /\ TodoOwned'
  BY <1>1, <1>3, <1>4, <1>5, FlushGoesOn
<1>7. Awaited' /\ Remembered'
  BY <1>1, <1>2, <1>6, NetGoesOn, Unsent
<1>8. TypeOK'
  BY <1>1, <1>2, <1>3, <1>6 DEF TypeOK
<1> QED
  BY <1>2, <1>6, <1>7, <1>8 DEF SyncInv

LEMMA FlushSendStep ==
  ASSUME SyncInv, NEW t \in Tabs, FlushSend(t)
  PROVE  SyncInv'
<1> DEFINE i == Head(flush[t].todo)[1]
           f == [flush[t] EXCEPT !.at = "wait"]
<1>1. /\ TypeOK /\ flush[t].at = "send" /\ flush[t].todo # <<>> /\ Update(i, Mark(i, "syncing")) /\ Send(t, i, Id(i))
      /\ flush' = [flush EXCEPT ![t] = f] /\ UNCHANGED <<call, told, otherTab, server, device>>
  BY DEF SyncInv, FlushSend
<1>2. i \in Saves
  BY <1>1, HeadItem
<1>3. f \in Flush /\ f.at = "wait" /\ f.todo = flush[t].todo
  BY <1>1, FlushAt
<1>4. Id(i) \in {"none", "fresh", "late"} /\ (Id(i) = "late" => i \in answered)
  BY DEF Id
<1>5. PICK m \in Request : /\ m.item = i /\ m.from = t /\ m.id = Id(i) /\ m.stage = "sent"
                           /\ net' = net \cup {m}
  BY <1>1, <1>2, <1>4, SendNet
<1>6. /\ queue' \in [Saves -> Item \cup {NoItem}]
      /\ \A j \in Saves : queue[j] = NoItem => queue'[j] = NoItem
      /\ \A j \in Saves : queue[j] # NoItem => /\ queue'[j] # NoItem /\ queue'[j].user = queue[j].user
                                               /\ queue'[j].status = "done" => queue[j].status = "done"
  BY <1>1, <1>2, MarkItem, UpdateQueue, SyncQueueAssumption
<1>7. /\ ItemsOwned' /\ CallKept' /\ NothingLost'
      /\ \A j \in Saves : queue'[j] # NoItem /\ queue'[j].status = "done" => applied[j] > 0
  <2>1. \A j \in Saves : queue[j] # NoItem => (queue'[j].status = "done" => applied[j] > 0)
    BY <1>6 DEF SyncInv, Remembered
  <2> QED
    BY <1>1, <1>6, <2>1, ItemsGoOn
<1>8. flush'[t].todo = flush[t].todo /\ flush'[t].at = "wait"
  BY <1>1, <1>3 DEF TypeOK
<1> HIDE DEF i, f
<1>9. /\ flush' \in [Tabs -> Flush] /\ \A u \in Tabs : u # t => flush'[u] = flush[u]
      /\ FlushFits' /\ OneFlush' /\ TodoOwned'
  <2>1. \A n \in DOMAIN f.todo :
          f.todo[n][1] \in Saves /\ call[f.todo[n][1]].at # "new" /\ call[f.todo[n][1]].user = profile[t]
    BY <1>1, <1>3, TodoItem DEF SyncInv, TodoOwned
  <2>2. locks => \A u \in Tabs : u # t => flush[u].at = "idle"
    BY <1>1 DEF SyncInv, OneFlush
  <2> QED
    BY <1>1, <1>3, <2>1, <2>2, FlushGoesOn
<1>10. Awaited'
  <2>1. \A q \in net : q.from # t
    BY <1>1, Unsent
  <2>2. t \notin Saves
    BY SyncQueueAssumption
  <2>3. m.item = Head(flush'[t].todo)[1]
    BY <1>5, <1>8 DEF i
  <2> QED
    BY <1>1, <1>5, <1>8, <1>9, <2>1, <2>2, <2>3 DEF SyncInv, Awaited
<1>11. Remembered'
  BY <1>1, <1>4, <1>5, <1>7 DEF SyncInv, Remembered
<1>12. TypeOK'
  BY <1>1, <1>5, <1>6, <1>9 DEF TypeOK
<1> QED
  BY <1>7, <1>9, <1>10, <1>11, <1>12 DEF SyncInv

\* The flush turns to its next item: the one it was at stays in the queue, done only if the server
\* applied it, and no request of the tab is under way any more.
LEMMA Proceeds ==
  ASSUME SyncInv, NEW t \in Tabs, flush[t].at \in {"send", "wait"}, flush[t].todo # <<>>, Proceed(t),
         queue' \in [Saves -> Item \cup {NoItem}],
         \A j \in Saves : queue[j] = NoItem => queue'[j] = NoItem,
         \A j \in Saves : queue[j] # NoItem => /\ queue'[j] # NoItem /\ queue'[j].user = queue[j].user
                                               /\ queue'[j].status = "done" => applied[j] > 0,
         net' \in SUBSET Request,
         \A q \in net' : q.from # t,
         \A q \in net' : \/ q \in net
                         \/ q.from = Nobody /\ \E r \in net : q.item = r.item /\ q.id = r.id /\ q.stage = r.stage
  PROVE  SyncInv'
<1> DEFINE f == [at |-> "send", todo |-> Tail(flush[t].todo)]
<1>1. TypeOK /\ flush' = [flush EXCEPT ![t] = f] /\ UNCHANGED <<call, told, otherTab, server, device>>
  BY DEF SyncInv, Proceed
<1>2. f \in Flush /\ f.at = "send" /\ f.todo = Tail(flush[t].todo)
  BY <1>1, HeadItem DEF Flush
<1> HIDE DEF f
<1>3. \A n \in DOMAIN f.todo :
        f.todo[n][1] \in Saves /\ call[f.todo[n][1]].at # "new" /\ call[f.todo[n][1]].user = profile[t]
  BY <1>1, <1>2, HeadItem, TodoItem DEF SyncInv, TodoOwned
<1>4. locks => \A u \in Tabs : u # t => flush[u].at = "idle"
  BY DEF SyncInv, OneFlush
<1>5. /\ flush' \in [Tabs -> Flush] /\ \A u \in Tabs : u # t => flush'[u] = flush[u]
      /\ FlushFits' /\ OneFlush' /\ TodoOwned'
  BY <1>1, <1>2, <1>3, <1>4, FlushGoesOn
<1>6. /\ ItemsOwned' /\ CallKept' /\ NothingLost'
      /\ \A j \in Saves : queue'[j] # NoItem /\ queue'[j].status = "done" => applied[j] > 0
  BY <1>1, ItemsGoOn
<1>7. Awaited' /\ Remembered'
  BY <1>1, <1>5, <1>6, NetGoesOn
<1>8. TypeOK'
  BY <1>1, <1>5 DEF TypeOK
<1> QED
  BY <1>5, <1>6, <1>7, <1>8 DEF SyncInv

\* What RetryLater leaves of the items.
LEMMA RetryLaterItems ==
  ASSUME SyncInv, NEW t \in Tabs, flush[t].todo # <<>>, RetryLater(Head(flush[t].todo)[1], Head(flush[t].todo)[2])
  PROVE  /\ queue' \in [Saves -> Item \cup {NoItem}]
         /\ \A j \in Saves : queue[j] = NoItem => queue'[j] = NoItem
         /\ \A j \in Saves : queue[j] # NoItem => /\ queue'[j] # NoItem /\ queue'[j].user = queue[j].user
                                                  /\ queue'[j].status = "done" => applied[j] > 0
<1> DEFINE i == Head(flush[t].todo)[1]
           n == Head(flush[t].todo)[2]
<1>1. TypeOK
  BY DEF SyncInv
<1>2. i \in Saves /\ n \in 0..MaxRetries + 1 /\ RetryLater(i, n)
  BY <1>1, HeadItem
<1> HIDE DEF i, n
<1>3. /\ queue' \in [Saves -> Item \cup {NoItem}]
      /\ \A j \in Saves : j # i => queue'[j] = queue[j]
      /\ queue[i] = NoItem => queue'[i] = NoItem
      /\ queue[i] # NoItem => /\ queue'[i] \in Item /\ queue'[i].status \in {"pending", "failed"}
                              /\ queue'[i].user = queue[i].user
  BY <1>1, <1>2, RetryLaterQueue
<1> QED
  BY <1>1, <1>2, <1>3, SyncQueueAssumption DEF SyncInv, Remembered

LEMMA FlushAnsweredStep ==
  ASSUME SyncInv, NEW t \in Tabs, FlushAnswered(t)
  PROVE  SyncInv'
<1> DEFINE i == Head(flush[t].todo)[1]
           n == Head(flush[t].todo)[2]
<1>1. TypeOK /\ flush[t].at = "wait" /\ flush[t].todo # <<>> /\ Proceed(t)
  BY DEF SyncInv, FlushFits, FlushAnswered
<1>2. PICK r \in Own(t) :
        /\ Answered(t, r)
        /\ CASE r.stage = "ok"      -> Update(i, Mark(i, "done"))
             [] r.stage = "refused" -> Update(i, [Mark(i, "failed") EXCEPT !.retries = NextRetry(n)])
             [] r.stage = "error"   -> RetryLater(i, n)
  BY DEF FlushAnswered
<1>3. r \in net /\ r.from = t /\ r.item = i /\ r.stage \in {"ok", "refused", "error"} /\ net' = net \ {r}
  BY <1>2 DEF SyncInv, Awaited, Answered, Answers, Own
<1>4. (\A q \in net' : q.from # t) /\ net' \in SUBSET Request
  <2>1. t # Nobody
    BY SyncQueueAssumption
  <2> QED
    BY <1>1, <1>3, <2>1 DEF SyncInv, Awaited, TypeOK
<1>5. i \in Saves /\ n \in 0..MaxRetries + 1
  BY <1>1, HeadItem
<1>6. /\ queue' \in [Saves -> Item \cup {NoItem}]
      /\ \A j \in Saves : queue[j] = NoItem => queue'[j] = NoItem
      /\ \A j \in Saves : queue[j] # NoItem => /\ queue'[j] # NoItem /\ queue'[j].user = queue[j].user
                                               /\ queue'[j].status = "done" => applied[j] > 0
  <2>1. CASE r.stage = "error"
    BY <1>1, <1>2, <2>1, RetryLaterItems
  <2>2. CASE r.stage = "ok"
    <3>1. Update(i, Mark(i, "done"))
      BY <1>2, <2>2
    <3>2. applied[i] > 0
      BY <1>3, <2>2 DEF SyncInv, Remembered
    <3> HIDE DEF i, n
    <3>3. /\ queue' \in [Saves -> Item \cup {NoItem}]
          /\ \A j \in Saves : j # i => queue'[j] = queue[j]
          /\ queue[i] = NoItem => queue'[i] = NoItem
          /\ queue[i] # NoItem => queue'[i] \in Item /\ queue'[i].user = queue[i].user
      BY <1>1, <1>5, <3>1, MarkItem, UpdateQueue
    <3> QED
      BY <1>5, <3>2, <3>3, SyncQueueAssumption DEF SyncInv, Remembered
  <2>3. CASE r.stage = "refused"
    <3> DEFINE item == [Mark(i, "failed") EXCEPT !.retries = NextRetry(n)]
    <3>1. Update(i, item)
      BY <1>2, <2>3
    <3> HIDE DEF i, n
    <3>2. queue[i] # NoItem => item \in Item /\ item.status = "failed" /\ item.user = queue[i].user
      BY <1>1, <1>5, NextRetryBounded, MarkRetries
    <3> HIDE DEF item
    <3>3. /\ queue' \in [Saves -> Item \cup {NoItem}]
          /\ \A j \in Saves : j # i => queue'[j] = queue[j]
          /\ queue[i] = NoItem => queue'[i] = NoItem
          /\ queue[i] # NoItem => queue'[i] = item
      BY <1>1, <1>5, <3>1, <3>2, UpdateQueue
    <3> QED
      BY <1>5, <3>2, <3>3, SyncQueueAssumption DEF SyncInv, Remembered
  <2> QED
    BY <1>3, <2>1, <2>2, <2>3
<1> QED
  BY <1>1, <1>3, <1>4, <1>6, Proceeds

LEMMA FlushLostStep ==
  ASSUME SyncInv, NEW t \in Tabs, FlushLost(t)
  PROVE  SyncInv'
<1>1. /\ TypeOK /\ flush[t].at = "wait" /\ flush[t].todo # <<>> /\ Proceed(t)
      /\ RetryLater(Head(flush[t].todo)[1], Head(flush[t].todo)[2])
  BY DEF SyncInv, FlushFits, FlushLost
<1>2. PICK r \in net : r.from = t /\ Abandon({r})
  BY DEF FlushLost, Lost, Own
<1>3. /\ net' \in SUBSET Request
      /\ \A q \in net' : \/ q \in net \ {r}
                         \/ q.from = Nobody /\ q.item = r.item /\ q.id = r.id /\ q.stage = r.stage
  BY <1>1, <1>2, AbandonNet
<1>4. \A q \in net' : q.from # t
  <2>1. t # Nobody
    BY SyncQueueAssumption
  <2> QED
    BY <1>2, <1>3, <2>1 DEF SyncInv, Awaited
<1> QED
  BY <1>1, <1>3, <1>4, RetryLaterItems, Proceeds

LEMMA FlushNoTokenStep ==
  ASSUME SyncInv, NEW t \in Tabs, FlushNoToken(t)
  PROVE  SyncInv'
<1>1. /\ TypeOK /\ flush[t].at = "send" /\ flush[t].todo # <<>> /\ Proceed(t) /\ net' = net
      /\ RetryLater(Head(flush[t].todo)[1], Head(flush[t].todo)[2])
  BY DEF SyncInv, FlushNoToken
<1>2. (\A q \in net' : q.from # t) /\ net' \in SUBSET Request
  BY <1>1, Unsent DEF TypeOK
<1> QED
  BY <1>1, <1>2, RetryLaterItems, Proceeds


-----------------------------------------------------------------------------
(* The list of failed changes and the clocks: one item of the queue. *)

LEMMA ItemChanges ==
  ASSUME SyncInv, NEW i \in Saves, queue[i] # NoItem, NEW item \in Item, item.user = queue[i].user,
         item.status # "done", queue' = [queue EXCEPT ![i] = item],
         UNCHANGED <<call, told, flush, otherTab, net, server, device>>
  PROVE  SyncInv'
<1>1. TypeOK
  BY DEF SyncInv
<1>2. /\ queue' \in [Saves -> Item \cup {NoItem}] /\ queue'[i] = item /\ item # NoItem
      /\ \A j \in Saves : j # i => queue'[j] = queue[j]
  BY <1>1, SyncQueueAssumption DEF TypeOK
<1>3. /\ ItemsOwned' /\ CallKept' /\ NothingLost'
      /\ \A j \in Saves : queue'[j] # NoItem /\ queue'[j].status = "done" => applied[j] > 0
  <2>1. \A j \in Saves : queue[j] = NoItem => queue'[j] = NoItem
    BY <1>2
  <2>2. \A j \in Saves : queue[j] # NoItem => /\ queue'[j] # NoItem /\ queue'[j].user = queue[j].user
                                              /\ queue'[j].status = "done" => applied[j] > 0
    BY <1>2 DEF SyncInv, Remembered
  <2> QED
    BY <1>2, <2>1, <2>2, ItemsGoOn
<1>4. TodoOwned' /\ Awaited'
  BY DEF SyncInv, TodoOwned, Awaited
<1>5. Remembered'
  BY <1>3 DEF SyncInv, Remembered
<1>6. TypeOK'
  BY <1>1, <1>2 DEF TypeOK
<1> QED
  BY <1>3, <1>4, <1>5, <1>6, FlushUntouched DEF SyncInv

\* An item goes only when the user drops it or when the server has applied it.
LEMMA ItemGoes ==
  ASSUME SyncInv, NEW i \in Saves, queue' = [queue EXCEPT ![i] = NoItem],
         told' \in [Saves -> {"nothing", "accepted", "saved", "refused", "dismissed"}],
         \A j \in Saves : j # i => told'[j] = told[j],
         told'[i] = "dismissed" \/ (told'[i] = told[i] /\ applied[i] > 0),
         UNCHANGED <<call, flush, otherTab, net, server, device>>
  PROVE  SyncInv'
<1>1. TypeOK
  BY DEF SyncInv
<1>2. /\ queue' \in [Saves -> Item \cup {NoItem}] /\ queue'[i] = NoItem
      /\ \A j \in Saves : j # i => queue'[j] = queue[j]
  BY <1>1 DEF TypeOK
<1>3. ItemsOwned' /\ TodoOwned' /\ Awaited'
  BY <1>2 DEF SyncInv, ItemsOwned, TodoOwned, Awaited
<1>4. Remembered' /\ CallKept' /\ NothingLost'
  BY <1>2 DEF SyncInv, Remembered, CallKept, NothingLost
<1>5. TypeOK'
  BY <1>1, <1>2 DEF TypeOK
<1> QED
  BY <1>3, <1>4, <1>5, FlushUntouched DEF SyncInv

LEMMA ItemSet ==
  ASSUME NEW item \in Item, NEW n \in 0..MaxRetries + 1
  PROVE  LET new == [item EXCEPT !.status = "pending", !.retries = n, !.clock = "over"]
         IN  new \in Item /\ new.user = item.user /\ new.status = "pending"
BY DEF Item

LEMMA RetryItemStep ==
  ASSUME SyncInv, NEW i \in Saves, NEW t \in Tabs, RetryItem(i, t)
  PROVE  SyncInv'
<1> DEFINE item == [queue[i] EXCEPT !.status = "pending", !.retries = 0, !.clock = "over"]
<1>1. /\ TypeOK /\ queue[i] # NoItem /\ queue' = [queue EXCEPT ![i] = item]
      /\ UNCHANGED <<call, told, flush, otherTab, net, server, device>>
  BY DEF SyncInv, RetryItem
<1>2. queue[i] \in Item
  BY <1>1 DEF TypeOK
<1>3. 0 \in 0..MaxRetries + 1
  BY SyncQueueAssumption
<1>4. item \in Item /\ item.user = queue[i].user /\ item.status = "pending"
  BY <1>2, <1>3, ItemSet
<1> HIDE DEF item
<1> QED
  BY <1>1, <1>4, ItemChanges

LEMMA DismissItemStep ==
  ASSUME SyncInv, NEW i \in Saves, NEW t \in Tabs, DismissItem(i, t)
  PROVE  SyncInv'
BY ItemGoes DEF DismissItem, SyncInv, TypeOK

LEMMA PruneSyncQueueStep ==
  ASSUME SyncInv, NEW i \in Saves, PruneSyncQueue(i)
  PROVE  SyncInv'
<1>1. applied[i] > 0 /\ told' = told
  BY DEF PruneSyncQueue, SyncInv, Remembered
<1> QED
  BY <1>1, ItemGoes DEF PruneSyncQueue, SyncInv, TypeOK

\* What BecomesDue and TwoMinutesPass do to an item.
LEMMA ClockStep ==
  ASSUME SyncInv, NEW i \in Saves, queue[i] # NoItem, queue[i].status \in {"pending", "syncing"},
         queue' = [queue EXCEPT ![i].clock = "over"], UNCHANGED <<call, told, flush, otherTab, net, server, device>>
  PROVE  SyncInv'
<1> DEFINE item == [queue[i] EXCEPT !.clock = "over"]
<1>1. queue' = [queue EXCEPT ![i] = item]
  OBVIOUS
<1>2. queue[i] \in Item
  BY DEF SyncInv, TypeOK
<1>3. item \in Item /\ item.user = queue[i].user /\ item.status = queue[i].status
  BY <1>2 DEF Item
<1> HIDE DEF item
<1> QED
  BY <1>1, <1>3, ItemChanges

-----------------------------------------------------------------------------
(* A tab closes. *)

LEMMA CloseTabStep ==
  ASSUME SyncInv, NEW t \in Tabs, NEW u \in Users \cup {Nobody}, CloseTab(t, u)
  PROVE  SyncInv'
<1> DEFINE rs == {r \in net : r.from = t \/ (r.from \in Saves /\ call[r.from].tab = t)}
<1>1. /\ TypeOK /\ profile' = [profile EXCEPT ![t] = u] /\ faults < MaxFaults /\ faults' = faults + 1
      /\ flush' = [flush EXCEPT ![t] = Idle] /\ otherTab' = otherTab \ {t} /\ Abandon(rs)
      /\ UNCHANGED <<locks, queue, told, server>>
  BY DEF SyncInv, CloseTab
<1>2. /\ net' \in SUBSET Request
      /\ \A q \in net' : \/ q \in net \ rs
                         \/ q.from = Nobody /\ \E r \in rs : q.item = r.item /\ q.id = r.id /\ q.stage = r.stage
  BY <1>1, AbandonNet
<1>3. /\ call' \in [Saves -> Call]
      /\ \A i \in Saves : /\ call'[i].user = call[i].user /\ (call[i].at # "new" => call'[i].at # "new")
                          /\ call'[i] = call[i] \/ (call[i].tab = t /\ call'[i].at = "over")
  <2>1. call' = [i \in Saves |-> IF call[i].tab = t /\ call[i].at # "new" THEN Over(call[i]) ELSE call[i]]
    BY DEF CloseTab
  <2>2. \A i \in Saves : call[i] \in Call
    BY <1>1 DEF TypeOK
  <2> QED
    BY <2>1, <2>2, OverCall
<1>4. /\ profile' \in [Tabs -> Users \cup {Nobody}] /\ \A v \in Tabs : v # t => profile'[v] = profile[v]
      /\ flush' \in [Tabs -> Flush] /\ flush'[t] = Idle /\ \A v \in Tabs : v # t => flush'[v] = flush[v]
  BY <1>1, IdleFlush DEF TypeOK
<1>5. faults' \in 0..MaxFaults
  BY <1>1, SyncQueueAssumption DEF TypeOK
<1> HIDE DEF rs
<1>6. TypeOK'
  BY <1>1, <1>2, <1>3, <1>4, <1>5 DEF TypeOK
<1>7. FlushFits' /\ OneFlush'
  BY <1>1, <1>4, IdleFlush DEF SyncInv, FlushFits, OneFlush
<1>8. ItemsOwned' /\ CallKept' /\ NothingLost'
  BY <1>1, <1>3 DEF SyncInv, ItemsOwned, CallKept, NothingLost
<1>9. TodoOwned'
  <2>1. ASSUME NEW v \in Tabs, NEW n \in DOMAIN flush'[v].todo
        PROVE  LET i == flush'[v].todo[n][1] IN call'[i].at # "new" /\ call'[i].user = profile'[v]
    <3>1. v # t
      <4>1. DOMAIN Idle.todo = {}
        BY IdleFlush
      <4> QED
        BY <1>4, <2>1, <4>1
    <3>2. flush'[v] = flush[v] /\ profile'[v] = profile[v]
      BY <1>4, <3>1
    <3> QED
      BY <1>1, <1>3, <2>1, <3>2, TodoItem DEF SyncInv, TodoOwned
  <2> QED
    BY <2>1 DEF TodoOwned
<1>10. Awaited'
  <2>1. ASSUME NEW q \in net \ rs
        PROVE  /\ q.from \in Tabs => flush'[q.from].at = "wait" /\ q.item = Head(flush'[q.from].todo)[1]
               /\ q.from \in Saves => call'[q.from].at = "sent" /\ q.item = q.from
    <3>1. q.from # t /\ (q.from \in Saves => call[q.from].tab # t)
      BY DEF rs
    <3> QED
      BY <1>3, <1>4, <3>1 DEF SyncInv, Awaited
  <2> QED
    BY <1>2, <2>1, SyncQueueAssumption DEF SyncInv, Awaited
<1>11. Remembered'
  <2>1. rs \subseteq net
    BY DEF rs
  <2> QED
    BY <1>1, <1>2, <2>1 DEF SyncInv, Remembered
<1> QED
  BY <1>6, <1>7, <1>8, <1>9, <1>10, <1>11 DEF SyncInv

-----------------------------------------------------------------------------
(* The server. *)

\* A request goes one stage on.
LEMMA ServedStep ==
  ASSUME SyncInv, NEW r \in net, NEW m \in Request, m.item = r.item, m.from = r.from, m.id = r.id,
         net' \subseteq (net \ {r}) \cup {m}, UNCHANGED <<client, device>>,
         applied' \in [Saves -> 0..CountTo], \A j \in Saves : applied[j] > 0 => applied'[j] > 0,
         answered' \in SUBSET Saves, answered \subseteq answered', \A j \in answered' : applied'[j] > 0,
         m.stage \in {"applied", "ok"} => applied'[m.item] > 0,
         m.id = "late" => m.stage \notin {"running", "applied"}
  PROVE  SyncInv'
<1>1. TypeOK /\ r \in Request
  BY DEF SyncInv, TypeOK
<1>2. TypeOK'
  BY <1>1 DEF TypeOK
<1>3. FlushFits' /\ OneFlush' /\ ItemsOwned' /\ TodoOwned'
  BY DEF SyncInv, FlushFits, OneFlush, ItemsOwned, TodoOwned
<1>4. CallKept' /\ NothingLost'
  BY DEF SyncInv, CallKept, NothingLost
<1>5. Awaited'
  BY DEF SyncInv, Awaited
<1>6. Remembered'
  <2>1. \A q \in net' : /\ q.stage \in {"applied", "ok"} => applied'[q.item] > 0
                        /\ q.id = "late" => q.item \in answered' /\ q.stage \notin {"running", "applied"}
    <3>1. m.id = "late" => m.item \in answered'
      BY DEF SyncInv, Remembered
    <3>2. \A q \in net : q.item \in Saves
      BY <1>1 DEF TypeOK, Request
    <3> QED
      BY <3>1, <3>2 DEF SyncInv, Remembered
  <2>2. \A j \in Saves : queue'[j] # NoItem /\ queue'[j].status = "done" => applied'[j] > 0
    BY DEF SyncInv, Remembered
  <2> QED
    BY <2>1, <2>2 DEF Remembered
<1> QED
  BY <1>2, <1>3, <1>4, <1>5, <1>6 DEF SyncInv

LEMMA LookUpStep ==
  ASSUME SyncInv, NEW r \in net, LookUp(r)
  PROVE  SyncInv'
<1> DEFINE stage == IF r.id # "none" /\ r.item \in answered THEN "ok" ELSE "running"
<1>1. TypeOK /\ Advance(r, stage) /\ UNCHANGED <<client, server, device>>
  BY DEF SyncInv, LookUp, ServerOnly
<1>2. PICK m \in Request : /\ m.item = r.item /\ m.from = r.from /\ m.id = r.id /\ m.stage = stage
                           /\ net' \subseteq (net \ {r}) \cup {m}
  <2>1. stage \in {"running", "applied", "ok", "refused", "error"}
    OBVIOUS
  <2> HIDE DEF stage
  <2> QED
    BY <1>1, <2>1, AdvanceNet
<1>3. r.id = "late" => r.item \in answered
  BY DEF SyncInv, Remembered
<1>4. m.stage \in {"applied", "ok"} => applied[m.item] > 0
  BY <1>2 DEF SyncInv, Remembered
<1>5. m.id = "late" => m.stage \notin {"running", "applied"}
  BY <1>2, <1>3
<1>6. /\ applied' \in [Saves -> 0..CountTo] /\ answered' \in SUBSET Saves /\ applied' = applied /\ answered' = answered
      /\ \A j \in answered' : applied'[j] > 0
  BY <1>1 DEF SyncInv, TypeOK, Remembered
<1> HIDE DEF stage
<1> QED
  BY <1>1, <1>2, <1>4, <1>5, <1>6, ServedStep

LEMMA HandleStep ==
  ASSUME SyncInv, NEW r \in net, Handle(r)
  PROVE  SyncInv'
<1> DEFINE stage == IF r.id # "none" THEN "applied" ELSE "ok"
<1>1. /\ TypeOK /\ r.stage = "running" /\ Advance(r, stage) /\ UNCHANGED <<client, answered, device>>
      /\ applied' = [applied EXCEPT ![r.item] = IF @ < CountTo THEN @ + 1 ELSE @]
  BY DEF SyncInv, Handle, ServerOnly
<1>2. PICK m \in Request : /\ m.item = r.item /\ m.from = r.from /\ m.id = r.id /\ m.stage = stage
                           /\ net' \subseteq (net \ {r}) \cup {m}
  <2>1. stage \in {"running", "applied", "ok", "refused", "error"}
    OBVIOUS
  <2> HIDE DEF stage
  <2> QED
    BY <1>1, <2>1, AdvanceNet
<1>3. r.item \in Saves
  BY <1>1 DEF TypeOK, Request
<1>4. applied' \in [Saves -> 0..CountTo] /\ applied'[r.item] > 0 /\ \A j \in Saves : applied[j] > 0 => applied'[j] > 0
  BY <1>1, <1>3, SyncQueueAssumption DEF TypeOK
<1>5. m.id # "late"
  BY <1>1, <1>2 DEF SyncInv, Remembered
<1>6. answered' \in SUBSET Saves /\ answered' = answered /\ \A j \in answered' : applied'[j] > 0
  BY <1>1, <1>4 DEF SyncInv, TypeOK, Remembered
<1> HIDE DEF stage
<1> QED
  BY <1>1, <1>2, <1>4, <1>5, <1>6, ServedStep

LEMMA RefuseStep ==
  ASSUME SyncInv, NEW r \in net, Refuse(r)
  PROVE  SyncInv'
<1>1. TypeOK /\ r.stage = "running" /\ UNCHANGED <<client, server, device>>
  BY DEF SyncInv, Refuse, ServerOnly
<1>2. PICK stage \in {"refused", "error"} : Advance(r, stage)
  BY DEF Refuse
<1>3. PICK m \in Request : /\ m.item = r.item /\ m.from = r.from /\ m.id = r.id /\ m.stage = stage
                           /\ net' \subseteq (net \ {r}) \cup {m}
  BY <1>1, <1>2, AdvanceNet
<1>4. /\ applied' \in [Saves -> 0..CountTo] /\ answered' \in SUBSET Saves /\ applied' = applied /\ answered' = answered
      /\ \A j \in answered' : applied'[j] > 0
  BY <1>1 DEF SyncInv, TypeOK, Remembered
<1> QED
  BY <1>1, <1>2, <1>3, <1>4, ServedStep

LEMMA StoreKeyStep ==
  ASSUME SyncInv, NEW r \in net, StoreKey(r)
  PROVE  SyncInv'
<1>1. /\ TypeOK /\ r.stage = "applied" /\ answered' \in {answered, answered \cup {r.item}} /\ Advance(r, "ok")
      /\ UNCHANGED <<client, applied, device>>
  BY DEF SyncInv, StoreKey, ServerOnly
<1>2. PICK m \in Request : /\ m.item = r.item /\ m.from = r.from /\ m.id = r.id /\ m.stage = "ok"
                           /\ net' \subseteq (net \ {r}) \cup {m}
  BY <1>1, AdvanceNet
<1>3. r.item \in Saves /\ applied[r.item] > 0
  BY <1>1 DEF TypeOK, Request, SyncInv, Remembered
<1>4. /\ applied' \in [Saves -> 0..CountTo] /\ applied' = applied
      /\ answered' \in SUBSET Saves /\ answered \subseteq answered' /\ \A j \in answered' : applied'[j] > 0
  BY <1>1, <1>3 DEF SyncInv, TypeOK, Remembered
<1> QED
  BY <1>1, <1>2, <1>3, <1>4, ServedStep

-----------------------------------------------------------------------------
(* The theorems. *)

LEMMA SyncInit == Init => SyncInv
<1> SUFFICES ASSUME Init PROVE SyncInv
  OBVIOUS
<1>1. TypeOK
  <2>1. profile \in [Tabs -> Users \cup {Nobody}]
    BY DEF Init
  <2>2. locks \in BOOLEAN
    BY Zenon DEF Init
  <2>3. faults \in 0..MaxFaults
    <3>1. CASE MaxFaults = 0
      <4>1. locks
        BY <3>1, Zenon DEF Init
      <4> QED
        BY <4>1, SyncQueueAssumption DEF Init
    <3>2. CASE MaxFaults # 0
      BY <3>2, SyncQueueAssumption DEF Init
    <3> QED
      BY <3>1, <3>2
  <2>4. queue \in [Saves -> Item \cup {NoItem}] /\ flush \in [Tabs -> Flush]
    BY IdleFlush DEF Init
  <2>5. call \in [Saves -> Call] /\ told \in [Saves -> {"nothing", "accepted", "saved", "refused", "dismissed"}]
    BY DEF Init, Call
  <2>6. otherTab \in SUBSET Tabs /\ net \in SUBSET Request /\ applied \in [Saves -> 0..CountTo] /\ answered \in SUBSET Saves
    BY SyncQueueAssumption DEF Init
  <2> QED
    BY <2>1, <2>2, <2>3, <2>4, <2>5, <2>6 DEF TypeOK
<1>2. FlushFits /\ OneFlush /\ TodoOwned
  <2>1. \A t \in Tabs : flush[t] = Idle
    BY DEF Init
  <2>2. Idle.at = "idle" /\ Idle.todo = <<>> /\ DOMAIN Idle.todo = {}
    BY IdleFlush
  <2> QED
    BY <2>1, <2>2 DEF FlushFits, OneFlush, TodoOwned
<1>3. ItemsOwned /\ Awaited /\ Remembered /\ CallKept /\ NothingLost
  BY DEF Init, ItemsOwned, Awaited, Remembered, CallKept, NothingLost
<1> QED
  BY <1>1, <1>2, <1>3 DEF SyncInv

LEMMA SyncNext == SyncInv /\ [Next]_vars => SyncInv'
<1> SUFFICES ASSUME SyncInv, [Next]_vars PROVE SyncInv'
  OBVIOUS
<1>1. ASSUME NEW i \in Saves, NEW t \in Tabs,
             (\E d, offline \in BOOLEAN : RunMutation(i, t, d, offline)) \/ RetryItem(i, t) \/ DismissItem(i, t)
      PROVE  SyncInv'
  BY <1>1, RunMutationStep, RetryItemStep, DismissItemStep
<1>2. ASSUME NEW i \in Saves,
             \/ MarkSyncing(i) \/ SendFirst(i) \/ FirstAnswered(i) \/ FirstLost(i)
             \/ PruneSyncQueue(i) \/ BecomesDue(i) \/ TwoMinutesPass(i)
      PROVE  SyncInv'
  <2>1. CASE BecomesDue(i) \/ TwoMinutesPass(i)
    BY <2>1, ClockStep DEF BecomesDue, TwoMinutesPass
  <2> QED
    BY <1>2, <2>1, MarkSyncingStep, SendFirstStep, FirstAnsweredStep, FirstLostStep, PruneSyncQueueStep
<1>3. ASSUME NEW t \in Tabs,
             \/ FlushAsk(t) \/ FlushGranted(t) \/ FlushBegin(t) \/ FlushSend(t) \/ FlushAnswered(t)
             \/ FlushLost(t) \/ FlushNoToken(t) \/ FlushEnd(t) \/ OtherTabTimeout(t)
             \/ \E u \in Users \cup {Nobody} : CloseTab(t, u)
      PROVE  SyncInv'
  BY <1>3, FlushAskStep, FlushGrantedStep, FlushBeginStep, FlushSendStep, FlushAnsweredStep, FlushLostStep,
     FlushNoTokenStep, FlushEndStep, OtherTabTimeoutStep, CloseTabStep
<1>4. ASSUME NEW r \in net, Serve(r)
      PROVE  SyncInv'
  BY <1>4, LookUpStep, HandleStep, RefuseStep, StoreKeyStep DEF Serve
<1>5. CASE UNCHANGED vars
  <2>1. UNCHANGED <<locks, profile, queue, call, told, flush, otherTab, net, applied, answered, faults>>
    BY <1>5 DEF vars
  <2>2. TypeOK' /\ FlushFits' /\ OneFlush' /\ ItemsOwned' /\ TodoOwned'
    BY <2>1 DEF SyncInv, TypeOK, FlushFits, OneFlush, ItemsOwned, TodoOwned
  <2>3. Awaited' /\ Remembered' /\ CallKept' /\ NothingLost'
    BY <2>1 DEF SyncInv, Awaited, Remembered, CallKept, NothingLost
  <2> QED
    BY <2>2, <2>3 DEF SyncInv
<1> QED
  BY <1>1, <1>2, <1>3, <1>4, <1>5 DEF Next

\* SyncInv holds of every state of the queue, the tabs and the server: of whatever number of tabs,
\* people and saves, whenever tabs close and answers are lost.
THEOREM SyncInvariant == Spec => []SyncInv
<1>1. Init => SyncInv
  BY SyncInit
<1>2. SyncInv /\ [Next]_vars => SyncInv'
  BY SyncNext
<1> QED
  BY <1>1, <1>2, PTL DEF Spec

\* Every variable keeps its type: no counter of retries, faults or changes leaves its range.
THEOREM QueueTyped == Spec => []TypeOK
<1>1. SyncInv => TypeOK
  BY DEF SyncInv
<1> QED
  BY <1>1, SyncInvariant, PTL

\* A change the user was told is saved, or will be, is applied or still queued, however runMutation
\* and the flushes of the tabs interleave (syncQueueService.ts).
THEOREM ChangesSurvive == Spec => []NothingLost
<1>1. SyncInv => NothingLost
  BY DEF SyncInv
<1> QED
  BY <1>1, SyncInvariant, PTL

\* A request sent after the server recorded its id is answered without the handler (idempotency.rs).
THEOREM LateRetriesAnswered == Spec => []RetriesRecognised
<1>1. SyncInv => RetriesRecognised
  BY DEF SyncInv, Remembered, RetriesRecognised
<1> QED
  BY <1>1, SyncInvariant, PTL

\* With working Web Locks no two tabs hold an item to send in common.
THEOREM FlushesDisjoint == Spec => []TakenOnce
<1>1. SyncInv => TakenOnce
  <2> SUFFICES ASSUME SyncInv, locks, NEW t \in Tabs, NEW u \in Tabs, t # u
               PROVE  {flush[t].todo[n][1] : n \in DOMAIN flush[t].todo}
                        \cap {flush[u].todo[n][1] : n \in DOMAIN flush[u].todo} = {}
    BY DEF TakenOnce
  <2>1. flush[t].at = "idle" \/ flush[u].at = "idle"
    BY DEF SyncInv, OneFlush
  <2>2. flush[t].todo = <<>> \/ flush[u].todo = <<>>
    BY <2>1 DEF SyncInv, FlushFits
  <2>3. DOMAIN <<>> = {}
    OBVIOUS
  <2> QED
    BY <2>2, <2>3
<1> QED
  BY <1>1, SyncInvariant, PTL

\* A flush sends only what the person signed in to its tab has changed.
THEOREM SentWithOwnToken == Spec => SentByOwner
<1> DEFINE Owner == \A r \in net' \ net : r.stage = "sent" /\ r.from \in Tabs => profile[r.from] = call[r.item].user
<1>1. SyncInv /\ [Next]_vars => Owner
  <2> SUFFICES ASSUME SyncInv, [Next]_vars, NEW r \in net' \ net, r.stage = "sent", r.from \in Tabs
               PROVE  profile[r.from] = call[r.item].user
    OBVIOUS
  <2>1. TypeOK /\ net \subseteq Request
    BY DEF SyncInv, TypeOK
  <2>2. ASSUME NEW rs \in SUBSET net, Abandon(rs)
        PROVE  r.from \notin Tabs
    BY <2>1, <2>2, AbandonNet, SyncQueueAssumption
  <2>3. ASSUME NEW q \in net, NEW stage \in {"running", "applied", "ok", "refused", "error"}, Advance(q, stage)
        PROVE  FALSE
    BY <2>1, <2>3, AdvanceNet
  <2>4. ASSUME NEW i \in Saves, NEW t \in Tabs,
               (\E d, offline \in BOOLEAN : RunMutation(i, t, d, offline)) \/ RetryItem(i, t) \/ DismissItem(i, t)
        PROVE  FALSE
    BY <2>4 DEF RunMutation, RetryItem, DismissItem
  <2>5. ASSUME NEW i \in Saves,
               \/ MarkSyncing(i) \/ SendFirst(i) \/ FirstAnswered(i) \/ FirstLost(i)
               \/ PruneSyncQueue(i) \/ BecomesDue(i) \/ TwoMinutesPass(i)
        PROVE  FALSE
    <3>1. CASE SendFirst(i)
      <4>1. PICK id \in {"none", "fresh", "late"} : Send(i, i, id)
        BY <3>1 DEF SendFirst, Id
      <4>2. i \notin Tabs
        BY SyncQueueAssumption
      <4> QED
        BY <2>1, <4>1, <4>2, SendNet
    <3>2. CASE FirstAnswered(i)
      BY <3>2 DEF FirstAnswered, Answered
    <3>3. CASE FirstLost(i)
      <4>1. PICK q \in net : Abandon({q})
        BY <3>3 DEF FirstLost, Lost, Own
      <4> QED
        BY <2>2, <4>1
    <3>4. CASE MarkSyncing(i) \/ PruneSyncQueue(i) \/ BecomesDue(i) \/ TwoMinutesPass(i)
      BY <3>4 DEF MarkSyncing, PruneSyncQueue, BecomesDue, TwoMinutesPass
    <3> QED
      BY <2>5, <3>1, <3>2, <3>3, <3>4
  <2>6. ASSUME NEW t \in Tabs,
               \/ FlushAsk(t) \/ FlushGranted(t) \/ FlushBegin(t) \/ FlushAnswered(t)
               \/ FlushLost(t) \/ FlushNoToken(t) \/ FlushEnd(t) \/ OtherTabTimeout(t)
               \/ \E u \in Users \cup {Nobody} : CloseTab(t, u)
        PROVE  FALSE
    <3>1. CASE FlushAsk(t) \/ FlushGranted(t) \/ FlushBegin(t) \/ FlushNoToken(t) \/ FlushEnd(t) \/ OtherTabTimeout(t)
      BY <3>1 DEF FlushAsk, FlushGranted, FlushBegin, FlushNoToken, FlushEnd, OtherTabTimeout
    <3>2. CASE FlushAnswered(t)
      BY <3>2 DEF FlushAnswered, Answered
    <3>3. CASE FlushLost(t)
      <4>1. PICK q \in net : Abandon({q})
        BY <3>3 DEF FlushLost, Lost, Own
      <4> QED
        BY <2>2, <4>1
    <3>4. CASE \E u \in Users \cup {Nobody} : CloseTab(t, u)
      <4>1. Abandon({q \in net : q.from = t \/ (q.from \in Saves /\ call[q.from].tab = t)})
        BY <3>4 DEF CloseTab
      <4> QED
        BY <2>2, <4>1
    <3> QED
      BY <2>6, <3>1, <3>2, <3>3, <3>4
  <2>7. ASSUME NEW t \in Tabs, FlushSend(t)
        PROVE  profile[r.from] = call[r.item].user
    <3> DEFINE i == Head(flush[t].todo)[1]
    <3>1. flush[t].todo # <<>> /\ Send(t, i, Id(i))
      BY <2>7 DEF FlushSend
    <3>2. i \in Saves /\ 1 \in DOMAIN flush[t].todo /\ i = flush[t].todo[1][1]
      BY <2>1, <3>1, HeadItem
    <3>3. Id(i) \in {"none", "fresh", "late"}
      BY DEF Id
    <3>4. call[i].user = profile[t]
      BY <3>2 DEF SyncInv, TodoOwned
    <3> HIDE DEF i
    <3>5. r.item = i /\ r.from = t
      BY <2>1, <3>1, <3>2, <3>3, SendNet
    <3> QED
      BY <3>4, <3>5
  <2>8. ASSUME NEW q \in net, Serve(q)
        PROVE  FALSE
    <3>1. PICK stage \in {"running", "applied", "ok", "refused", "error"} : Advance(q, stage)
      BY <2>8 DEF Serve, LookUp, Handle, Refuse, StoreKey
    <3> QED
      BY <2>3, <3>1
  <2>9. CASE UNCHANGED vars
    BY <2>9 DEF vars
  <2> QED
    BY <2>4, <2>5, <2>6, <2>7, <2>8, <2>9 DEF Next
<1> QED
  BY <1>1, SyncInvariant, PTL DEF SentByOwner, Spec

=============================================================================
