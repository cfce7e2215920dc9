----------------------------- MODULE SyncQueue -----------------------------
(***************************************************************************)
(* The offline sync queue of the client and the idempotency check of the   *)
(* server.  Every change a user saves is put into a queue in IndexedDB,    *)
(* which all tabs of the browser share, before it is sent.  The page that  *)
(* saves sends it at once (runMutation); a timer in every tab sends what   *)
(* is still pending (flushSyncQueue).  Both put the correlation id of the  *)
(* queued item on the request, and the server answers a request whose id   *)
(* it has recorded without running the handler again.                      *)
(*                                                                         *)
(* All saves of the model go to one endpoint (the same section of the same *)
(* submission): saves of different endpoints share nothing but the queue.  *)
(* Whether the browser is offline, or running on a cached token, is open   *)
(* at every step that asks.                                                *)
(***************************************************************************)
EXTENDS Integers, Sequences, FiniteSets

CONSTANTS
  Tabs,        \* tabs of the browser
  Users,       \* people who sign in on this device
  Nobody,      \* the profile of a tab nobody is signed in to; an orphan's sender
  NoItem,      \* the queue holds no item for a save
  MaxSaves,    \* how many changes are saved
  MaxRetries,  \* length of RETRY_DELAYS_MS
  MaxOrphans,  \* how many requests the server handles whose sender is gone
  CountTo,     \* how far the changes of the handler are counted
  MaxFaults    \* how often a tab is closed in the middle of its work; a browser without
               \* working Web Locks uses up one fault

Saves == 1..MaxSaves

Item == [user: Users, status: {"pending", "syncing", "done", "failed"}, retries: 0..MaxRetries + 1,
         \* the wait of a pending item for nextAttemptAt; of a syncing one for 2 minutes after
         \* syncStartedAt, or createdAt without it
         clock: {"running", "over"}]

ASSUME SyncQueueAssumption ==
  /\ MaxSaves \in Nat /\ MaxRetries \in Nat /\ MaxOrphans \in Nat /\ CountTo \in Nat \ {0} /\ MaxFaults \in Nat
  /\ Nobody \notin Users \cup Tabs \cup Saves
  /\ Tabs \cap Saves = {}
  /\ NoItem \notin Item

VARIABLES
  locks,     \* the browser has Web Locks and they do not fail
  profile,   \* per tab: who is signed in
  queue,     \* per save: its item in IndexedDB, NoItem when there is none
  call,      \* per save: where runMutation is, in which tab, and its method
  told,      \* per save: what the user was told
  flush,     \* per tab: where the flush is and which items it still has to send
  otherTab,  \* the tabs that were told of a flush in another one: isSyncingInOtherTab
  net,       \* the requests under way
  applied,   \* per save: how often the handler changed the data
  answered,  \* the saves whose id the server has recorded
  faults    \* bounds CloseTab and ~locks

vars == <<locks, profile, queue, call, told, flush, otherTab, net, applied, answered, faults>>
client == <<queue, call, told, flush, otherTab>>
server == <<applied, answered>>
device == <<locks, profile, faults>>

\* A request carries the correlation id of its item or not; "late" once the server had recorded it.
Request == [item: Saves, from: Saves \cup Tabs \cup {Nobody}, id: {"none", "fresh", "late"},
            stage: {"sent", "running", "applied", "ok", "refused", "error"}]

\* Where runMutation is, and the tab and person that called it: "new" -> "queued" -> "registered" -> "sent" -> "over".
Call == [at: {"new", "queued", "registered", "sent", "over"}, tab: Tabs \cup {Nobody}, user: Users \cup {Nobody},
         method: {"none", "PUT", "DELETE"}]

Over(c) == [c EXCEPT !.at = "over", !.tab = Nobody, !.method = "none"]

\* Where a flush is: "idle" -> "asked" (without locks) -> "begin" -> "send" <-> "wait".
Flush == [at: {"idle", "asked", "begin", "send", "wait"}, todo: Seq(Saves \X (0..MaxRetries + 1))]
Idle == [at |-> "idle", todo |-> <<>>]

TypeOK ==
  /\ locks \in BOOLEAN /\ profile \in [Tabs -> Users \cup {Nobody}]
  /\ queue \in [Saves -> Item \cup {NoItem}]
  /\ call \in [Saves -> Call]
  /\ told \in [Saves -> {"nothing", "accepted", "saved", "refused", "dismissed"}]
  /\ flush \in [Tabs -> Flush] /\ otherTab \in SUBSET Tabs
  /\ net \in SUBSET Request
  /\ applied \in [Saves -> 0..CountTo] /\ answered \in SUBSET Saves /\ faults \in 0..MaxFaults

Init ==
  /\ locks \in IF MaxFaults = 0 THEN {TRUE} ELSE BOOLEAN
  /\ \E u \in Users : profile = [t \in Tabs |-> u]
  /\ queue = [i \in Saves |-> NoItem]
  /\ call = [i \in Saves |-> [at |-> "new", tab |-> Nobody, user |-> Nobody, method |-> "none"]]
  /\ told = [i \in Saves |-> "nothing"]
  /\ flush = [t \in Tabs |-> Idle] /\ otherTab = {}
  /\ net = {} /\ applied = [i \in Saves |-> 0] /\ answered = {}
  /\ faults = IF locks THEN 0 ELSE 1

-----------------------------------------------------------------------------
(* Requests. *)

\* Dexie's update of an item that is gone changes nothing.
Update(i, item) == queue' = IF queue[i] = NoItem THEN queue ELSE [queue EXCEPT ![i] = item]

Mark(i, status) == [queue[i] EXCEPT !.status = status, !.clock = "running"]

Id(i) == IF i \in answered THEN "late" ELSE "fresh"

Send(s, i, id) == net' = net \cup {[item |-> i, from |-> s, id |-> id, stage |-> "sent"]}

Answers == {"ok", "refused", "error"}
Orphans == {r \in net : r.from = Nobody}
Own(s) == {r \in net : r.from = s}

\* The client hears nothing more of rs; what reached the server is still handled there.
Abandon(rs) == \E arrived \in SUBSET {r \in rs : r.stage = "sent"} :
  /\ net' = (net \ rs) \cup {[r EXCEPT !.from = Nobody] :
                               r \in arrived \cup {q \in rs : q.stage \in {"running", "applied"}}}
  /\ Cardinality({r \in net' : r.from = Nobody}) <= MaxOrphans

\* Sender s gets the answer of r: one of the stages that end a request.
Answered(s, r) == r \in Own(s) /\ r.stage \in Answers /\ net' = net \ {r}

\* The connection of s drops before the answer arrives (fetch rejects with a TypeError).
Lost(s, r) == r \in Own(s) /\ Abandon({r})

\* What the page tells the user; one who has dismissed the change knows that it is dropped.
Tell(i, answer) == told' = [told EXCEPT ![i] = IF @ = "dismissed" THEN @ ELSE answer]

-----------------------------------------------------------------------------
(* runMutation. *)

Enqueue(i, u) ==
  queue' = [queue EXCEPT ![i] = [user |-> u, status |-> "pending", retries |-> 0, clock |-> "over"]]

\* The user saves a change, or deletes something, in tab t.  Offline, a deletion is refused
\* before anything is written; a save is queued and the page carries on with optimistic data.
RunMutation(i, t, delete, offline) ==
  /\ call[i].at = "new" /\ (i > 1 => call[i - 1].at # "new")
  /\ profile[t] # Nobody
  /\ IF offline /\ delete
       THEN /\ call' = [call EXCEPT ![i].at = "over"]
            /\ Tell(i, "refused")
            /\ UNCHANGED queue
       ELSE /\ Enqueue(i, profile[t])
            /\ call' = [call EXCEPT ![i] = 
                 LET c == [at |-> "queued", tab |-> t, user |-> profile[t], method |-> IF delete THEN "DELETE" ELSE "PUT"]
                 IN  IF offline THEN Over(c) ELSE c]
            /\ IF offline THEN Tell(i, "accepted") ELSE UNCHANGED told
  /\ UNCHANGED <<flush, otherTab, net>> /\ UNCHANGED server /\ UNCHANGED device

\* The item is marked "syncing" (without syncStartedAt) and the request registered.
MarkSyncing(i) ==
  /\ call[i].at = "queued"
  /\ IF queue[i] = NoItem
       THEN /\ call' = [call EXCEPT ![i] = Over(@)]
            /\ Tell(i, "accepted")
            /\ UNCHANGED queue
       ELSE /\ Update(i, Mark(i, "syncing"))
            /\ call' = [call EXCEPT ![i].at = "registered"]
            /\ UNCHANGED told
  /\ UNCHANGED <<flush, otherTab, net>> /\ UNCHANGED server /\ UNCHANGED device

\* The entries of one tab's registry: registered and not yet taken by a request.
Expected(t) == {j \in Saves : /\ call[j].tab = t
                              /\ \/ call[j].at = "registered"
                                 \/ call[j].at = "sent" /\ \E r \in Own(j) : r.id = "none"}

\* The request goes out, with the id only when the registry has no second match.
SendFirst(i) ==
  /\ call[i].at = "registered"
  /\ Send(i, i, IF Cardinality(Expected(call[i].tab)) = 1 THEN Id(i) ELSE "none")
  /\ call' = [call EXCEPT ![i].at = "sent"]
  /\ UNCHANGED <<queue, told, flush, otherTab>> /\ UNCHANGED server /\ UNCHANGED device

Settle(i, answer) ==
  /\ call' = [call EXCEPT ![i] = Over(@)]
  /\ Tell(i, answer)
  /\ UNCHANGED <<flush, otherTab>> /\ UNCHANGED server /\ UNCHANGED device

\* The server's answer: done, or the item is dropped and the error shown.
FirstAnswered(i) ==
  /\ call[i].at = "sent"
  /\ \E r \in Own(i) :
       /\ Answered(i, r)
       /\ IF r.stage = "ok" THEN Update(i, Mark(i, "done")) /\ Settle(i, "saved")
                            ELSE queue' = [queue EXCEPT ![i] = NoItem] /\ Settle(i, "refused")

\* A bug of a kind NothingLost finds: a save whose answer is lost is dropped like a deletion.
FirstLostDropsSave(i) ==
  /\ call[i].at = "sent"
  /\ \E r \in Own(i) : Lost(i, r)
  /\ queue' = [queue EXCEPT ![i] = NoItem]
  /\ Settle(i, "accepted")

\* No answer: a save stays queued for a retry in 10 seconds; a deletion is dropped.
FirstLost(i) ==
  /\ call[i].at = "sent"
  /\ \E r \in Own(i) : Lost(i, r)
  /\ IF call[i].method = "DELETE"
       THEN queue' = [queue EXCEPT ![i] = NoItem] /\ Settle(i, "refused")
       ELSE /\ Update(i, [Mark(i, "pending") EXCEPT !.retries = 0])
            /\ Settle(i, "accepted")

-----------------------------------------------------------------------------
(* flushSyncQueue: the timer of every tab, and the "online" event. *)

\* A flush posts "sync-start" to the other tabs.
Start(t) ==
  /\ flush' = [flush EXCEPT ![t].at = "begin"]
  /\ otherTab' = otherTab \cup (Tabs \ {t})

\* A bug of a kind TakenOnce finds: the lock is not asked for.
FlushAskUnlocked(t) ==
  /\ flush[t].at = "idle" /\ t \notin otherTab
  /\ flush' = [flush EXCEPT ![t].at = "asked"]
  /\ UNCHANGED <<queue, call, told, otherTab, net>> /\ UNCHANGED server /\ UNCHANGED device

\* With Web Locks only one tab gets past this point; a tab that finds the lock taken gives up.
\* Without them, or when they fail, a "sync-start" may arrive between the check and the start.
FlushAsk(t) ==
  /\ flush[t].at = "idle" /\ t \notin otherTab
  /\ IF locks THEN (\A u \in Tabs : flush[u].at = "idle") /\ Start(t)
              ELSE flush' = [flush EXCEPT ![t].at = "asked"] /\ UNCHANGED otherTab
  /\ UNCHANGED <<queue, call, told, net>> /\ UNCHANGED server /\ UNCHANGED device

FlushGranted(t) ==
  /\ flush[t].at = "asked"
  /\ Start(t)
  /\ UNCHANGED <<queue, call, told, net>> /\ UNCHANGED server /\ UNCHANGED device

\* The end of a flush posts "sync-end".
Leave(t) ==
  /\ flush' = [flush EXCEPT ![t] = Idle]
  /\ otherTab' = otherTab \cap {t}

\* A bug of a kind QueueDrains finds: items left "syncing" are not revived.
RevivedNever == queue

Revived == [i \in Saves |->
  IF queue[i] # NoItem /\ queue[i].status = "syncing" /\ queue[i].clock = "over"
    THEN [queue[i] EXCEPT !.status = "pending"] ELSE queue[i]]

\* A bug of a kind SentByOwner finds: the items of everybody on the device are read.
PendingOfAll(q, u) == {i \in Saves : q[i] # NoItem /\ q[i].status = "pending" /\ q[i].clock = "over"}

\* The pending items of u that are due.
Pending(q, u) ==
  {i \in Saves : q[i] # NoItem /\ q[i].status = "pending" /\ q[i].user = u /\ q[i].clock = "over"}

\* A set of items in the order of their ids.
InOrder(items) == {s \in [1..Cardinality(items) -> items] : \A m, n \in DOMAIN s : m < n => s[m] < s[n]}

\* Items whose send never finished are revived; then the signed-in user's items are read, with
\* their retry counts.
FlushBegin(t) ==
  /\ flush[t].at = "begin"
  /\ queue' = Revived
  /\ LET items == IF profile[t] = Nobody THEN {} ELSE Pending(queue', profile[t]) IN
       IF items = {} THEN Leave(t)
       ELSE /\ \E s \in InOrder(items) :
                 flush' = [flush EXCEPT ![t] = [at |-> "send", todo |-> [n \in DOMAIN s |-> <<s[n], queue'[s[n]].retries>>]]]
            /\ UNCHANGED otherTab
  /\ UNCHANGED <<call, told, net>> /\ UNCHANGED server /\ UNCHANGED device

\* The next item is marked "syncing", whatever became of it since it was read, and sent.
FlushSend(t) ==
  /\ flush[t].at = "send" /\ flush[t].todo # <<>>
  /\ LET i == Head(flush[t].todo)[1] IN
       /\ Update(i, Mark(i, "syncing"))
       /\ Send(t, i, Id(i))
  /\ flush' = [flush EXCEPT ![t].at = "wait"]
  /\ UNCHANGED <<call, told, otherTab>> /\ UNCHANGED server /\ UNCHANGED device

\* A bug of a kind TypeOK finds: the count goes on past the last delay.
NextRetryUnbounded(retries) == retries + 2

\* Retry counts are told apart up to the one after the last delay.
NextRetry(retries) == IF retries > MaxRetries THEN retries ELSE retries + 1

\* retryLater: one retry more than the item had when it was read, or failed after the last.
RetryLater(i, retries) ==
  Update(i, [Mark(i, IF NextRetry(retries) > MaxRetries THEN "failed" ELSE "pending")
               EXCEPT !.retries = NextRetry(retries)])

Proceed(t) ==
  /\ flush' = [flush EXCEPT ![t] = [at |-> "send", todo |-> Tail(@.todo)]]
  /\ UNCHANGED <<call, told, otherTab>> /\ UNCHANGED server /\ UNCHANGED device

FlushAnswered(t) ==
  /\ flush[t].at = "wait"
  /\ LET i == Head(flush[t].todo)[1]
         retries == Head(flush[t].todo)[2] IN
     \E r \in Own(t) :
       /\ Answered(t, r)
       /\ CASE r.stage = "ok"      -> Update(i, Mark(i, "done"))
            [] r.stage = "refused" -> Update(i, [Mark(i, "failed") EXCEPT !.retries = NextRetry(retries)])
            [] r.stage = "error"   -> RetryLater(i, retries)
  /\ Proceed(t)

FlushLost(t) ==
  /\ flush[t].at = "wait"
  /\ \E r \in Own(t) : Lost(t, r)
  /\ RetryLater(Head(flush[t].todo)[1], Head(flush[t].todo)[2])
  /\ Proceed(t)

\* getAccessToken fails: the item counts as not sent.
FlushNoToken(t) ==
  /\ flush[t].at = "send" /\ flush[t].todo # <<>>
  /\ RetryLater(Head(flush[t].todo)[1], Head(flush[t].todo)[2])
  /\ Proceed(t) /\ UNCHANGED net

FlushEnd(t) ==
  /\ flush[t].at = "send" /\ flush[t].todo = <<>>
  /\ Leave(t)
  /\ UNCHANGED <<queue, call, told, net>> /\ UNCHANGED server /\ UNCHANGED device

\* The 30 seconds after "sync-start" are over.
OtherTabTimeout(t) ==
  /\ t \in otherTab
  /\ otherTab' = otherTab \ {t}
  /\ UNCHANGED <<queue, call, told, flush, net>> /\ UNCHANGED server /\ UNCHANGED device

-----------------------------------------------------------------------------
(* The list of failed changes, time, the network and the tabs. *)

\* retryFailed and retryItem: the user asks for a failed change of theirs to be sent again.
RetryItem(i, t) ==
  /\ queue[i] # NoItem /\ queue[i].status = "failed" /\ queue[i].user = profile[t]
  /\ queue' = [queue EXCEPT ![i].status = "pending", ![i].retries = 0, ![i].clock = "over"]
  /\ UNCHANGED <<call, told, flush, otherTab, net>> /\ UNCHANGED server /\ UNCHANGED device

\* dismissItem, offered on the same list.
DismissItem(i, t) ==
  /\ queue[i] # NoItem /\ queue[i].status = "failed" /\ queue[i].user = profile[t]
  /\ queue' = [queue EXCEPT ![i] = NoItem]
  /\ told' = [told EXCEPT ![i] = "dismissed"]
  /\ UNCHANGED <<call, flush, otherTab, net>> /\ UNCHANGED server /\ UNCHANGED device

\* pruneSyncQueue drops what is done and over a week old, so no page is sending it any more.
PruneSyncQueue(i) ==
  /\ queue[i] # NoItem /\ queue[i].status = "done" /\ call[i].at = "over"
  /\ queue' = [queue EXCEPT ![i] = NoItem]
  /\ UNCHANGED <<call, told, flush, otherTab, net>> /\ UNCHANGED server /\ UNCHANGED device

BecomesDue(i) ==
  /\ queue[i] # NoItem /\ queue[i].status = "pending" /\ queue[i].clock = "running"
  /\ queue' = [queue EXCEPT ![i].clock = "over"]
  /\ UNCHANGED <<call, told, flush, otherTab, net>> /\ UNCHANGED server /\ UNCHANGED device

TwoMinutesPass(i) ==
  /\ queue[i] # NoItem /\ queue[i].status = "syncing" /\ queue[i].clock = "running"
  /\ queue' = [queue EXCEPT ![i].clock = "over"]
  /\ UNCHANGED <<call, told, flush, otherTab, net>> /\ UNCHANGED server /\ UNCHANGED device

\* The tab is closed, crashes or leaves for the login page: what it was doing is forgotten, its
\* requests lose their sender and its lock is released.  Whoever signs in next, does so in it.
CloseTab(t, u) ==
  /\ faults < MaxFaults
  /\ faults' = faults + 1
  /\ profile' = [profile EXCEPT ![t] = u]
  /\ call' = [i \in Saves |-> IF call[i].tab = t /\ call[i].at # "new"
                                THEN Over(call[i]) ELSE call[i]]
  /\ flush' = [flush EXCEPT ![t] = Idle]
  /\ otherTab' = otherTab \ {t}
  /\ Abandon({r \in net : r.from = t \/ (r.from \in Saves /\ call[r.from].tab = t)})
  /\ UNCHANGED <<locks, queue, told>> /\ UNCHANGED server

-----------------------------------------------------------------------------
(* The server: idempotency_middleware around any handler that changes data. *)

\* Nobody waits for the answer of an orphan.
Advance(r, stage) ==
  net' = (net \ {r}) \cup (IF r.from = Nobody /\ stage \in Answers THEN {} ELSE {[r EXCEPT !.stage = stage]})
ServerOnly == UNCHANGED client /\ UNCHANGED device

\* A bug of a kind RetriesRecognised finds: the recorded id is not looked up.
LookUpNothing(r) ==
  /\ r.stage = "sent"
  /\ Advance(r, "running")
  /\ UNCHANGED server /\ ServerOnly

\* A request whose id is recorded is answered at once; any other runs the handler.
LookUp(r) ==
  /\ r.stage = "sent"
  /\ Advance(r, IF r.id # "none" /\ r.item \in answered THEN "ok" ELSE "running")
  /\ UNCHANGED server /\ ServerOnly

\* The handler succeeds.
Handle(r) ==
  /\ r.stage = "running"
  /\ applied' = [applied EXCEPT ![r.item] = IF @ < CountTo THEN @ + 1 ELSE @]
  /\ Advance(r, IF r.id # "none" THEN "applied" ELSE "ok")
  /\ UNCHANGED answered /\ ServerOnly

\* The handler refuses (4xx) or fails (5xx).
Refuse(r) ==
  /\ r.stage = "running"
  /\ Advance(r, "refused") \/ Advance(r, "error")
  /\ UNCHANGED server /\ ServerOnly

\* Only a success is recorded; a failure to record it is ignored.
StoreKey(r) ==
  /\ r.stage = "applied"
  /\ answered' \in {answered, answered \cup {r.item}}
  /\ Advance(r, "ok")
  /\ UNCHANGED applied /\ ServerOnly

Serve(r) == LookUp(r) \/ Handle(r) \/ Refuse(r) \/ StoreKey(r)

-----------------------------------------------------------------------------

FlushStep(t) == FlushGranted(t) \/ FlushBegin(t) \/ FlushSend(t) \/ FlushAnswered(t) \/ FlushEnd(t)

Next ==
  \/ \E i \in Saves, t \in Tabs : \/ \E d, offline \in BOOLEAN : RunMutation(i, t, d, offline)
                                  \/ RetryItem(i, t) \/ DismissItem(i, t)
  \/ \E i \in Saves : \/ MarkSyncing(i) \/ SendFirst(i) \/ FirstAnswered(i) \/ FirstLost(i)
                      \/ PruneSyncQueue(i) \/ BecomesDue(i) \/ TwoMinutesPass(i)
  \/ \E t \in Tabs : \/ FlushAsk(t) \/ FlushGranted(t) \/ FlushBegin(t) \/ FlushSend(t) \/ FlushAnswered(t)
                     \/ FlushLost(t) \/ FlushNoToken(t) \/ FlushEnd(t) \/ OtherTabTimeout(t)
                     \/ \E u \in Users \cup {Nobody} : CloseTab(t, u)
  \/ \E r \in net : Serve(r)

Spec == Init /\ [][Next]_vars

\* Timers fire and find a connection, requests are answered or dropped, and the steps of a flush follow one another.
Fairness ==
  /\ \A t \in Tabs : WF_vars(FlushAsk(t)) /\ WF_vars(FlushStep(t)) /\ WF_vars(OtherTabTimeout(t))
  /\ \A i \in Saves : /\ WF_vars(MarkSyncing(i)) /\ WF_vars(SendFirst(i)) /\ WF_vars(FirstAnswered(i))
                      /\ WF_vars(BecomesDue(i)) /\ WF_vars(TwoMinutesPass(i))
                      /\ WF_vars(\E r \in net : r.item = i /\ Serve(r))

FairSpec == Spec /\ Fairness

-----------------------------------------------------------------------------
(* Properties. *)

\* A change the user was told is saved, or will be, is never lost: the server has applied it, or it is
\* still queued (waiting, being sent, or listed as failed).  Only the user drops it, by dismissing it.
\* runMutation and doFlushSyncQueue overwrite each other's status; tabs close between their steps.
NothingLost == \A i \in Saves :
  told[i] \in {"accepted", "saved"} =>
    applied[i] > 0 \/ (queue[i] # NoItem /\ queue[i].status # "done")

\* A request that leaves after the server recorded its item's success is never applied again: this is
\* what the correlation id is for, whichever of runMutation and the flushes of the tabs sent it.
RetriesRecognised == \A r \in net : r.id = "late" => r.stage \notin {"running", "applied"}

\* A device is shared: a change is sent with the token of the person who made it, also when it waits in
\* the queue while somebody else signs in.
SentByOwner == [][\A r \in net' \ net :
  r.stage = "sent" /\ r.from \in Tabs => profile[r.from] = call[r.item].user]_vars

\* Where Web Locks work, the flushes of two tabs never have an item to send in common.
TakenOnce == locks => \A t, u \in Tabs : t # u =>
  {flush[t].todo[n][1] : n \in DOMAIN flush[t].todo} \cap {flush[u].todo[n][1] : n \in DOMAIN flush[u].todo} = {}

\* Once only the owner is signed in, a queued change is sent or listed as failed:
\* no crash, lost answer or stale "sync-start" leaves it waiting or "syncing" for ever.
Waiting(i) == queue[i] # NoItem /\ queue[i].status \in {"pending", "syncing"}
SettledFor(u) == <>[](\A t \in Tabs : profile[t] = u)
QueueDrains == \A u \in Users, i \in Saves :
  SettledFor(u) => []((Waiting(i) /\ queue[i].user = u) => <>~Waiting(i))

\* syncQueueService.ts:138 says of the correlation id "so a lost reply can't cause a duplicate".
AppliedOnce == \A i \in Saves : applied[i] < 2

=============================================================================
