------------------------------ MODULE ClientData -------------------------------
(***************************************************************************)
(* One dataset of the client and one mutation that concerns it: what the   *)
(* server has, the row kept on the device, the answer held in memory and   *)
(* shown on the screen, the fetch in flight and the save being made,       *)
(* while the connection comes and goes, pages are opened, closed and       *)
(* reloaded and another person signs in on the same device.                *)
(* Every pair of hooks of ClientHooks that concern each other is started   *)
(* from; pairs that behave alike are one case.                             *)
(*                                                                         *)
(* useOfflineQuery, offlineCache and runMutation are the code modelled;    *)
(* the in-memory query client is an external library, modelled as the      *)
(* hooks use it.  The outbox itself is SyncQueue's subject: here a queued  *)
(* save is sent in one step.                                               *)
(***************************************************************************)
EXTENDS ClientHooks, Naturals, TLC

CONSTANTS
  Users,        \* the people who share the device
  MaxVersion    \* bound on the saves the server applies

ASSUME BoundsAssumption == MaxVersion \in Nat \ {0}
ASSUME UsersAssumption == Users # {}

VARIABLES
  pair,      \* what the two hooks declare about each other
  link,      \* "live", "cached" (online, on a cached sign-in) or "cut"
  user,      \* who is signed in
  server,    \* version of the dataset on the server
  row,       \* its row on the device, or Nothing
  screen,    \* the answer in memory, or Nothing
  mounted,   \* a view of the dataset is open
  fetch,     \* the fetch in flight, or Nothing
  save,      \* "idle", "sent" or "applied"
  outbox,    \* the save waiting on the device, or Nothing
  seen       \* latest version this page's own answered save produced

vars == <<pair, link, user, server, row, screen, mounted, fetch, save, outbox, seen>>

Nothing == [of |-> "nobody"]
Versions == 0..MaxVersion

(* ---------------------------- what hooks declare -------------------------- *)
SharedAcrossUsers == {"organization-labels-list", "active-template-p-en", "indicator-catalog-p-en"}

SeededLists ==
  {"ministry-list-default", "federation-list-default", "apex-list", "cooperative-list"}
SeededForAll == {"active-template-p-en", "indicator-catalog-p-en", "benchmark-p", "organization-labels-list"}
SeededForMinistry ==
  {"ministry-stats-p", "national-overview-p", "questionnaire-analytics-p", "custom-kpis-en", "audit-logs-p",
   "questionnaire-templates", "cooperatives-list", "federations-list", "apexes-list", "users-list",
   "federation-id-members", "federation-id-invitations"}
SeededForFederation == {"federation-stats", "apexes-list", "national-overview-p"}
SeededForApex ==
  {"cooperatives-list", "cooperative-profiles", "apex-stats", "national-overview-p", "cooperative-profile-id",
   "cooperative-id", "cooperative-id-members"}
SeededForCooperative ==
  {"cooperative-stats", "cooperative-self-profile", "cooperative-self-members", "cooperative-self-dimensions"}
SeededPerSubmission ==
  {"submission-id", "sections-id", "questionnaire-id-p", "nf-indicators-id", "reviews-id", "submission-flags-id",
   "financial-statement-id", "line-items-id"}
Seeded == UNION {SeededLists, SeededForAll, SeededForMinistry, SeededForFederation, SeededForApex,
                 SeededForCooperative, SeededPerSubmission}

Reaches(m, d) == \E k \in m.invalidates : IsPrefix(k, d.key)
Changes(m, d) == m.changes \intersect d.reads # {}
\* A save the outbox keeps when it cannot be sent.
Queueable(m) == m.route = "outbox" /\ m.method # "DELETE" /\ ~m.needs

\* The pairs whose mutation changes what the query shows and invalidates
\* nothing of it: found by checking, and listed so that no other is added.
Reviews == {useApexApprove, useFederationApprove, useMinistryApprove}
DeletePreviews == {useCooperativeDeletePreview, useApexDeletePreview, useFederationDeletePreview}
Unannounced(m, d) ==
  \/ d \in DeletePreviews
  \/ m \in Reviews /\ d \in {useSubmission, useSubmissionReviews}
  \/ m \in {useSubmitSubmission, useValidateExtraction} /\ d = useSubmissionFlags
  \/ m = useSubmitManualFinancialStatement /\ d = useApexSubmissions
  \/ m = useDeleteManualFinancialStatement /\ d \in {useFinancialStatement, useLineItems}
  \/ m = useDeleteFinancialStatement /\ d = useLineItems
  \/ m \in {useCreateQuestionnaireTemplate, useDeleteQuestionnaireTemplate} /\ d = useActiveTemplate
  \/ m = useSubmitPrivacyRequest /\ d = useAllPrivacyRequests

\* What the state machine needs to know of the two hooks.
Pair(m, d) ==
  [reaches |-> Reaches(m, d), promised |-> Changes(m, d) /\ ~d.lags /\ ~Unannounced(m, d), writes |-> d.row \in m.rows,
   removes |-> m.method = "DELETE" /\ m.rows # {}, queueable |-> Queueable(m), direct |-> m.route = "direct",
   asserts |-> m.asserts, row |-> d.row # NoRow, shared |-> d.row \in SharedAcrossUsers,
   seeded |-> d.row \in Seeded, fallback |-> d.fallback, ages |-> d.ages]

\* The pairs one person meets, of a mutation and a dataset it changes or rewrites.
Related ==
  {Pair(h[1], h[2]) : h \in {h \in Mutations \X Queries :
     /\ Roles(h[1]) \intersect Roles(h[2]) # {}
     /\ Changes(h[1], h[2]) \/ h[2].row \in h[1].rows}}

\* The declarations fit together: what a save promises to show is invalidated
\* by it, and only what has a row is seeded; what is promised and falls back on
\* a built-in answer has one, so that the fallback counts as a copy.
ASSUME HooksAssumption == \A p \in Related :
  /\ p.promised => p.reaches
  /\ p.seeded \/ (p.promised /\ p.fallback) => p.row

(* --------------------------------- state --------------------------------- *)
\* Kinds of an answer in memory: "own" from the server, "late" from a fetch an
\* invalidation left running, "copy" from the device and marked as such, "lost"
\* a copy whose mark a reload lost.
Answers == [of: Users, v: Versions, kind: {"own", "late", "copy", "lost"}, is: {"fresh", "stale"}]
Answer(of, v, kind) == [of |-> of, v |-> v, kind |-> kind, is |-> "fresh"]

\* A row is the server's, or edited "here" by a mutation.
Rows == [of: Users, v: Versions, by: {"server", "here"}]
\* A fetch in flight, and the kind of answer it will be if the server gives it.
Fetches == [v: Versions, from: {"device", "server"}, kind: {"own", "late"}]
\* A save on the device waits for the server, or for an answer that was lost.
Waiting == [of: Users, needs: {"server", "answer"}]

Init ==
  /\ pair \in Related
  /\ link = "live"
  /\ user = CHOOSE u \in Users : TRUE
  /\ server = 0
  /\ row = Nothing /\ screen = Nothing
  /\ mounted = FALSE /\ fetch = Nothing
  /\ save = "idle" /\ outbox = Nothing /\ seen = 0

IsAppOffline == link # "live"

(* ----------------------------- useOfflineQuery ---------------------------- *)
\* Served from the device counts as stale, so that a connection replaces it.
Stale(answer) == answer.is = "stale" \/ pair.ages = "now" \/ (answer.kind = "copy" /\ pair.row)
NeedsFetch == IF screen = Nothing THEN TRUE ELSE Stale(screen)

FetchOf(v) == [v |-> v, from |-> IF link = "cut" THEN "device" ELSE "server", kind |-> "own"]

\* (a variant that fetches only what it does not have)
FetchIfMissing == fetch' = IF screen = Nothing /\ fetch = Nothing THEN FetchOf(server) ELSE fetch
\* A view that opens, regains the focus or sees the connection return.
FetchIfNeeded == fetch' = IF NeedsFetch /\ fetch = Nothing THEN FetchOf(server) ELSE fetch

Open ==
  /\ ~mounted
  /\ mounted' = TRUE
  /\ FetchIfNeeded
  /\ UNCHANGED <<pair, link, user, server, row, screen, save, outbox, seen>>

Close ==
  /\ mounted
  /\ mounted' = FALSE
  /\ UNCHANGED <<pair, link, user, server, row, screen, fetch, save, outbox, seen>>

Focus ==
  /\ mounted /\ NeedsFetch /\ fetch = Nothing
  /\ FetchIfNeeded
  /\ UNCHANGED <<pair, link, user, server, row, screen, mounted, save, outbox, seen>>

\* The stale time passes.
Age ==
  /\ screen # Nothing /\ pair.ages # "never"
  /\ screen.is = "fresh"
  /\ screen' = [screen EXCEPT !.is = "stale"]
  /\ UNCHANGED <<pair, link, user, server, row, mounted, fetch, save, outbox, seen>>

\* (a variant that reads by label alone)
ReadableByLabel == row # Nothing
\* cacheGet: one's own row, or anybody's of a dataset that is the same for all.
Readable == row # Nothing /\ (row.of = user \/ pair.shared)

ReadCacheOrFallback ==
  screen' = CASE Readable -> Answer(row.of, row.v, "copy")
              [] ~Readable /\ pair.fallback -> Answer(user, 0, "copy")
              [] OTHER -> screen

\* The server answers: cacheSet, then the answer is shown.
Fetched ==
  /\ fetch # Nothing /\ fetch.from = "server" /\ link # "cut"
  /\ fetch' = Nothing
  /\ row' = IF pair.row THEN [of |-> user, v |-> fetch.v, by |-> "server"] ELSE row
  /\ screen' = Answer(user, fetch.v, fetch.kind)
  /\ UNCHANGED <<pair, link, user, server, mounted, save, outbox, seen>>

\* Disconnected, or the fetch failed.
FromDevice ==
  /\ fetch # Nothing
  /\ fetch' = Nothing
  /\ ReadCacheOrFallback
  /\ UNCHANGED <<pair, link, user, server, row, mounted, save, outbox, seen>>

\* The seeder copies the server's data to the device in the background.
Seed ==
  /\ link # "cut" /\ pair.seeded
  /\ row' = [of |-> user, v |-> server, by |-> "server"]
  /\ UNCHANGED <<pair, link, user, server, screen, mounted, fetch, save, outbox, seen>>

\* evictOldestCacheEntries.
Evict ==
  /\ row # Nothing
  /\ row' = Nothing
  /\ UNCHANGED <<pair, link, user, server, screen, mounted, fetch, save, outbox, seen>>

(* ------------------------------- invalidation ----------------------------- *)
\* An invalidated answer is stale.  An open view drops its fetch and starts
\* another; a first load, and the fetch of a view closed meanwhile, go on, and
\* their answer counts as fresh although it may be older.
Restarts == mounted /\ (screen # Nothing \/ fetch = Nothing)
InvalidateAt(v) ==
  /\ screen' = IF screen = Nothing THEN Nothing ELSE [screen EXCEPT !.is = "stale"]
  /\ fetch' = CASE Restarts -> FetchOf(v)
                [] ~Restarts /\ fetch # Nothing -> [fetch EXCEPT !.kind = "late"]
                [] OTHER -> Nothing
\* (a variant that forgets the answers no view shows at the moment)
OnSuccessIfOpen == IF pair.reaches /\ mounted THEN InvalidateAt(server) ELSE UNCHANGED <<screen, fetch>>
\* onSuccess of the mutation.
OnSuccess == IF pair.reaches THEN InvalidateAt(server) ELSE UNCHANGED <<screen, fetch>>

(* -------------------------------- runMutation ----------------------------- *)
\* The rows a mutation rewrites before runMutation looks at the connection.
WriteRow == row' = IF pair.writes /\ row # Nothing /\ row.of = user THEN [row EXCEPT !.by = "here"] ELSE row
\* assertOnline comes first, before anything is touched.
Asked == save = "idle" /\ outbox = Nothing /\ server < MaxVersion /\ (pair.asserts => ~IsAppOffline)

\* Offline: accepted into the outbox as if it had been done, or refused.
Keep ==
  /\ Asked /\ IsAppOffline /\ ~pair.direct /\ pair.queueable
  /\ WriteRow
  /\ outbox' = [of |-> user, needs |-> "server"]
  /\ OnSuccess
  /\ UNCHANGED <<pair, link, user, server, mounted, save, seen>>

Refuse ==
  /\ Asked /\ IsAppOffline /\ ~pair.direct /\ ~pair.queueable
  /\ WriteRow
  /\ UNCHANGED <<pair, link, user, server, screen, mounted, fetch, save, outbox, seen>>

Send ==
  /\ Asked /\ (pair.direct \/ ~IsAppOffline)
  /\ WriteRow
  /\ save' = "sent"
  /\ UNCHANGED <<pair, link, user, server, screen, mounted, fetch, outbox, seen>>

Apply ==
  /\ save = "sent" /\ link # "cut"
  /\ save' = "applied"
  /\ server' = server + 1
  /\ UNCHANGED <<pair, link, user, row, screen, mounted, fetch, outbox, seen>>

Answered ==
  /\ save = "applied" /\ link # "cut"
  /\ save' = "idle"
  /\ seen' = IF pair.promised THEN server ELSE seen
  /\ OnSuccess
  /\ UNCHANGED <<pair, link, user, server, row, mounted, outbox>>

\* The server answers no: nothing written before is taken back.
Declined ==
  /\ save = "sent" /\ link # "cut"
  /\ save' = "idle"
  /\ UNCHANGED <<pair, link, user, server, row, screen, mounted, fetch, outbox, seen>>

\* The connection is lost under the request, applied or not.
Lost ==
  /\ save # "idle"
  /\ save' = "idle"
  /\ IF pair.queueable
     THEN outbox' = [of |-> user, needs |-> IF save = "applied" THEN "answer" ELSE "server"] /\ OnSuccess
     ELSE UNCHANGED <<outbox, screen, fetch>>
  /\ UNCHANGED <<pair, link, user, server, row, mounted, seen>>

\* "coopdata-sync-complete": the outbox is sent and every answer invalidated.
SyncComplete ==
  /\ outbox # Nothing /\ outbox.of = user /\ link = "live"
  /\ server' = IF outbox.needs = "server" THEN server + 1 ELSE server
  /\ outbox' = Nothing
  /\ seen' = IF pair.promised THEN server' ELSE seen
  /\ InvalidateAt(server')
  /\ UNCHANGED <<pair, link, user, row, mounted, save>>

(* ------------------------------- environment ------------------------------ *)
\* "online": stale answers of open views are fetched again.
GoOnline ==
  /\ link = "cut"
  /\ link' \in {"live", "cached"}
  /\ fetch' = IF mounted /\ NeedsFetch THEN [FetchOf(server) EXCEPT !.from = "server"] ELSE fetch
  /\ UNCHANGED <<pair, user, server, row, screen, mounted, save, outbox, seen>>

\* "coopdata-session-restored" invalidates everything too.
Restored ==
  /\ link = "cached"
  /\ link' = "live"
  /\ InvalidateAt(server)
  /\ UNCHANGED <<pair, user, server, row, mounted, save, outbox, seen>>

GoOffline ==
  /\ link # "cut"
  /\ link' = "cut"
  /\ UNCHANGED <<pair, user, server, row, screen, mounted, fetch, save, outbox, seen>>

\* The page is reloaded: the snapshot of memory comes back, without the marks.
Reload ==
  /\ save = "idle"
  /\ mounted' = FALSE /\ fetch' = Nothing
  /\ screen' = IF screen # Nothing /\ screen.kind = "copy" THEN [screen EXCEPT !.kind = "lost"] ELSE screen
  /\ UNCHANGED <<pair, link, user, server, row, save, outbox, seen>>

\* Another person signs in: the snapshot is another's, the rows stay unless
\* the last person logged out.
SignIn(u) ==
  /\ u # user /\ save = "idle" /\ link = "live"
  /\ user' = u
  /\ screen' = Nothing /\ mounted' = FALSE /\ fetch' = Nothing /\ seen' = 0
  /\ row' \in {row, Nothing}
  /\ UNCHANGED <<pair, link, server, save, outbox>>

Next ==
  \/ Open \/ Close \/ Focus \/ Age \/ Fetched \/ FromDevice \/ Seed \/ Evict
  \/ Keep \/ Refuse \/ Send \/ Apply \/ Answered \/ Declined \/ Lost \/ SyncComplete
  \/ GoOnline \/ Restored \/ GoOffline \/ Reload
  \/ \E u \in Users : SignIn(u)

Spec == Init /\ [][Next]_vars

(***************************************************************************)
(* A fetch in flight ends, and does not fail for ever while connected; the *)
(* outbox is flushed when it can be (its retries are SyncQueue's subject); *)
(* the connection's return and the restored session are handled at once.   *)
(* Nothing is assumed of the user, nor that the connection ever returns.   *)
(***************************************************************************)
Fairness ==
  /\ WF_vars(Fetched \/ FromDevice)
  /\ SF_vars(Fetched)
  /\ WF_vars(SyncComplete)
  /\ WF_vars(Focus)
FairSpec == Spec /\ Fairness

(* ------------------------------- properties ------------------------------- *)
TypeOK ==
  /\ link \in {"live", "cached", "cut"} /\ user \in Users
  /\ server \in Versions /\ seen \in Versions
  /\ row \in {Nothing} \union Rows /\ screen \in {Nothing} \union Answers
  /\ mounted \in BOOLEAN /\ fetch \in {Nothing} \union Fetches
  /\ save \in {"idle", "sent", "applied"} /\ outbox \in {Nothing} \union Waiting

\* An open view never shows, as a fresh answer of the server, data older than
\* the user's own last answered save of what it shows: the hooks' onSuccess
\* reaches it, and restarts the fetch that was under way.  Computed figures
\* may lag, and the pairs of hooks that announce nothing are Unannounced.
NoStaleFresh ==
  (mounted /\ screen # Nothing /\ pair.promised)
    => (screen.v >= seen \/ NeedsFetch \/ screen.kind \in {"late", "lost"})

\* An action refused for want of a connection has rewritten nothing on the
\* device (networkGuard.ts), the three deletions apart that edit their lists
\* before runMutation refuses them.
BlockedLeavesNoTrace ==
  [][(Refuse /\ ~pair.removes) => row' = row]_vars

\* Nobody is shown or served what was stored for somebody else, unless the
\* dataset is the same for everybody (cacheGet).
OwnDataOnly == (screen # Nothing /\ ~pair.shared) => screen.of = user

\* While a view stays open and the connection stays, a copy shown from the
\* device is in the end replaced by the server's answer (useOfflineQuery).
CopyReplaced ==
  (mounted /\ link # "cut" /\ pair.row /\ screen # Nothing /\ screen.kind = "copy")
    ~> (screen = Nothing \/ screen.kind \in {"own", "late"} \/ ~mounted \/ link = "cut")

\* The same of a copy whose mark was lost by a reload: not so, it stays for
\* the whole stale time.
KeptCopyReplaced ==
  (mounted /\ link # "cut" /\ pair.row /\ screen # Nothing /\ screen.kind = "lost")
    ~> (screen = Nothing \/ screen.kind \in {"own", "late"} \/ ~mounted \/ link = "cut")

\* The deletions included: not so, they edit the lists and are then refused.
AllBlockedLeaveNoTrace == [][Refuse => row' = row]_vars

\* Fresh answers are current, whatever fetch was under way: not so, a first
\* load or the fetch of a closed view outlives the invalidation.
FreshIsCurrent ==
  (mounted /\ screen # Nothing /\ pair.promised) => (screen.v >= seen \/ NeedsFetch \/ screen.kind = "lost")
=============================================================================
