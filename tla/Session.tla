------------------------------ MODULE Session ------------------------------
(***************************************************************************)
(* The sign-in of one person in one page of the client: how the page starts*)
(* from the saved login (doInitKeycloak), goes on without a network        *)
(* (offline mode), reconnects when the network is back                     *)
(* (keepRestoringSession, restoreOnlineSession), refreshes the token for   *)
(* requests (getAccessToken) and ends (performLogout, logout).  These run  *)
(* as interleaved promises over the same module variables and the same     *)
(* stored tokens; each step below is the code between two awaits.          *)
(***************************************************************************)
EXTENDS Integers, FiniteSets

CONSTANT MaxAttempts   \* attempts to restore the session under way at a time

ASSUME SessionAssumption == MaxAttempts \in Nat \ {0}

Attempts == 1..MaxAttempts

VARIABLES
  online,     \* navigator.onLine
  sso,        \* Keycloak's own session of this browser is alive
  accepts,    \* Keycloak accepts the saved login (its refresh token)
  expired,    \* the deadline of the saved login has passed
  saved,      \* the tokens are in IndexedDB
  profile,    \* the profile is in localStorage
  memory,     \* lastCachedTokens is set
  page,       \* where the page's start-up is
  cached,     \* cachedTokens of doInitKeycloak
  kc,         \* keycloak-js: "new", "called" (init() was called) or "signedIn" (it holds tokens, authenticated)
  offlineMode,
  auth,       \* isAuthenticated of AuthContext
  attempt,    \* where the calls of restoreOnlineSession are
  live,       \* those of them whose results are still acted upon
  call,       \* a getAccessToken under way
  logout,     \* where performLogout is, and why it was called
  signedOut   \* a logout reached Keycloak while no token was being written, and nobody signed in since

stored == <<saved, profile, memory>>
keycloak == <<online, sso, accepts, expired>>
start == <<page, cached>>
restoring == <<attempt, live>>
vars == <<keycloak, stored, start, kc, offlineMode, auth, restoring, call, logout, signedOut>>

\* restoreOnlineSession: "probe" -> "refresh" -> "persist", or "load" -> "init" -> "persist"; a failed
\* "refresh" or "init" asks Keycloak again ("doubt").  "wait" is the timer of keepRestoringSession.
Stage == {"none", "probe", "refresh", "load", "init", "persist", "doubtRefresh", "doubtInit", "wait"}
NoLogout == [at |-> "none", why |-> "none"]

TypeOK ==
  /\ online \in BOOLEAN /\ sso \in BOOLEAN /\ accepts \in BOOLEAN /\ expired \in BOOLEAN
  /\ saved \in BOOLEAN /\ profile \in BOOLEAN /\ memory \in BOOLEAN /\ cached \in BOOLEAN
  /\ offlineMode \in BOOLEAN /\ auth \in BOOLEAN /\ signedOut \in BOOLEAN
  /\ page \in {"start", "init", "refresh", "ready"}
  /\ kc \in {"new", "called", "signedIn"}
  /\ attempt \in [Attempts -> Stage] /\ live \in SUBSET Attempts
  /\ call \in {"none", "refresh", "persist"}
  /\ logout \in [at: {"none", "clear", "tokens", "leave"},
                 why: {"none", "asked", "idle", "deadline", "ended"}]

\* A page before its scripts ran.
NewPage ==
  /\ page' = "start" /\ cached' = FALSE /\ memory' = FALSE
  /\ kc' = "new" /\ offlineMode' = FALSE /\ auth' = FALSE
  /\ attempt' = [a \in Attempts |-> "none"] /\ live' = {} /\ call' = "none" /\ logout' = NoLogout

Init ==
  /\ online \in BOOLEAN /\ sso \in BOOLEAN /\ accepts \in BOOLEAN /\ expired \in BOOLEAN
  /\ saved \in BOOLEAN /\ profile = saved /\ memory = FALSE
  /\ page = "start" /\ cached = FALSE
  /\ kc = "new" /\ offlineMode = FALSE /\ auth = FALSE
  /\ attempt = [a \in Attempts |-> "none"] /\ live = {} /\ call = "none" /\ logout = NoLogout
  /\ signedOut = FALSE

Usable == saved /\ ~expired     \* what loadCachedTokens returns
Works == online /\ accepts /\ ~expired

\* loadCachedTokens: an expired login is dropped.
LoadCachedTokens == saved' = Usable /\ memory' = Usable /\ UNCHANGED profile

\* persistTokens: only what keycloak-js holds can be written.
PersistTokens(held) ==
  IF held THEN saved' = TRUE /\ memory' = TRUE /\ profile' = TRUE ELSE UNCHANGED stored

-----------------------------------------------------------------------------
(* doInitKeycloak, and the init of AuthContext that awaits it. *)

Ready(signedIn) == page' = "ready" /\ auth' = signedIn

\* Offline with a usable login, keycloak.init is skipped; otherwise it is called.
LoadAtStart ==
  /\ page = "start"
  /\ LoadCachedTokens
  /\ cached' = Usable
  /\ IF ~online /\ Usable
       THEN /\ offlineMode' = TRUE
            /\ Ready(TRUE)
            /\ UNCHANGED kc
       ELSE /\ kc' = "called"
            /\ page' = "init"
            /\ UNCHANGED <<offlineMode, auth>>
  /\ UNCHANGED <<call, logout, signedOut>> /\ UNCHANGED restoring /\ UNCHANGED keycloak

\* The saved login is tried offline when Keycloak gave no answer.
FallBack(noAnswer) ==
  IF noAnswer /\ cached /\ ~expired THEN offlineMode' = TRUE /\ Ready(TRUE)
                                    ELSE UNCHANGED offlineMode /\ Ready(FALSE)

\* keycloak.init answers: signed in (by the saved login or by Keycloak's own session), or not, or
\* it rejects, which a fetch does without a network as well as with one.
InitAnswers ==
  /\ page = "init"
  /\ \/ /\ online /\ (sso \/ (cached /\ Works))
        /\ kc' = "signedIn"
        /\ offlineMode' = FALSE
        /\ PersistTokens(TRUE)
        /\ page' = "refresh"
        /\ UNCHANGED <<auth, accepts, expired>>
     \/ /\ FallBack(~online)
        /\ UNCHANGED <<kc, accepts, expired>> /\ UNCHANGED stored
     \/ /\ FallBack(TRUE)
        /\ UNCHANGED <<kc, accepts, expired>> /\ UNCHANGED stored
  /\ UNCHANGED <<cached, call, logout, signedOut, online, sso>> /\ UNCHANGED restoring

\* The refresh right after it.  When Keycloak refuses, keycloak-js forgets its tokens.
RefreshAtStart ==
  /\ page = "refresh"
  /\ \/ /\ Works
        /\ PersistTokens(kc = "signedIn")
        /\ Ready(TRUE)
        /\ UNCHANGED <<kc, offlineMode>>
     \/ /\ kc' \in {kc} \cup IF online /\ ~Works THEN {"called"} ELSE {}
        /\ IF ~online /\ cached /\ ~expired
             THEN offlineMode' = TRUE /\ Ready(TRUE) /\ UNCHANGED stored
             ELSE /\ saved' = FALSE /\ memory' = FALSE
                  /\ Ready(FALSE)
                  /\ UNCHANGED <<offlineMode, profile>>
  /\ UNCHANGED <<cached, call, logout, signedOut>> /\ UNCHANGED restoring /\ UNCHANGED keycloak

-----------------------------------------------------------------------------
(* keepRestoringSession and restoreOnlineSession. *)

\* A bug of a kind OneLiveRestore finds: only the timers are cancelled.
CancelledTimers == {a \in live : attempt[a] # "wait"}

\* The attempts still acted upon after a cancellation.
Cancelled == {}

Unscheduled == [a \in Attempts |-> IF attempt[a] = "wait" THEN "none" ELSE attempt[a]]

\* handleOnline: in offline mode, earlier attempts are cancelled and a new one starts.
GoOnline ==
  /\ ~online /\ online' = TRUE
  /\ IF page = "ready" /\ offlineMode
       THEN \E a \in Attempts : /\ Unscheduled[a] = "none"
                                /\ attempt' = [Unscheduled EXCEPT ![a] = "probe"]
                                /\ live' = Cancelled \cup {a}
       ELSE UNCHANGED restoring
  /\ UNCHANGED <<sso, accepts, expired, kc, offlineMode, auth, call, logout, signedOut>>
  /\ UNCHANGED stored /\ UNCHANGED start

\* handleOffline cancels them too; what they are doing goes on.
GoOffline ==
  /\ online /\ online' = FALSE
  /\ attempt' = Unscheduled /\ live' = Cancelled
  /\ UNCHANGED <<sso, accepts, expired, kc, offlineMode, auth, call, logout, signedOut>>
  /\ UNCHANGED stored /\ UNCHANGED start

MoveTo(a, stage) == attempt' = [attempt EXCEPT ![a] = stage] /\ UNCHANGED live

LogsOut(a, result) == a \in live /\ result = "ended" /\ logout.at = "none"

\* A bug of a kind OfflineAttended finds: the first "unreachable" is the last.
ReportOnce(a, result) ==
  /\ attempt' = [attempt EXCEPT ![a] = "none"] /\ live' = live \ {a}
  /\ logout' = IF LogsOut(a, result) THEN [at |-> "clear", why |-> "ended"] ELSE logout

\* What AuthContext does with a result: "unreachable" sets the timer, "ended" logs out at once.
Report(a, result) ==
  /\ IF a \in live /\ result = "unreachable" /\ online
       THEN attempt' = [attempt EXCEPT ![a] = "wait"] /\ UNCHANGED live
       ELSE attempt' = [attempt EXCEPT ![a] = "none"] /\ live' = live \ {a}
  /\ logout' = IF LogsOut(a, result) THEN [at |-> "clear", why |-> "ended"] ELSE logout

\* Keycloak answers the probe.
ProbeAnswered(a) ==
  /\ attempt[a] = "probe"
  /\ online /\ logout.at \notin {"tokens", "leave"}
  /\ \/ kc = "signedIn" /\ MoveTo(a, "refresh") /\ UNCHANGED logout
     \/ kc = "called" /\ Report(a, "reload")
     \/ kc = "new" /\ MoveTo(a, "load") /\ UNCHANGED logout
  /\ UNCHANGED <<kc, offlineMode, auth, call, signedOut>>
  /\ UNCHANGED stored /\ UNCHANGED start /\ UNCHANGED keycloak

\* It does not, or is not asked: offline, or while logging out.
ProbeUnanswered(a) ==
  /\ attempt[a] = "probe"
  /\ Report(a, "unreachable")
  /\ UNCHANGED <<kc, offlineMode, auth, call, signedOut>>
  /\ UNCHANGED stored /\ UNCHANGED start /\ UNCHANGED keycloak

\* The tokens are read and keycloak.init is called; a second call of it rejects at once.
LoadForRestore(a) ==
  /\ attempt[a] = "load"
  /\ LoadCachedTokens
  /\ IF Usable
       THEN /\ MoveTo(a, IF kc = "new" THEN "init" ELSE "doubtInit")
            /\ kc' = IF kc = "new" THEN "called" ELSE kc
            /\ UNCHANGED logout
       ELSE Report(a, "ended") /\ UNCHANGED kc
  /\ UNCHANGED <<offlineMode, auth, call, signedOut>> /\ UNCHANGED start /\ UNCHANGED keycloak

\* The refresh, or init with the saved tokens, which refreshes them: Keycloak accepts or refuses.
RefreshAnswered(a) ==
  /\ attempt[a] \in {"refresh", "init"} /\ online
  /\ kc' = IF Works THEN "signedIn" ELSE "called"
  /\ MoveTo(a, IF Works THEN "persist" ELSE IF attempt[a] = "refresh" THEN "doubtRefresh" ELSE "doubtInit")
  /\ UNCHANGED <<offlineMode, auth, call, logout, signedOut>>
  /\ UNCHANGED stored /\ UNCHANGED start /\ UNCHANGED keycloak

\* Keycloak does not answer.
RefreshUnanswered(a) ==
  /\ attempt[a] \in {"refresh", "init"}
  /\ MoveTo(a, IF attempt[a] = "refresh" THEN "doubtRefresh" ELSE "doubtInit")
  /\ UNCHANGED <<kc, offlineMode, auth, call, logout, signedOut>>
  /\ UNCHANGED stored /\ UNCHANGED start /\ UNCHANGED keycloak

PersistForRestore(a) ==
  /\ attempt[a] = "persist"
  /\ UNCHANGED kc /\ PersistTokens(kc = "signedIn")
  /\ offlineMode' = FALSE
  /\ Report(a, "restored")
  /\ UNCHANGED <<auth, call, signedOut>> /\ UNCHANGED start /\ UNCHANGED keycloak

\* Asked again, Keycloak answers (so it must have refused) or does not.
Doubt(a) ==
  /\ attempt[a] \in {"doubtRefresh", "doubtInit"}
  /\ \/ online /\ Report(a, "ended")
     \/ Report(a, IF attempt[a] = "doubtRefresh" THEN "unreachable" ELSE "reload")
  /\ UNCHANGED <<kc, offlineMode, auth, call, signedOut>>
  /\ UNCHANGED stored /\ UNCHANGED start /\ UNCHANGED keycloak

\* A bug of a kind RestoreSettles finds: the timer is set again instead of trying.
RetryLater(a) ==
  /\ attempt[a] = "wait"
  /\ UNCHANGED vars

\* The timer: 10 seconds to 5 minutes.  Offline or logging out, the next result is "unreachable".
Retry(a) ==
  /\ attempt[a] = "wait"
  /\ MoveTo(a, "probe")
  /\ UNCHANGED <<kc, offlineMode, auth, call, logout, signedOut>>
  /\ UNCHANGED stored /\ UNCHANGED start /\ UNCHANGED keycloak

-----------------------------------------------------------------------------
(* getAccessToken: before every request. *)

\* Online with a live session the token is refreshed when it is about to end; otherwise the cached
\* one is read (and dropped when it has expired).
GetAccessToken ==
  /\ page = "ready" /\ call = "none" /\ logout.at \in {"none", "clear"}
  /\ IF online /\ kc = "signedIn"
       THEN call' = "refresh" /\ UNCHANGED stored
       ELSE /\ UNCHANGED call
            /\ IF offlineMode \/ ~online THEN LoadCachedTokens ELSE UNCHANGED stored
  /\ UNCHANGED <<kc, offlineMode, auth, logout, signedOut>> /\ UNCHANGED restoring /\ UNCHANGED start /\ UNCHANGED keycloak

\* It is refreshed, or it was fresh enough; or the refresh fails, and the cached token serves.
RefreshForCall ==
  /\ call = "refresh"
  /\ \/ Works /\ call' = "persist" /\ UNCHANGED <<kc, offlineMode>> /\ UNCHANGED stored
     \/ kc = "signedIn" /\ call' = "none" /\ offlineMode' = FALSE /\ UNCHANGED kc /\ UNCHANGED stored
     \/ /\ kc' \in {kc} \cup IF online /\ ~Works THEN {"called"} ELSE {}
        /\ call' = "none"
        /\ LoadCachedTokens
        /\ UNCHANGED offlineMode
  /\ UNCHANGED <<auth, logout, signedOut>> /\ UNCHANGED restoring /\ UNCHANGED start /\ UNCHANGED keycloak

PersistForCall ==
  /\ call = "persist"
  /\ call' = "none"
  /\ UNCHANGED kc /\ PersistTokens(kc = "signedIn")
  /\ offlineMode' = IF kc = "signedIn" THEN FALSE ELSE offlineMode
  /\ UNCHANGED <<auth, logout, signedOut>> /\ UNCHANGED restoring /\ UNCHANGED start /\ UNCHANGED keycloak

-----------------------------------------------------------------------------
(* Logging out. *)

BeginLogout(why) ==
  /\ page = "ready" /\ auth /\ logout.at = "none"
  /\ logout' = [at |-> "clear", why |-> why]
  /\ UNCHANGED <<kc, offlineMode, auth, call, signedOut>> /\ UNCHANGED restoring
  /\ UNCHANGED stored /\ UNCHANGED start /\ UNCHANGED keycloak

\* The user asks (and confirms, when offline or with unsent changes), or is idle for 10 minutes.
AskLogout == BeginLogout("asked")
IdleLogout == BeginLogout("idle")

\* The tick of useSessionDeadline: it reads the deadline from lastCachedTokens.
DeadlineLogout == expired /\ memory /\ BeginLogout("deadline")

\* performLogout clears the cached tables, then logout() forbids new tokens.
ClearTables ==
  /\ logout.at = "clear"
  /\ logout' = [logout EXCEPT !.at = "tokens"]
  /\ offlineMode' = FALSE
  /\ UNCHANGED <<kc, auth, call, signedOut>> /\ UNCHANGED restoring
  /\ UNCHANGED stored /\ UNCHANGED start /\ UNCHANGED keycloak

\* A promise that may still write tokens into IndexedDB.
Writing == call # "none" \/ \E a \in Attempts : attempt[a] \in {"refresh", "init", "persist", "load"}

\* A bug of a kind NoSilentReturn finds: only the profile is removed.
ClearProfile ==
  /\ logout.at = "tokens"
  /\ profile' = FALSE /\ memory' = FALSE
  /\ logout' = [logout EXCEPT !.at = "leave"]
  /\ \E reached \in IF online /\ kc = "signedIn" THEN BOOLEAN ELSE {FALSE} :
       /\ sso' = (sso /\ ~reached)
       /\ signedOut' = (reached /\ ~Writing)
  /\ UNCHANGED <<saved, online, accepts, expired, kc, offlineMode, auth, call>> /\ UNCHANGED restoring /\ UNCHANGED start

\* The tokens and the profile are removed; online the page leaves for Keycloak's logout, which may
\* be out of reach, and which a page that never signed in to Keycloak cannot ask for.
ClearCachedTokens ==
  /\ logout.at = "tokens"
  /\ saved' = FALSE /\ profile' = FALSE /\ memory' = FALSE
  /\ logout' = [logout EXCEPT !.at = "leave"]
  /\ \E reached \in IF online /\ kc = "signedIn" THEN BOOLEAN ELSE {FALSE} :
       /\ sso' = (sso /\ ~reached)
       /\ signedOut' = (reached /\ ~Writing)
  /\ UNCHANGED <<online, accepts, expired, kc, offlineMode, auth, call>> /\ UNCHANGED restoring /\ UNCHANGED start

\* The browser has left the page; its promises are gone.
Leave ==
  /\ logout.at = "leave"
  /\ NewPage
  /\ UNCHANGED <<saved, profile, signedOut>> /\ UNCHANGED keycloak

\* A reload: the same storage, fresh module variables.
Reload ==
  /\ page = "ready" /\ logout.at = "none"
  /\ NewPage
  /\ UNCHANGED <<saved, profile, signedOut>> /\ UNCHANGED keycloak

\* login() redirects to Keycloak's password form and back.
SignIn ==
  /\ page = "ready" /\ ~auth /\ online
  /\ NewPage
  /\ sso' = TRUE /\ accepts' = TRUE /\ expired' = FALSE /\ signedOut' = FALSE
  /\ UNCHANGED <<online, saved, profile>>

\* Keycloak ends the session or disables the account; the deadline of the saved login passes.
EndElsewhere ==
  /\ sso' = FALSE /\ accepts' = FALSE
  /\ UNCHANGED <<online, expired, kc, offlineMode, auth, call, logout, signedOut>> /\ UNCHANGED restoring
  /\ UNCHANGED stored /\ UNCHANGED start

Expire ==
  /\ ~expired /\ expired' = TRUE
  /\ UNCHANGED <<online, sso, accepts, kc, offlineMode, auth, call, logout, signedOut>> /\ UNCHANGED restoring
  /\ UNCHANGED stored /\ UNCHANGED start

-----------------------------------------------------------------------------

Restore(a) == ProbeAnswered(a) \/ LoadForRestore(a) \/ RefreshAnswered(a) \/ PersistForRestore(a) \/ Doubt(a) \/ Retry(a)

Next ==
  \/ LoadAtStart \/ InitAnswers \/ RefreshAtStart
  \/ GoOnline \/ GoOffline
  \/ \E a \in Attempts : \/ ProbeAnswered(a) \/ ProbeUnanswered(a) \/ LoadForRestore(a)
                         \/ RefreshAnswered(a) \/ RefreshUnanswered(a) \/ PersistForRestore(a) \/ Doubt(a) \/ Retry(a)
  \/ GetAccessToken \/ RefreshForCall \/ PersistForCall
  \/ AskLogout \/ IdleLogout \/ DeadlineLogout \/ ClearTables \/ ClearCachedTokens \/ Leave
  \/ Reload \/ SignIn \/ EndElsewhere \/ Expire

Spec == Init /\ [][Next]_vars

\* Awaited calls return, timers fire, and a Keycloak that is asked again and again answers at last.
Fairness ==
  /\ \A a \in Attempts : SF_vars(ProbeAnswered(a)) /\ SF_vars(RefreshAnswered(a)) /\ WF_vars(Restore(a))
  /\ WF_vars(DeadlineLogout)
  /\ WF_vars(LoadAtStart \/ InitAnswers \/ RefreshAtStart)
  /\ WF_vars(ClearTables) /\ WF_vars(ClearCachedTokens) /\ WF_vars(Leave)

FairSpec == Spec /\ Fairness

-----------------------------------------------------------------------------
(* Properties. *)

\* handleOnline and handleOffline cancel what is under way, so the results of two overlapping calls of
\* restoreOnlineSession are never both acted upon.
OneLiveRestore == \A a, b \in live : a = b

\* A page that skipped Keycloak while offline does not stay in offline mode unattended: online, an attempt to
\* restore the session is under way or waiting for its timer, whatever failed before, unless only a
\* reload can help (init was called and did not sign in) or the page is logging out.
OfflineAttended ==
  page = "ready" /\ offlineMode /\ online /\ logout.at = "none" /\ kc # "called"
    => \E a \in Attempts : attempt[a] # "none"

\* After a logout that Keycloak carried out while no token was being refreshed, nobody is signed in again without
\* the password, by no reload, saved login or late answer (what the comment of logout() warns of).
NoSilentReturn == signedOut => ~auth \/ logout.at = "leave"

\* Every attempt comes to an end: the session is restored, ended or needs a reload, or the network is gone.
RestoreSettles == \A a \in Attempts : a \in live ~> a \notin live

\* useSessionDeadline reads the deadline from lastCachedTokens, which loadCachedTokens resets when it finds the
\* login expired.  AuthContext.tsx:303 says of the deadline "Offline nobody else enforces it, so the app logs out itself".
DeadlineEnforced == (auth /\ expired /\ offlineMode) ~> ~auth

\* authService.ts:192 says of the result "ended" "Keycloak refused the saved login".
EndedOnlyIfRefused == logout.why = "ended" => ~accepts \/ expired \/ ~saved

=============================================================================
