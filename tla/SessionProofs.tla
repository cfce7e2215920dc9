---------------------------- MODULE SessionProofs ----------------------------
(* What holds of the session of a page for any number of attempts to restore *)
(* it at a time.                                                             *)
EXTENDS Session, TLAPS

-----------------------------------------------------------------------------
(* The inductive invariant. *)

\* A page that is still starting has done nothing else yet.
StartsClean ==
  page # "ready" =>
    /\ ~offlineMode /\ ~auth /\ call = "none" /\ logout = NoLogout
    /\ live = {} /\ \A a \in Attempts : attempt[a] = "none"

\* keycloak.init comes before everything that needs it.
InitComesFirst ==
  /\ page = "start" => kc = "new"
  /\ page = "init" => kc = "called"
  /\ page = "refresh" => kc # "new"
  /\ \A a \in Attempts : attempt[a] \in {"refresh", "init", "persist", "doubtRefresh", "doubtInit"} => kc # "new"

Persists(a) == attempt[a] = "persist"
SignsIn(a)  == attempt[a] \in {"load", "init", "doubtInit"}

\* An attempt that signs in through keycloak.init meets a page that is signed in only when
\* another one did so and is about to end the offline mode.
SignedInByAnother ==
  kc = "signedIn" /\ offlineMode /\ (\E a \in Attempts : SignsIn(a)) => \E a \in Attempts : Persists(a)

\* A live attempt is under way or waiting.
LiveWorks == \A a \in live : attempt[a] # "none"

\* OfflineAttended is not inductive: it is a live attempt, or one about to end the offline
\* mode, that keeps the page attended; a cancelled one may end without a successor.
Watched ==
  page = "ready" /\ offlineMode /\ online /\ logout.at = "none" /\ kc # "called"
    => live # {} \/ \E a \in Attempts : Persists(a)

\* After a logout that Keycloak carried out nothing is left to sign in with, and nothing under
\* way that would bring it back.
NothingLeft ==
  signedOut =>
    /\ ~sso /\ ~saved /\ ~memory /\ ~Writing
    /\ \/ logout.at = "leave"
       \/ /\ logout.at = "none" /\ ~auth /\ ~offlineMode /\ ~cached /\ kc # "signedIn"
          /\ page # "refresh"
          /\ \A a \in Attempts : attempt[a] = "none"

SessionInv ==
  /\ TypeOK /\ OneLiveRestore /\ StartsClean /\ InitComesFirst
  /\ SignedInByAnother /\ LiveWorks /\ Watched /\ NothingLeft

-----------------------------------------------------------------------------
(* Type correctness. *)

USE DEF stored, keycloak, start, restoring

\* What the helpers leave in the storage and in the attempts.
LEMMA LoadType ==
  ASSUME TypeOK, LoadCachedTokens
  PROVE  /\ saved' \in BOOLEAN /\ memory' \in BOOLEAN /\ profile' \in BOOLEAN
BY DEF TypeOK, LoadCachedTokens, Usable

LEMMA PersistType ==
  ASSUME TypeOK, NEW held, PersistTokens(held)
  PROVE  /\ saved' \in BOOLEAN /\ memory' \in BOOLEAN /\ profile' \in BOOLEAN
BY DEF TypeOK, PersistTokens

LEMMA ReportType ==
  ASSUME TypeOK, NEW a \in Attempts, NEW result, Report(a, result)
  PROVE  /\ attempt' \in [Attempts -> Stage] /\ live' \in SUBSET Attempts
         /\ logout' \in [at: {"none", "clear", "tokens", "leave"},
                         why: {"none", "asked", "idle", "deadline", "ended"}]
BY DEF TypeOK, Report, LogsOut, Stage

LEMMA InitType == Init => TypeOK
<1> SUFFICES ASSUME Init PROVE TypeOK
  OBVIOUS
<1>1. /\ saved \in BOOLEAN /\ profile \in BOOLEAN /\ memory \in BOOLEAN /\ cached \in BOOLEAN
      /\ offlineMode \in BOOLEAN /\ auth \in BOOLEAN /\ signedOut \in BOOLEAN
  BY DEF Init
<1>2. /\ attempt \in [Attempts -> Stage] /\ live \in SUBSET Attempts
      /\ logout \in [at: {"none", "clear", "tokens", "leave"}, why: {"none", "asked", "idle", "deadline", "ended"}]
  BY DEF Init, NoLogout, Stage
<1> QED
  BY <1>1, <1>2 DEF Init, TypeOK

LEMMA NextType == TypeOK /\ [Next]_vars => TypeOK'
<1> SUFFICES ASSUME TypeOK, [Next]_vars PROVE TypeOK'
  OBVIOUS
<1>1. CASE LoadAtStart
  <2>1. /\ saved' \in BOOLEAN
        /\ profile' \in BOOLEAN
        /\ memory' \in BOOLEAN
    BY <1>1, LoadType DEF LoadAtStart
  <2>2. cached' \in BOOLEAN
    BY <1>1 DEF TypeOK, LoadAtStart, Usable
  <2>3. /\ offlineMode' \in BOOLEAN
        /\ auth' \in BOOLEAN
    BY <1>1 DEF TypeOK, LoadAtStart, Ready
  <2>4. /\ page' \in {"start", "init", "refresh", "ready"}
        /\ kc' \in {"new", "called", "signedIn"}
    BY <1>1 DEF TypeOK, LoadAtStart, Ready
  <2> QED
    BY <1>1, <2>1, <2>2, <2>3, <2>4 DEF TypeOK, LoadAtStart
<1>2. CASE InitAnswers
  <2>1. /\ saved' \in BOOLEAN
        /\ profile' \in BOOLEAN
        /\ memory' \in BOOLEAN
    BY <1>2, PersistType DEF TypeOK, InitAnswers
  <2>2. /\ offlineMode' \in BOOLEAN
        /\ auth' \in BOOLEAN
    BY <1>2 DEF TypeOK, InitAnswers, FallBack, Ready
  <2>3. /\ page' \in {"start", "init", "refresh", "ready"}
        /\ kc' \in {"new", "called", "signedIn"}
    BY <1>2 DEF TypeOK, InitAnswers, FallBack, Ready
  <2>4. UNCHANGED <<cached, call, logout, signedOut, restoring, keycloak>>
    BY <1>2 DEF InitAnswers
  <2> QED
    BY <2>1, <2>2, <2>3, <2>4 DEF TypeOK
<1>3. CASE RefreshAtStart
  <2>1. /\ saved' \in BOOLEAN
        /\ profile' \in BOOLEAN
        /\ memory' \in BOOLEAN
    BY <1>3, PersistType DEF TypeOK, RefreshAtStart
  <2>2. /\ offlineMode' \in BOOLEAN
        /\ auth' \in BOOLEAN
    BY <1>3 DEF TypeOK, RefreshAtStart, Ready
  <2>3. /\ page' \in {"start", "init", "refresh", "ready"}
        /\ kc' \in {"new", "called", "signedIn"}
    BY <1>3 DEF TypeOK, RefreshAtStart, Ready
  <2> QED
    BY <1>3, <2>1, <2>2, <2>3 DEF TypeOK, RefreshAtStart
<1>4. CASE GoOnline
  <2>1. /\ online' \in BOOLEAN
        /\ sso' \in BOOLEAN
        /\ accepts' \in BOOLEAN
        /\ expired' \in BOOLEAN
    BY <1>4 DEF TypeOK, GoOnline
  <2>2. /\ attempt' \in [Attempts -> Stage]
        /\ live' \in SUBSET Attempts
    BY <1>4 DEF TypeOK, GoOnline, Unscheduled, Cancelled, Stage
  <2> QED
    BY <1>4, <2>1, <2>2 DEF TypeOK, GoOnline
<1>5. CASE GoOffline
  <2>1. /\ online' \in BOOLEAN
        /\ sso' \in BOOLEAN
        /\ accepts' \in BOOLEAN
        /\ expired' \in BOOLEAN
    BY <1>5 DEF TypeOK, GoOffline
  <2>2. /\ attempt' \in [Attempts -> Stage]
        /\ live' \in SUBSET Attempts
    BY <1>5 DEF TypeOK, GoOffline, Unscheduled, Cancelled, Stage
  <2> QED
    BY <1>5, <2>1, <2>2 DEF TypeOK, GoOffline
<1>6. ASSUME NEW a \in Attempts, ProbeAnswered(a) PROVE TypeOK'
  <2>1. /\ attempt' \in [Attempts -> Stage]
        /\ live' \in SUBSET Attempts
        /\ logout' \in [at: {"none", "clear", "tokens", "leave"},
                         why: {"none", "asked", "idle", "deadline", "ended"}]
    BY <1>6, ReportType DEF TypeOK, ProbeAnswered, MoveTo, Stage
  <2> QED
    BY <1>6, <2>1 DEF TypeOK, ProbeAnswered
<1>7. ASSUME NEW a \in Attempts, ProbeUnanswered(a) PROVE TypeOK'
  <2>1. /\ attempt' \in [Attempts -> Stage]
        /\ live' \in SUBSET Attempts
        /\ logout' \in [at: {"none", "clear", "tokens", "leave"},
                         why: {"none", "asked", "idle", "deadline", "ended"}]
    BY <1>7, ReportType DEF ProbeUnanswered
  <2> QED
    BY <1>7, <2>1 DEF TypeOK, ProbeUnanswered
<1>8. ASSUME NEW a \in Attempts, LoadForRestore(a) PROVE TypeOK'
  <2>1. /\ saved' \in BOOLEAN
        /\ profile' \in BOOLEAN
        /\ memory' \in BOOLEAN
    BY <1>8, LoadType DEF LoadForRestore
  <2>2. /\ attempt' \in [Attempts -> Stage]
        /\ live' \in SUBSET Attempts
        /\ logout' \in [at: {"none", "clear", "tokens", "leave"},
                         why: {"none", "asked", "idle", "deadline", "ended"}]
    BY <1>8, ReportType DEF TypeOK, LoadForRestore, MoveTo, Stage
  <2>3. kc' \in {"new", "called", "signedIn"}
    BY <1>8 DEF TypeOK, LoadForRestore
  <2> QED
    BY <1>8, <2>1, <2>2, <2>3 DEF TypeOK, LoadForRestore
<1>9. ASSUME NEW a \in Attempts, RefreshAnswered(a) PROVE TypeOK'
  <2>1. /\ attempt' \in [Attempts -> Stage]
        /\ live' \in SUBSET Attempts
    BY <1>9 DEF TypeOK, RefreshAnswered, MoveTo, Stage
  <2>2. kc' \in {"new", "called", "signedIn"}
    BY <1>9 DEF RefreshAnswered
  <2> QED
    BY <1>9, <2>1, <2>2 DEF TypeOK, RefreshAnswered
<1>10. ASSUME NEW a \in Attempts, RefreshUnanswered(a) PROVE TypeOK'
  <2>1. /\ attempt' \in [Attempts -> Stage]
        /\ live' \in SUBSET Attempts
    BY <1>10 DEF TypeOK, RefreshUnanswered, MoveTo, Stage
  <2> QED
    BY <1>10, <2>1 DEF TypeOK, RefreshUnanswered
<1>11. ASSUME NEW a \in Attempts, PersistForRestore(a) PROVE TypeOK'
  <2>1. /\ saved' \in BOOLEAN
        /\ profile' \in BOOLEAN
        /\ memory' \in BOOLEAN
    BY <1>11, PersistType DEF PersistForRestore
  <2>2. offlineMode' \in BOOLEAN
    BY <1>11 DEF PersistForRestore
  <2>3. /\ attempt' \in [Attempts -> Stage]
        /\ live' \in SUBSET Attempts
        /\ logout' \in [at: {"none", "clear", "tokens", "leave"},
                         why: {"none", "asked", "idle", "deadline", "ended"}]
    BY <1>11, ReportType DEF PersistForRestore
  <2> QED
    BY <1>11, <2>1, <2>2, <2>3 DEF TypeOK, PersistForRestore
<1>12. ASSUME NEW a \in Attempts, Doubt(a) PROVE TypeOK'
  <2>1. /\ attempt' \in [Attempts -> Stage]
        /\ live' \in SUBSET Attempts
        /\ logout' \in [at: {"none", "clear", "tokens", "leave"},
                         why: {"none", "asked", "idle", "deadline", "ended"}]
    BY <1>12, ReportType DEF Doubt
  <2> QED
    BY <1>12, <2>1 DEF TypeOK, Doubt
<1>13. ASSUME NEW a \in Attempts, Retry(a) PROVE TypeOK'
  <2>1. /\ attempt' \in [Attempts -> Stage]
        /\ live' \in SUBSET Attempts
    BY <1>13 DEF TypeOK, Retry, MoveTo, Stage
  <2> QED
    BY <1>13, <2>1 DEF TypeOK, Retry
<1>14. CASE GetAccessToken
  <2>1. /\ saved' \in BOOLEAN
        /\ profile' \in BOOLEAN
        /\ memory' \in BOOLEAN
    BY <1>14, LoadType DEF TypeOK, GetAccessToken
  <2>2. call' \in {"none", "refresh", "persist"}
    BY <1>14 DEF TypeOK, GetAccessToken
  <2> QED
    BY <1>14, <2>1, <2>2 DEF TypeOK, GetAccessToken
<1>15. CASE RefreshForCall
  <2>1. /\ saved' \in BOOLEAN
        /\ profile' \in BOOLEAN
        /\ memory' \in BOOLEAN
    BY <1>15, LoadType DEF TypeOK, RefreshForCall
  <2>2. offlineMode' \in BOOLEAN
    BY <1>15 DEF TypeOK, RefreshForCall
  <2>3. /\ call' \in {"none", "refresh", "persist"}
        /\ kc' \in {"new", "called", "signedIn"}
    BY <1>15 DEF TypeOK, RefreshForCall
  <2> QED
    BY <1>15, <2>1, <2>2, <2>3 DEF TypeOK, RefreshForCall
<1>16. CASE PersistForCall
  <2>1. /\ saved' \in BOOLEAN
        /\ profile' \in BOOLEAN
        /\ memory' \in BOOLEAN
    BY <1>16, PersistType DEF PersistForCall
  <2>2. offlineMode' \in BOOLEAN
    BY <1>16 DEF TypeOK, PersistForCall
  <2>3. call' = "none" /\ UNCHANGED <<kc, auth, logout, signedOut, restoring, start, keycloak>>
    BY <1>16 DEF PersistForCall
  <2> QED
    BY <2>1, <2>2, <2>3 DEF TypeOK
<1>17. ASSUME NEW why \in {"asked", "idle", "deadline"}, BeginLogout(why) PROVE TypeOK'
  <2>1. logout' \in [at: {"none", "clear", "tokens", "leave"},
                   why: {"none", "asked", "idle", "deadline", "ended"}]
    BY <1>17 DEF TypeOK, BeginLogout
  <2> QED
    BY <1>17, <2>1 DEF TypeOK, BeginLogout
<1>18. CASE ClearTables
  <2>1. offlineMode' \in BOOLEAN
    BY <1>18 DEF ClearTables
  <2>2. logout' \in [at: {"none", "clear", "tokens", "leave"},
                   why: {"none", "asked", "idle", "deadline", "ended"}]
    BY <1>18 DEF TypeOK, ClearTables
  <2> QED
    BY <1>18, <2>1, <2>2 DEF TypeOK, ClearTables
<1>19. CASE ClearCachedTokens
  <2>1. /\ saved' \in BOOLEAN
        /\ profile' \in BOOLEAN
        /\ memory' \in BOOLEAN
    BY <1>19 DEF ClearCachedTokens
  <2>2. /\ sso' \in BOOLEAN
        /\ signedOut' \in BOOLEAN
    BY <1>19 DEF ClearCachedTokens
  <2>3. logout' \in [at: {"none", "clear", "tokens", "leave"},
                   why: {"none", "asked", "idle", "deadline", "ended"}]
    BY <1>19 DEF TypeOK, ClearCachedTokens
  <2> QED
    BY <1>19, <2>1, <2>2, <2>3 DEF TypeOK, ClearCachedTokens
<1>20. CASE Leave
  <2>1. /\ cached' \in BOOLEAN
        /\ memory' \in BOOLEAN
        /\ offlineMode' \in BOOLEAN
        /\ auth' \in BOOLEAN
    BY <1>20 DEF Leave, NewPage
  <2>2. /\ attempt' \in [Attempts -> Stage]
        /\ live' \in SUBSET Attempts
        /\ logout' \in [at: {"none", "clear", "tokens", "leave"},
                         why: {"none", "asked", "idle", "deadline", "ended"}]
    BY <1>20 DEF Leave, NewPage, NoLogout, Stage
  <2> QED
    BY <1>20, <2>1, <2>2 DEF TypeOK, Leave, NewPage
<1>21. CASE Reload
  <2>1. /\ cached' \in BOOLEAN
        /\ memory' \in BOOLEAN
        /\ offlineMode' \in BOOLEAN
        /\ auth' \in BOOLEAN
    BY <1>21 DEF Reload, NewPage
  <2>2. /\ attempt' \in [Attempts -> Stage]
        /\ live' \in SUBSET Attempts
        /\ logout' \in [at: {"none", "clear", "tokens", "leave"},
                         why: {"none", "asked", "idle", "deadline", "ended"}]
    BY <1>21 DEF Reload, NewPage, NoLogout, Stage
  <2> QED
    BY <1>21, <2>1, <2>2 DEF TypeOK, Reload, NewPage
<1>22. CASE SignIn
  <2>1. /\ online' \in BOOLEAN
        /\ sso' \in BOOLEAN
        /\ accepts' \in BOOLEAN
        /\ expired' \in BOOLEAN
        /\ signedOut' \in BOOLEAN
    BY <1>22 DEF TypeOK, SignIn
  <2>2. /\ cached' \in BOOLEAN
        /\ memory' \in BOOLEAN
        /\ offlineMode' \in BOOLEAN
        /\ auth' \in BOOLEAN
    BY <1>22 DEF SignIn, NewPage
  <2>3. /\ attempt' \in [Attempts -> Stage]
        /\ live' \in SUBSET Attempts
        /\ logout' \in [at: {"none", "clear", "tokens", "leave"},
                         why: {"none", "asked", "idle", "deadline", "ended"}]
    BY <1>22 DEF SignIn, NewPage, NoLogout, Stage
  <2> QED
    BY <1>22, <2>1, <2>2, <2>3 DEF TypeOK, SignIn, NewPage
<1>23. CASE EndElsewhere
  <2>1. /\ online' \in BOOLEAN
        /\ sso' \in BOOLEAN
        /\ accepts' \in BOOLEAN
        /\ expired' \in BOOLEAN
    BY <1>23 DEF TypeOK, EndElsewhere
  <2> QED
    BY <1>23, <2>1 DEF TypeOK, EndElsewhere
<1>24. CASE Expire
  <2>1. /\ online' \in BOOLEAN
        /\ sso' \in BOOLEAN
        /\ accepts' \in BOOLEAN
        /\ expired' \in BOOLEAN
    BY <1>24 DEF TypeOK, Expire
  <2> QED
    BY <1>24, <2>1 DEF TypeOK, Expire
<1>25. CASE UNCHANGED vars
  BY <1>25 DEF TypeOK, vars
<1> QED
  BY <1>1, <1>2, <1>3, <1>4, <1>5, <1>6, <1>7, <1>8, <1>9, <1>10, <1>11, <1>12, <1>13, <1>14, <1>15, <1>16, <1>17, <1>18, <1>19, <1>20, <1>21, <1>22, <1>23, <1>24, <1>25
  DEF Next, AskLogout, IdleLogout, DeadlineLogout

-----------------------------------------------------------------------------
(* What one step does to each conjunct of the invariant. *)

\* A new attempt starts only when the earlier ones were cancelled.
LEMMA OneLiveRestoreStep == SessionInv /\ [Next]_vars => OneLiveRestore'
<1> SUFFICES ASSUME SessionInv, [Next]_vars PROVE OneLiveRestore'
  OBVIOUS
<1>1. CASE LoadAtStart \/ InitAnswers \/ RefreshAtStart
  BY <1>1 DEF SessionInv, TypeOK, Stage, OneLiveRestore, LoadAtStart, LoadCachedTokens, Usable, Ready,
         InitAnswers, PersistTokens, FallBack, Works, RefreshAtStart
<1>2. CASE GoOnline \/ GoOffline
  BY <1>2 DEF SessionInv, TypeOK, Stage, OneLiveRestore, GoOnline, Unscheduled, Cancelled, GoOffline
<1>3. ASSUME NEW a \in Attempts,
             ProbeAnswered(a) \/ ProbeUnanswered(a) \/ LoadForRestore(a) \/ RefreshAnswered(a)
             \/ RefreshUnanswered(a) \/ PersistForRestore(a) \/ Doubt(a) \/ Retry(a)
      PROVE  OneLiveRestore'
  BY <1>3 DEF SessionInv, TypeOK, Stage, OneLiveRestore, ProbeAnswered, MoveTo, Report, LogsOut,
         ProbeUnanswered, LoadForRestore, LoadCachedTokens, Usable, RefreshAnswered, Works,
         RefreshUnanswered, PersistForRestore, PersistTokens, Doubt, Retry
<1>4. CASE GetAccessToken \/ RefreshForCall \/ PersistForCall
  BY <1>4 DEF SessionInv, TypeOK, Stage, OneLiveRestore, GetAccessToken, LoadCachedTokens, Usable,
         RefreshForCall, Works, PersistForCall, PersistTokens
<1>5. ASSUME NEW why \in {"asked", "idle", "deadline"}, BeginLogout(why) PROVE OneLiveRestore'
  BY <1>5 DEF SessionInv, TypeOK, Stage, OneLiveRestore, BeginLogout
<1>6. CASE ClearTables \/ ClearCachedTokens
  BY <1>6 DEF SessionInv, TypeOK, Stage, OneLiveRestore, ClearTables, ClearCachedTokens
<1>7. CASE Leave \/ Reload \/ SignIn
  BY <1>7 DEF SessionInv, TypeOK, Stage, OneLiveRestore, Leave, NewPage, NoLogout, Reload, SignIn
<1>8. CASE EndElsewhere \/ Expire \/ UNCHANGED vars
  BY <1>8 DEF SessionInv, TypeOK, Stage, OneLiveRestore, EndElsewhere, Expire, vars
<1> QED
  BY <1>1, <1>2, <1>3, <1>4, <1>5, <1>6, <1>7, <1>8 DEF Next, AskLogout, IdleLogout, DeadlineLogout

\* Nothing starts before the page is ready.
LEMMA StartsCleanStep == SessionInv /\ [Next]_vars => StartsClean'
<1> SUFFICES ASSUME SessionInv, [Next]_vars PROVE StartsClean'
  OBVIOUS
<1>1. CASE LoadAtStart \/ InitAnswers \/ RefreshAtStart
  BY <1>1 DEF SessionInv, TypeOK, Stage, StartsClean, NoLogout, LoadAtStart, LoadCachedTokens, Usable,
         Ready, InitAnswers, PersistTokens, FallBack, Works, RefreshAtStart
<1>2. CASE GoOnline \/ GoOffline
  BY <1>2 DEF SessionInv, TypeOK, Stage, StartsClean, NoLogout, GoOnline, Unscheduled, Cancelled, GoOffline
<1>3. ASSUME NEW a \in Attempts,
             ProbeAnswered(a) \/ ProbeUnanswered(a) \/ LoadForRestore(a) \/ RefreshAnswered(a)
             \/ RefreshUnanswered(a) \/ PersistForRestore(a) \/ Doubt(a) \/ Retry(a)
      PROVE  StartsClean'
  BY <1>3 DEF SessionInv, TypeOK, Stage, StartsClean, NoLogout, ProbeAnswered, MoveTo, Report, LogsOut,
         ProbeUnanswered, LoadForRestore, LoadCachedTokens, Usable, RefreshAnswered, Works,
         RefreshUnanswered, PersistForRestore, PersistTokens, Doubt, Retry
<1>4. CASE GetAccessToken \/ RefreshForCall \/ PersistForCall
  BY <1>4 DEF SessionInv, TypeOK, Stage, StartsClean, NoLogout, GetAccessToken, LoadCachedTokens, Usable,
         RefreshForCall, Works, PersistForCall, PersistTokens
<1>5. ASSUME NEW why \in {"asked", "idle", "deadline"}, BeginLogout(why) PROVE StartsClean'
  BY <1>5 DEF SessionInv, TypeOK, Stage, StartsClean, NoLogout, BeginLogout
<1>6. CASE ClearTables
  BY <1>6 DEF SessionInv, TypeOK, Stage, StartsClean, NoLogout, ClearTables
<1>7. CASE ClearCachedTokens
  BY <1>7 DEF SessionInv, TypeOK, Stage, StartsClean, NoLogout, ClearCachedTokens
<1>8. CASE Leave \/ Reload \/ SignIn
  BY <1>8 DEF SessionInv, TypeOK, Stage, StartsClean, NoLogout, Leave, NewPage, Reload, SignIn
<1>9. CASE EndElsewhere \/ Expire \/ UNCHANGED vars
  BY <1>9 DEF SessionInv, TypeOK, Stage, StartsClean, NoLogout, EndElsewhere, Expire, vars
<1> QED
  BY <1>1, <1>2, <1>3, <1>4, <1>5, <1>6, <1>7, <1>8, <1>9 DEF Next, AskLogout, IdleLogout, DeadlineLogout

\* keycloak.init is called by the start of the page, or by the first attempt that signs in.
LEMMA InitComesFirstStep == SessionInv /\ [Next]_vars => InitComesFirst'
<1> SUFFICES ASSUME SessionInv, [Next]_vars PROVE InitComesFirst'
  OBVIOUS
<1>1. CASE LoadAtStart \/ InitAnswers \/ RefreshAtStart
  BY <1>1 DEF SessionInv, TypeOK, Stage, InitComesFirst, StartsClean, LoadAtStart, LoadCachedTokens,
         Usable, Ready, InitAnswers, PersistTokens, FallBack, Works, RefreshAtStart
<1>2. CASE GoOnline \/ GoOffline
  BY <1>2 DEF SessionInv, TypeOK, Stage, InitComesFirst, StartsClean, GoOnline, Unscheduled, Cancelled,
         GoOffline
<1>3. ASSUME NEW a \in Attempts,
             ProbeAnswered(a) \/ ProbeUnanswered(a) \/ LoadForRestore(a) \/ RefreshAnswered(a)
             \/ RefreshUnanswered(a) \/ PersistForRestore(a) \/ Doubt(a) \/ Retry(a)
      PROVE  InitComesFirst'
  BY <1>3 DEF SessionInv, TypeOK, Stage, InitComesFirst, StartsClean, ProbeAnswered, MoveTo, Report,
         LogsOut, ProbeUnanswered, LoadForRestore, LoadCachedTokens, Usable, RefreshAnswered, Works,
         RefreshUnanswered, PersistForRestore, PersistTokens, Doubt, Retry
<1>4. CASE GetAccessToken \/ RefreshForCall \/ PersistForCall
  BY <1>4 DEF SessionInv, TypeOK, Stage, InitComesFirst, StartsClean, GetAccessToken, LoadCachedTokens,
         Usable, RefreshForCall, Works, PersistForCall, PersistTokens
<1>5. ASSUME NEW why \in {"asked", "idle", "deadline"}, BeginLogout(why) PROVE InitComesFirst'
  BY <1>5 DEF SessionInv, TypeOK, Stage, InitComesFirst, StartsClean, BeginLogout
<1>6. CASE ClearTables \/ ClearCachedTokens
  BY <1>6 DEF SessionInv, TypeOK, Stage, InitComesFirst, StartsClean, ClearTables, ClearCachedTokens
<1>7. CASE Leave \/ Reload \/ SignIn
  BY <1>7 DEF SessionInv, TypeOK, Stage, InitComesFirst, StartsClean, Leave, NewPage, NoLogout, Reload,
         SignIn
<1>8. CASE EndElsewhere \/ Expire \/ UNCHANGED vars
  BY <1>8 DEF SessionInv, TypeOK, Stage, InitComesFirst, StartsClean, EndElsewhere, Expire, vars
<1> QED
  BY <1>1, <1>2, <1>3, <1>4, <1>5, <1>6, <1>7, <1>8 DEF Next, AskLogout, IdleLogout, DeadlineLogout

\* An attempt that signs in goes on to write the tokens.
LEMMA SignedInByAnotherStep == SessionInv /\ [Next]_vars => SignedInByAnother'
<1> SUFFICES ASSUME SessionInv, [Next]_vars PROVE SignedInByAnother'
  OBVIOUS
<1>1. CASE LoadAtStart \/ InitAnswers \/ RefreshAtStart
  BY <1>1 DEF SessionInv, TypeOK, Stage, SignedInByAnother, InitComesFirst, StartsClean, SignsIn, Persists,
         LoadAtStart, LoadCachedTokens, Usable, Ready, InitAnswers, PersistTokens, FallBack, Works,
         RefreshAtStart
<1>2. CASE GoOnline \/ GoOffline
  BY <1>2 DEF SessionInv, TypeOK, Stage, SignedInByAnother, InitComesFirst, StartsClean, SignsIn, Persists,
         GoOnline, Unscheduled, Cancelled, GoOffline
<1>3. ASSUME NEW a \in Attempts,
             ProbeAnswered(a) \/ ProbeUnanswered(a) \/ LoadForRestore(a) \/ RefreshAnswered(a)
             \/ RefreshUnanswered(a) \/ PersistForRestore(a) \/ Doubt(a) \/ Retry(a)
      PROVE  SignedInByAnother'
  BY <1>3 DEF SessionInv, TypeOK, Stage, SignedInByAnother, InitComesFirst, StartsClean, SignsIn, Persists,
         ProbeAnswered, MoveTo, Report, LogsOut, ProbeUnanswered, LoadForRestore, LoadCachedTokens, Usable,
         RefreshAnswered, Works, RefreshUnanswered, PersistForRestore, PersistTokens, Doubt, Retry
<1>4. CASE GetAccessToken \/ RefreshForCall \/ PersistForCall
  BY <1>4 DEF SessionInv, TypeOK, Stage, SignedInByAnother, InitComesFirst, StartsClean, SignsIn, Persists,
         GetAccessToken, LoadCachedTokens, Usable, RefreshForCall, Works, PersistForCall, PersistTokens
<1>5. ASSUME NEW why \in {"asked", "idle", "deadline"}, BeginLogout(why) PROVE SignedInByAnother'
  BY <1>5 DEF SessionInv, TypeOK, Stage, SignedInByAnother, InitComesFirst, StartsClean, SignsIn, Persists,
         BeginLogout
<1>6. CASE ClearTables \/ ClearCachedTokens
  BY <1>6 DEF SessionInv, TypeOK, Stage, SignedInByAnother, InitComesFirst, StartsClean, SignsIn, Persists,
         ClearTables, ClearCachedTokens
<1>7. CASE Leave \/ Reload \/ SignIn
  BY <1>7 DEF SessionInv, TypeOK, Stage, SignedInByAnother, InitComesFirst, StartsClean, SignsIn, Persists,
         Leave, NewPage, NoLogout, Reload, SignIn
<1>8. CASE EndElsewhere \/ Expire \/ UNCHANGED vars
  BY <1>8 DEF SessionInv, TypeOK, Stage, SignedInByAnother, InitComesFirst, StartsClean, SignsIn, Persists,
         EndElsewhere, Expire, vars
<1> QED
  BY <1>1, <1>2, <1>3, <1>4, <1>5, <1>6, <1>7, <1>8 DEF Next, AskLogout, IdleLogout, DeadlineLogout

\* An attempt that ends is no longer acted upon.
LEMMA LiveWorksStep == SessionInv /\ [Next]_vars => LiveWorks'
<1> SUFFICES ASSUME SessionInv, [Next]_vars PROVE LiveWorks'
  OBVIOUS
<1>1. CASE LoadAtStart \/ InitAnswers \/ RefreshAtStart
  BY <1>1 DEF SessionInv, TypeOK, Stage, LiveWorks, StartsClean, LoadAtStart, LoadCachedTokens, Usable,
         Ready, InitAnswers, PersistTokens, FallBack, Works, RefreshAtStart
<1>2. CASE GoOnline \/ GoOffline
  BY <1>2 DEF SessionInv, TypeOK, Stage, LiveWorks, StartsClean, GoOnline, Unscheduled, Cancelled, GoOffline
<1>3. ASSUME NEW a \in Attempts,
             ProbeAnswered(a) \/ ProbeUnanswered(a) \/ LoadForRestore(a) \/ RefreshAnswered(a)
             \/ RefreshUnanswered(a) \/ PersistForRestore(a) \/ Doubt(a) \/ Retry(a)
      PROVE  LiveWorks'
  BY <1>3 DEF SessionInv, TypeOK, Stage, LiveWorks, StartsClean, ProbeAnswered, MoveTo, Report, LogsOut,
         ProbeUnanswered, LoadForRestore, LoadCachedTokens, Usable, RefreshAnswered, Works,
         RefreshUnanswered, PersistForRestore, PersistTokens, Doubt, Retry
<1>4. CASE GetAccessToken \/ RefreshForCall \/ PersistForCall
  BY <1>4 DEF SessionInv, TypeOK, Stage, LiveWorks, StartsClean, GetAccessToken, LoadCachedTokens, Usable,
         RefreshForCall, Works, PersistForCall, PersistTokens
<1>5. ASSUME NEW why \in {"asked", "idle", "deadline"}, BeginLogout(why) PROVE LiveWorks'
  BY <1>5 DEF SessionInv, TypeOK, Stage, LiveWorks, StartsClean, BeginLogout
<1>6. CASE ClearTables \/ ClearCachedTokens
  BY <1>6 DEF SessionInv, TypeOK, Stage, LiveWorks, StartsClean, ClearTables, ClearCachedTokens
<1>7. CASE Leave \/ Reload \/ SignIn
  BY <1>7 DEF SessionInv, TypeOK, Stage, LiveWorks, StartsClean, Leave, NewPage, NoLogout, Reload, SignIn
<1>8. CASE EndElsewhere \/ Expire \/ UNCHANGED vars
  BY <1>8 DEF SessionInv, TypeOK, Stage, LiveWorks, StartsClean, EndElsewhere, Expire, vars
<1> QED
  BY <1>1, <1>2, <1>3, <1>4, <1>5, <1>6, <1>7, <1>8 DEF Next, AskLogout, IdleLogout, DeadlineLogout

\* Whatever ends an attempt also ends the offline mode, logs out or sets a timer.
LEMMA WatchedStep == SessionInv /\ [Next]_vars => Watched'
<1> SUFFICES ASSUME SessionInv, [Next]_vars PROVE Watched'
  OBVIOUS
<1>1. CASE LoadAtStart \/ InitAnswers \/ RefreshAtStart
  BY <1>1 DEF SessionInv, TypeOK, Stage, Watched, InitComesFirst, StartsClean, Persists, SignedInByAnother,
         SignsIn, LiveWorks, LoadAtStart, LoadCachedTokens, Usable, Ready, InitAnswers, PersistTokens,
         FallBack, Works, RefreshAtStart
<1>2. CASE GoOnline \/ GoOffline
  BY <1>2 DEF SessionInv, TypeOK, Stage, Watched, InitComesFirst, StartsClean, Persists, SignedInByAnother,
         SignsIn, LiveWorks, GoOnline, Unscheduled, Cancelled, GoOffline
<1>3. ASSUME NEW a \in Attempts, ProbeAnswered(a) PROVE Watched'
  BY <1>3 DEF SessionInv, TypeOK, Stage, Watched, InitComesFirst, StartsClean, Persists, SignedInByAnother,
         SignsIn, LiveWorks, ProbeAnswered, MoveTo, Report, LogsOut
<1>4. ASSUME NEW a \in Attempts, ProbeUnanswered(a) PROVE Watched'
  BY <1>4 DEF SessionInv, TypeOK, Stage, Watched, InitComesFirst, StartsClean, Persists, SignedInByAnother,
         SignsIn, LiveWorks, ProbeUnanswered, Report, LogsOut
<1>5. ASSUME NEW a \in Attempts, LoadForRestore(a) PROVE Watched'
  BY <1>5 DEF SessionInv, TypeOK, Stage, Watched, InitComesFirst, StartsClean, Persists, SignedInByAnother,
         SignsIn, LiveWorks, LoadForRestore, LoadCachedTokens, Usable, MoveTo, Report, LogsOut
<1>6. ASSUME NEW a \in Attempts,
             RefreshAnswered(a) \/ RefreshUnanswered(a) \/ Retry(a)
      PROVE  Watched'
  BY <1>6 DEF SessionInv, TypeOK, Stage, Watched, InitComesFirst, StartsClean, Persists, SignedInByAnother,
         SignsIn, LiveWorks, RefreshAnswered, MoveTo, Works, RefreshUnanswered, Retry
<1>7. ASSUME NEW a \in Attempts, PersistForRestore(a) PROVE Watched'
  BY <1>7 DEF SessionInv, TypeOK, Stage, Watched, InitComesFirst, StartsClean, Persists, SignedInByAnother,
         SignsIn, LiveWorks, PersistForRestore, PersistTokens, Report, LogsOut
<1>8. ASSUME NEW a \in Attempts, Doubt(a) PROVE Watched'
  BY <1>8 DEF SessionInv, TypeOK, Stage, Watched, InitComesFirst, StartsClean, Persists, SignedInByAnother,
         SignsIn, LiveWorks, Doubt, Report, LogsOut
<1>9. CASE GetAccessToken \/ RefreshForCall \/ PersistForCall
  BY <1>9 DEF SessionInv, TypeOK, Stage, Watched, InitComesFirst, StartsClean, Persists, SignedInByAnother,
         SignsIn, LiveWorks, GetAccessToken, LoadCachedTokens, Usable, RefreshForCall, Works,
         PersistForCall, PersistTokens
<1>10. ASSUME NEW why \in {"asked", "idle", "deadline"}, BeginLogout(why) PROVE Watched'
  BY <1>10 DEF SessionInv, TypeOK, Stage, Watched, InitComesFirst, StartsClean, Persists,
         SignedInByAnother, SignsIn, LiveWorks, BeginLogout
<1>11. CASE ClearTables \/ ClearCachedTokens
  BY <1>11 DEF SessionInv, TypeOK, Stage, Watched, InitComesFirst, StartsClean, Persists,
         SignedInByAnother, SignsIn, LiveWorks, ClearTables, ClearCachedTokens
<1>12. CASE Leave \/ Reload \/ SignIn
  BY <1>12 DEF SessionInv, TypeOK, Stage, Watched, InitComesFirst, StartsClean, Persists,
         SignedInByAnother, SignsIn, LiveWorks, Leave, NewPage, NoLogout, Reload, SignIn
<1>13. CASE EndElsewhere \/ Expire \/ UNCHANGED vars
  BY <1>13 DEF SessionInv, TypeOK, Stage, Watched, InitComesFirst, StartsClean, Persists,
         SignedInByAnother, SignsIn, LiveWorks, EndElsewhere, Expire, vars
<1> QED
  BY <1>1, <1>2, <1>3, <1>4, <1>5, <1>6, <1>7, <1>8, <1>9, <1>10, <1>11, <1>12, <1>13 DEF Next, AskLogout, IdleLogout, DeadlineLogout

\* After a logout that Keycloak carried out, every way to sign in is closed.
LEMMA NothingLeftStep == SessionInv /\ [Next]_vars => NothingLeft'
<1> SUFFICES ASSUME SessionInv, [Next]_vars PROVE NothingLeft'
  OBVIOUS
<1>1. CASE LoadAtStart
  BY <1>1 DEF SessionInv, TypeOK, Stage, NothingLeft, Writing, StartsClean, InitComesFirst, NoLogout,
         LoadAtStart, LoadCachedTokens, Usable, Ready
<1>2. CASE InitAnswers
  BY <1>2 DEF SessionInv, TypeOK, Stage, NothingLeft, Writing, StartsClean, InitComesFirst, NoLogout,
         InitAnswers, PersistTokens, FallBack, Ready, Works
<1>3. CASE RefreshAtStart
  BY <1>3 DEF SessionInv, TypeOK, Stage, NothingLeft, Writing, StartsClean, InitComesFirst, NoLogout,
         RefreshAtStart, PersistTokens, Ready, Works
<1>4. CASE GoOnline \/ GoOffline
  BY <1>4 DEF SessionInv, TypeOK, Stage, NothingLeft, Writing, StartsClean, InitComesFirst, NoLogout,
         GoOnline, Unscheduled, Cancelled, GoOffline
<1>5. ASSUME NEW a \in Attempts,
             ProbeAnswered(a) \/ ProbeUnanswered(a) \/ LoadForRestore(a) \/ RefreshAnswered(a)
             \/ RefreshUnanswered(a) \/ PersistForRestore(a) \/ Doubt(a) \/ Retry(a)
      PROVE  NothingLeft'
  BY <1>5 DEF SessionInv, TypeOK, Stage, NothingLeft, Writing, StartsClean, InitComesFirst, NoLogout,
         ProbeAnswered, MoveTo, Report, LogsOut, ProbeUnanswered, LoadForRestore, LoadCachedTokens, Usable,
         RefreshAnswered, Works, RefreshUnanswered, PersistForRestore, PersistTokens, Doubt, Retry
<1>6. CASE GetAccessToken \/ RefreshForCall \/ PersistForCall
  BY <1>6 DEF SessionInv, TypeOK, Stage, NothingLeft, Writing, StartsClean, InitComesFirst, NoLogout,
         GetAccessToken, LoadCachedTokens, Usable, RefreshForCall, Works, PersistForCall, PersistTokens
<1>7. ASSUME NEW why \in {"asked", "idle", "deadline"}, BeginLogout(why) PROVE NothingLeft'
  BY <1>7 DEF SessionInv, TypeOK, Stage, NothingLeft, Writing, StartsClean, InitComesFirst, NoLogout,
         BeginLogout
<1>8. CASE ClearTables \/ ClearCachedTokens
  BY <1>8 DEF SessionInv, TypeOK, Stage, NothingLeft, Writing, StartsClean, InitComesFirst, NoLogout,
         ClearTables, ClearCachedTokens
<1>9. CASE Leave
  BY <1>9 DEF SessionInv, TypeOK, Stage, NothingLeft, Writing, StartsClean, InitComesFirst, NoLogout,
         Leave, NewPage
<1>10. CASE Reload
  BY <1>10 DEF SessionInv, TypeOK, Stage, NothingLeft, Writing, StartsClean, InitComesFirst, NoLogout,
         Reload, NewPage
<1>11. CASE SignIn
  BY <1>11 DEF SessionInv, TypeOK, Stage, NothingLeft, Writing, StartsClean, InitComesFirst, NoLogout,
         SignIn, NewPage
<1>12. CASE EndElsewhere \/ Expire \/ UNCHANGED vars
  BY <1>12 DEF SessionInv, TypeOK, Stage, NothingLeft, Writing, StartsClean, InitComesFirst, NoLogout,
         EndElsewhere, Expire, vars
<1> QED
  BY <1>1, <1>2, <1>3, <1>4, <1>5, <1>6, <1>7, <1>8, <1>9, <1>10, <1>11, <1>12 DEF Next, AskLogout, IdleLogout, DeadlineLogout

-----------------------------------------------------------------------------
(* The theorems. *)

\* Every variable keeps its type.
THEOREM SessionTypes == Spec => []TypeOK
<1>1. Init => TypeOK
  BY InitType
<1>2. TypeOK /\ [Next]_vars => TypeOK'
  BY NextType
<1> QED
  BY <1>1, <1>2, PTL DEF Spec

\* The inductive invariant holds, whatever the network, Keycloak and the user do.
THEOREM SessionInvariant == Spec => []SessionInv
<1>1. Init => SessionInv
  <2> SUFFICES ASSUME Init PROVE SessionInv
    OBVIOUS
  <2>1. TypeOK
    BY InitType
  <2>2. OneLiveRestore /\ StartsClean /\ InitComesFirst /\ LiveWorks /\ Watched /\ NothingLeft
    BY DEF Init, OneLiveRestore, StartsClean, InitComesFirst, LiveWorks, Watched, NothingLeft
  <2>3. SignedInByAnother
    BY DEF Init, SignedInByAnother
  <2> QED
    BY <2>1, <2>2, <2>3 DEF SessionInv
<1>2. SessionInv /\ [Next]_vars => SessionInv'
  <2> SUFFICES ASSUME SessionInv, [Next]_vars PROVE SessionInv'
    OBVIOUS
  <2>1. TypeOK'
    BY NextType DEF SessionInv
  <2>2. OneLiveRestore' /\ StartsClean' /\ InitComesFirst' /\ SignedInByAnother'
    BY OneLiveRestoreStep, StartsCleanStep, InitComesFirstStep, SignedInByAnotherStep
  <2>3. LiveWorks' /\ Watched' /\ NothingLeft'
    BY LiveWorksStep, WatchedStep, NothingLeftStep
  <2> QED
    BY <2>1, <2>2, <2>3 DEF SessionInv
<1> QED
  BY <1>1, <1>2, PTL DEF Spec

\* Of overlapping attempts to restore the session at most one is acted upon: handleOnline and
\* handleOffline cancel what is under way.
THEOREM RestoresOneAtATime == Spec => []OneLiveRestore
<1>1. SessionInv => OneLiveRestore
  BY DEF SessionInv
<1> QED
  BY <1>1, SessionInvariant, PTL

\* A page in offline mode that is online again has an attempt under way or a timer set, unless
\* only a reload can help or it is logging out (keepRestoringSession).
THEOREM OfflineModeAttended == Spec => []OfflineAttended
<1>1. SessionInv => OfflineAttended
  BY DEF SessionInv, OfflineAttended, Watched, LiveWorks, Persists, TypeOK
<1> QED
  BY <1>1, SessionInvariant, PTL

\* After a logout that Keycloak carried out nobody is signed in again without the password.
THEOREM LogoutIsFinal == Spec => []NoSilentReturn
<1>1. SessionInv => NoSilentReturn
  BY DEF SessionInv, NoSilentReturn, NothingLeft
<1> QED
  BY <1>1, SessionInvariant, PTL

=============================================================================
