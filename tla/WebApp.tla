------------------------------- MODULE WebApp -------------------------------
(***************************************************************************)
(* A tab of the web client with an account: the router and its guards, the *)
(* store, the hooks of every page that signs somebody in or out, the cookie*)
(* jar of the browser, and the handlers of the user service.  A refresh    *)
(* takes a step for each of its queries, so that others come in between;   *)
(* the other handlers take one (AuthSessions, TokenVersion and ApiClient   *)
(* have what goes on inside the service and the interceptor).              *)
(*                                                                         *)
(* Requests, answers, reloads and the expiry of the access cookie come in  *)
(* any order; a request the tab gave up on may still reach the service.    *)
(* One request of a kind at a time.                                        *)
(***************************************************************************)
EXTENDS HttpSurface, Integers, FiniteSets, FiniteSetsExt

CONSTANTS
  Accounts,     \* the accounts
  Unverified,   \* the ones whose address is not verified
  None,         \* nobody, no cookies
  MaxPairs,     \* bound on the token pairs issued,
  MaxCalls,     \* on the requests in flight, awaited or not,
  MaxTroubles   \* and on reloads, lost answers and queries that throw

ASSUME AccountsAssumption == Unverified \subseteq Accounts /\ None \notin Accounts
ASSUME LimitsAssumption ==
  MaxPairs \in Nat /\ MaxCalls \in Nat /\ MaxTroubles \in Nat

VARIABLES
  account,   \* users and user_sessions
  jar,       \* the cookies of the browser
  tab,       \* path, and store
  call,      \* the requests of the tab
  orphans,   \* requests whose answer nobody awaits
  history,   \* what the properties tell apart (history only)
  troubles   \* reloads, lost answers and throwing queries so far

vars == <<account, jar, tab, call, orphans, history, troubles>>

Kinds == {"hydrate", "login", "logout", "me", "update", "delete", "confirm", "refresh"}
AppPaths == {"dashboard", "account", "security"}
PublicPaths == {"login", "restore"}
Paths == AppPaths \cup PublicPaths \cup {"verify"}

(* Cookies: whose, the token version in the access token, the refresh token*)
(* and whether the access cookie is still there.                           *)
Jar(a, v, n) == [who |-> a, version |-> v, serial |-> n, fresh |-> TRUE]
Jars == [who : Accounts, version : Nat, serial : Nat, fresh : BOOLEAN]
Owner(j) == IF j = None THEN None ELSE j.who

ASSUME NoneAssumption == None \notin Jars

Issuing == {"login", "confirm", "refresh"}
Revoking == {"logout", "delete", "confirm"}

Clash(k, l) == (k \in Revoking /\ l \in Issuing) \/ (k \in Issuing /\ l \in Revoking)

(* late: in flight when the cookies changed hands (history only). *)
Idle == [at |-> "idle", who |-> None, jar |-> None, status |-> 0, retried |-> FALSE, late |-> FALSE]
Request(a, j) == [Idle EXCEPT !.at = "sent", !.who = a, !.jar = j]
Pending == {k \in Kinds : call[k].at # "idle"}
Sent(k) == call[k].at = "sent"

(* After which query a refresh is: found its session, revoked it, read the *)
(* account and signed the next pair.                                       *)
Rotating == {"found", "rotated", "signed"}
AtServer(k) == call[k].at \in {"sent"} \cup Rotating

(* ProtectedRoute and PublicRoute, for a page of the router. *)
Guarded(t) ==
  LET there == IF ~t.hydrated \/ t.path \notin AppPaths \cup PublicPaths THEN t.path
               ELSE IF t.user = None THEN IF t.path \in AppPaths THEN "login" ELSE t.path
               ELSE IF t.user \in Unverified THEN "verify"
               ELSE IF t.path \in PublicPaths THEN "dashboard" ELSE t.path
  IN [t EXCEPT !.path = there]

SetUser(t, a) == [t EXCEPT !.user = a, !.hydrated = TRUE]
ClearAuth(t) == [t EXCEPT !.user = None]
SetHydrated(t) == [t EXCEPT !.hydrated = TRUE]
Navigate(t, p) == [t EXCEPT !.path = p]

(* The document is loaded at path p: App hydrates the store. *)
Loading(p) == [path |-> p, user |-> None, hydrated |-> FALSE]
Hydrating(j) == [k \in Kinds |-> IF k = "hydrate" THEN Request(Owner(j), j) ELSE Idle]

Init ==
  /\ account = [a \in Accounts |-> [deleted |-> FALSE, version |-> 0, issued |-> 0, live |-> {}, recent |-> {}]]
  /\ jar = None
  /\ tab = Loading("login")
  /\ call = Hydrating(None)
  /\ orphans = {}
  /\ history = [left |-> FALSE, crossed |-> FALSE, over |-> FALSE, straddled |-> FALSE,
                overlap |-> FALSE, lost |-> FALSE, broken |-> FALSE]
  /\ troubles = 0

-----------------------------------------------------------------------------
(* The person *)
Room == Cardinality(Pending) + Cardinality(orphans) < MaxCalls

(* A sign-in names its account, and its handler reads no cookie. *)
Named == {"login", "confirm"}
Presented(k) == IF k \in Named THEN None ELSE jar
Send(k, a) == call[k] = Idle /\ Room /\ call' = [call EXCEPT ![k] = Request(a, Presented(k))]

(* A link.  useUser asks for the profile when the cached one is stale. *)
Visit(p) ==
  /\ tab.hydrated /\ p # tab.path
  /\ \/ p \in AppPaths /\ tab.path \in AppPaths
     \/ p \in PublicPaths /\ tab.path \in PublicPaths
  /\ tab' = Guarded(Navigate(tab, p))
  /\ \/ UNCHANGED call
     \/ tab'.path = "account" /\ Send("me", Owner(jar))
  /\ UNCHANGED <<account, jar, orphans, history, troubles>>

(* A button of a page, that sends a request for account a. *)
Submit(k, a) ==
  /\ tab.hydrated /\ Send(k, a)
  /\ history' = [history EXCEPT !.overlap = @ \/ \E l \in Pending : Clash(k, l)]
  /\ UNCHANGED <<account, jar, tab, orphans, troubles>>

Login(a) == tab.path = "login" /\ Submit("login", a)
Logout == tab.path \in AppPaths /\ Submit("logout", Owner(jar))
UpdateProfile == tab.path = "account" /\ Submit("update", Owner(jar))
DeleteAccount == tab.path = "security" /\ Submit("delete", Owner(jar))
handleConfirm(a) == tab.path = "restore" /\ Submit("confirm", a)

(* Nobody awaits the requests ks any more.  The ones that change nothing   *)
(* here (the name of an account is left out) need not be followed.         *)
Changing == Issuing \cup Revoking
Orphaned(ks) ==
  orphans \cup {[kind |-> k, at |-> call[k].at, who |-> call[k].who, jar |-> call[k].jar] :
                  k \in {l \in ks \cap Changing : AtServer(l)}}
Losing(ks) == history.lost \/ Pending \cap ks \cap Changing # {}

(* F5, or the address of the dashboard typed. *)
Reload(p) ==
  /\ p \in {tab.path, "dashboard"} /\ troubles < MaxTroubles
  /\ troubles' = troubles + 1
  /\ tab' = Loading(p) /\ call' = Hydrating(jar)
  /\ orphans' = Orphaned(Kinds)
  /\ history' = [history EXCEPT !.left = @ /\ ~history.crossed, !.crossed = FALSE, !.over = FALSE,
                                !.straddled = FALSE, !.lost = Losing(Kinds)]
  /\ UNCHANGED <<account, jar>>

(* The access cookie lives 15 minutes, the other two for days; the second  *)
(* of what was signed before it expires is over.                           *)
Expire ==
  /\ jar # None /\ jar.fresh
  /\ jar' = [jar EXCEPT !.fresh = FALSE]
  /\ account' = [a \in Accounts |-> [account[a] EXCEPT !.recent = {}]]
  /\ UNCHANGED <<tab, call, orphans, history, troubles>>

-----------------------------------------------------------------------------
(* The service: what a handler, or the next query of a refresh, makes of   *)
(* the row and the sessions r of the account, how far it is then, and with *)
(* which cookies and which status it answers.                              *)
Outcome(r, at, j, s) == [row |-> r, at |-> at, jar |-> j, status |-> s]
Answer(r, s) == Outcome(r, "answered", None, s)
Bumped(r) == [r EXCEPT !.version = @ + 1, !.live = {}]

(* A token is its account, its version and the second: where one like it   *)
(* was stored in what may be the same second, the insert may be refused.   *)
Issued(r, v) == [r EXCEPT !.issued = @ + 1, !.live = @ \cup {r.issued + 1}, !.recent = @ \cup {v}]
Paired(r, a, v) == Outcome(Issued(r, v), "answered", Jar(a, v, r.issued + 1), 200)
Inserts(r, a, v) == {Paired(r, a, v)} \cup IF v \in r.recent THEN {Answer(r, 500)} ELSE {}

login(r, a) == IF r.deleted THEN {Answer(r, 403)} ELSE Inserts(r, a, r.version)
logout(r) == {Answer([r EXCEPT !.live = {}], 200)}
getMe(r) == {Answer(r, IF r.deleted THEN 410 ELSE 200)}
updateMe(r) == {Answer(r, 200)}
deleteMe(r) == {Answer([Bumped(r) EXCEPT !.deleted = TRUE], 200)}
confirmRestore(r, a) == {Paired([Bumped(r) EXCEPT !.deleted = FALSE], a, r.version + 1)}

refreshFind(r, c) ==
  {IF c.jar.serial \in r.live THEN Outcome(r, "found", c.jar, 0) ELSE Answer(Bumped(r), 401)}
refreshRevoke(r, c) == {Outcome([r EXCEPT !.live = @ \ {c.jar.serial}], "rotated", c.jar, 0)}
refreshSign(r, c) ==
  {IF r.deleted THEN Answer(r, 401) ELSE Outcome(r, "signed", Jar(c.who, r.version, 0), 0)}
refreshInsert(r, c) == Inserts(r, c.who, c.jar.version)

refresh(r, c) ==
  CASE c.at = "sent" -> refreshFind(r, c)
    [] c.at = "found" -> refreshRevoke(r, c)
    [] c.at = "rotated" -> refreshSign(r, c)
    [] c.at = "signed" -> refreshInsert(r, c)

Handled(k, r, c) ==
  CASE k = "login" -> login(r, c.who)
    [] k = "logout" -> logout(r)
    [] k \in {"me", "hydrate"} -> getMe(r)
    [] k = "update" -> updateMe(r)
    [] k = "delete" -> deleteMe(r)
    [] k = "confirm" -> confirmRestore(r, c.who)
    [] k = "refresh" -> refresh(r, c)

(* authenticate *)
Authentic(j) == j # None /\ j.fresh /\ j.version = account[j.who].version

RouteOf(k) == IF k = "hydrate" THEN "me" ELSE k
Passes(k, c, refusing) == c.at \in Rotating \/ Reached(RouteOf(k), c.jar # None, Authentic(c.jar), refusing)

(* The client tells 200, 401 and the other errors apart. *)
Seen(status) == IF status \in {0, 200, 401} THEN status ELSE 400

(* What may come of request c, of kind k: the refusal of a middleware, or  *)
(* what the handler makes of it.                                           *)
Row(a) == IF a = None THEN None ELSE account[a]
Refused(k, c, refusing) == Answer(Row(c.who), Refusal(RouteOf(k), c.jar # None, Authentic(c.jar), refusing))
Outcomes(k, c, refusing) ==
  IF Passes(k, c, refusing) THEN Handled(k, account[c.who], c) ELSE {Refused(k, c, refusing)}
Stored(c, out) == account' = [a \in Accounts |-> IF a = c.who THEN out.row ELSE account[a]]

(* The bound: a pair is stored only while there is one left. *)
RoomForPair(out) ==
  out.status = 200 /\ out.jar # None => MapThenSumSet(LAMBDA a : account[a].issued, Accounts) < MaxPairs

(* The sessions of an account are revoked while a refresh of it by the tab *)
(* is past its lookup.                                                     *)
Straddles(k, c, out) ==
  k \in Revoking /\ out.status = 200 /\ call["refresh"].at \in Rotating /\ call["refresh"].who = c.who

(* A refresh has revoked the session it found and ends without another.    *)
Breaks(c, status) == c.at \in {"rotated", "signed"} /\ status \notin {0, 200}

(* A schema or a limiter may refuse what does not pass by then. *)
Take(k) ==
  /\ AtServer(k)
  /\ \E refusing \in {{}, {"body"}, {"global"}} :
       /\ refusing # {} => ~Passes(k, call[k], refusing)
       /\ \E out \in Outcomes(k, call[k], refusing) :
            /\ RoomForPair(out) /\ Stored(call[k], out)
            /\ call' = [call EXCEPT ![k] = [@ EXCEPT !.at = out.at, !.status = Seen(out.status), !.jar = out.jar]]
            /\ history' = [history EXCEPT !.straddled = @ \/ Straddles(k, call[k], out),
                                          !.broken = @ \/ Breaks(call[k], out.status)]
  /\ UNCHANGED <<jar, tab, orphans, troubles>>

(* A query of a refresh throws.  (Of the other handlers, what throws before*)
(* it changed anything is like a refusal.)                                 *)
Throw ==
  /\ call["refresh"].at \in Rotating /\ troubles < MaxTroubles
  /\ troubles' = troubles + 1
  /\ call' = [call EXCEPT !["refresh"] = [@ EXCEPT !.at = "answered", !.status = Seen(500), !.jar = None]]
  /\ history' = [history EXCEPT !.broken = @ \/ Breaks(call["refresh"], 500)]
  /\ UNCHANGED <<account, jar, tab, orphans>>

(* Nobody hears what becomes of an orphan; one that stops has thrown.      *)
TakeOrphan(o) ==
  /\ \E out \in Outcomes(o.kind, o, {}) :
       /\ RoomForPair(out) /\ Stored(o, out)
       /\ orphans' = (orphans \ {o}) \cup IF out.at \in Rotating THEN {[o EXCEPT !.at = out.at, !.jar = out.jar]} ELSE {}
       /\ history' = [history EXCEPT !.straddled = @ \/ Straddles(o.kind, o, out)]
  /\ UNCHANGED <<jar, tab, call, troubles>>

-----------------------------------------------------------------------------
(* The answers.  When the cookies change hands, what is in flight and sets *)
(* the store or the cookies becomes late; it crosses when it is heard.  A  *)
(* sign-in over a request that sets or clears cookies is not the last.     *)
Answered(k, s) == call[k].at = "answered" /\ call[k].status = s
Crossed(k) == history.crossed \/ call[k].late
Heard(k) == [call EXCEPT ![k] = Idle]
Telling == {"hydrate", "me", "update", "refresh"}
Overtaken(k) == [l \in Kinds |-> IF l = k THEN Idle
                                 ELSE IF l \in Telling \cap Pending THEN [call[l] EXCEPT !.late = TRUE]
                                 ELSE call[l]]
Unsettling == {"logout", "delete", "refresh"}
SignedIn == [history EXCEPT !.left = FALSE, !.crossed = FALSE, !.straddled = FALSE,
                            !.over = Pending \cap Unsettling # {}]
SignedOut == [history EXCEPT !.left = TRUE, !.crossed = FALSE]

(* Mutant: confirmRestore of the controller sets no cookies. *)
OnSignedInWithoutCookies(k) ==
  /\ k \in {"login", "confirm"} /\ Answered(k, 200)
  /\ jar' = IF k = "login" THEN call[k].jar ELSE jar
  /\ tab' = Guarded(Navigate(SetUser(tab, call[k].who), "dashboard"))
  /\ call' = Overtaken(k)
  /\ history' = SignedIn
  /\ UNCHANGED <<account, orphans, troubles>>

(* useLogin and useConfirmRestore, after setAuthCookies *)
OnSignedIn(k) ==
  /\ k \in {"login", "confirm"} /\ Answered(k, 200)
  /\ jar' = call[k].jar
  /\ tab' = Guarded(Navigate(SetUser(tab, call[k].who), "dashboard"))
  /\ call' = Overtaken(k)
  /\ history' = SignedIn
  /\ UNCHANGED <<account, orphans, troubles>>

(* hydrate, useUser and useUpdateProfile *)
OnProfile(k) ==
  /\ k \in {"hydrate", "me", "update"} /\ Answered(k, 200)
  /\ tab' = Guarded(SetUser(tab, call[k].who))
  /\ call' = Heard(k)
  /\ history' = [history EXCEPT !.crossed = Crossed(k)]
  /\ UNCHANGED <<account, jar, orphans, troubles>>

(* Mutant: the controller clears no cookies. *)
OnLogoutKeepsCookies ==
  /\ Answered("logout", 200)
  /\ tab' = Guarded(Navigate(ClearAuth(tab), "login"))
  /\ call' = Overtaken("logout")
  /\ history' = SignedOut
  /\ UNCHANGED <<account, jar, orphans, troubles>>

(* useLogout, after clearAuthCookies *)
OnLogout ==
  /\ Answered("logout", 200)
  /\ jar' = None
  /\ tab' = Guarded(Navigate(ClearAuth(tab), "login"))
  /\ call' = Overtaken("logout")
  /\ history' = SignedOut
  /\ UNCHANGED <<account, orphans, troubles>>

(* Mutant: it navigates, as useLogout does. *)
OnDeletedNavigates ==
  /\ Answered("delete", 200)
  /\ jar' = None
  /\ tab' = Guarded(Navigate(ClearAuth(tab), "login")) /\ call' = Overtaken("delete")
  /\ history' = SignedOut
  /\ UNCHANGED <<account, orphans, troubles>>

(* useDeleteAccount leaves by loading the login page. *)
OnDeleted ==
  /\ Answered("delete", 200)
  /\ jar' = None
  /\ tab' = Loading("login") /\ call' = Hydrating(None)
  /\ orphans' = Orphaned(Kinds)
  /\ history' = [SignedOut EXCEPT !.over = FALSE, !.straddled = FALSE, !.lost = Losing(Kinds \ {"delete"})]
  /\ UNCHANGED <<account, troubles>>

(* What the hooks make of an error. *)
OnError(t, k) ==
  CASE k = "logout" -> Navigate(ClearAuth(t), "login")
    [] k = "me" -> SetHydrated(ClearAuth(t))
    [] k = "hydrate" -> SetHydrated(t)
    [] OTHER -> t

Fails(k) ==
  /\ tab' = Guarded(OnError(tab, k))
  /\ call' = Heard(k)
  /\ UNCHANGED <<account, jar>>

Failed(k) ==
  /\ k # "refresh" /\ call[k].at = "answered" /\ call[k].status # 200
  /\ call[k].status = 401 => k \in {"hydrate", "login"} \/ call[k].retried
  /\ Fails(k)
  /\ UNCHANGED <<orphans, history, troubles>>

(* The tab stops waiting, or the network fails. *)
Timeout(k) ==
  /\ k # "refresh" /\ AtServer(k) /\ troubles < MaxTroubles
  /\ Fails(k)
  /\ orphans' = Orphaned({k})
  /\ history' = [history EXCEPT !.lost = Losing({k})]
  /\ troubles' = troubles + 1

(* The interceptor: a 401 waits for a refresh, and is sent again after it. *)
Unauthorized(k) ==
  /\ k \in {"logout", "me", "update", "delete"} /\ Answered(k, 401) /\ ~call[k].retried
  /\ LET first == call["refresh"] = Idle
     IN call' = [call EXCEPT ![k] = [Request(@.who, None) EXCEPT !.at = "waiting", !.retried = first],
                             !["refresh"] = IF first THEN Request(Owner(jar), jar) ELSE @]
  /\ history' = [history EXCEPT !.overlap = @ \/ \E l \in Pending : Clash("refresh", l) /\ (Sent(l) \/ Answered(l, 200))]
  /\ UNCHANGED <<account, jar, tab, orphans, troubles>>

Waiting == {k \in Kinds : call[k].at = "waiting"}

(* Mutant: the answer to the refresh sets no cookies. *)
OnRefreshedKeepsPair ==
  /\ Answered("refresh", 200)
  /\ jar' = IF jar = None THEN None ELSE [jar EXCEPT !.fresh = TRUE]
  /\ call' = [k \in Kinds |-> IF k = "refresh" THEN Idle
                              ELSE IF k \in Waiting THEN [Request(Owner(jar), jar) EXCEPT !.retried = call[k].retried]
                              ELSE call[k]]
  /\ history' = [history EXCEPT !.crossed = Crossed("refresh")]
  /\ UNCHANGED <<account, tab, orphans, troubles>>

OnRefreshed ==
  /\ Answered("refresh", 200)
  /\ jar' = call["refresh"].jar
  /\ call' = [k \in Kinds |-> IF k = "refresh" THEN Idle
                              ELSE IF k \in Waiting THEN [Request(Owner(jar'), jar') EXCEPT !.retried = call[k].retried]
                              ELSE call[k]]
  /\ history' = [history EXCEPT !.crossed = Crossed("refresh")]
  /\ UNCHANGED <<account, tab, orphans, troubles>>

(* Mutant: the queue is not rejected. *)
RefreshFailsAlone ==
  /\ tab' = Guarded(ClearAuth(tab))
  /\ call' = [call EXCEPT !["refresh"] = Idle]
  /\ UNCHANGED <<account, jar>>

(* Every request that waited fails with the refresh. *)
RefreshFails ==
  LET out == IF "me" \in Waiting THEN OnError(ClearAuth(tab), "me") ELSE ClearAuth(tab)
  IN /\ tab' = Guarded(IF "logout" \in Waiting THEN OnError(out, "logout") ELSE out)
     /\ call' = [k \in Kinds |-> IF k \in Waiting \cup {"refresh"} THEN Idle ELSE call[k]]
     /\ UNCHANGED <<account, jar>>

OnRefreshFailed ==
  \/ /\ call["refresh"].at = "answered" /\ call["refresh"].status # 200
     /\ RefreshFails
     /\ UNCHANGED <<orphans, history, troubles>>
  \/ /\ AtServer("refresh") /\ troubles < MaxTroubles
     /\ RefreshFails
     /\ orphans' = Orphaned({"refresh"})
     /\ history' = [history EXCEPT !.lost = TRUE]
     /\ troubles' = troubles + 1

-----------------------------------------------------------------------------
Person ==
  \/ \E p \in Paths : Visit(p) \/ Reload(p)
  \/ \E a \in Accounts : Login(a) \/ handleConfirm(a)
  \/ Logout \/ UpdateProfile \/ DeleteAccount

Hears(k) == OnSignedIn(k) \/ OnProfile(k) \/ Failed(k) \/ Timeout(k) \/ Unauthorized(k)

Next ==
  \/ Person \/ Expire
  \/ \E k \in Kinds : Take(k) \/ Hears(k)
  \/ OnLogout \/ OnDeleted \/ OnRefreshed \/ OnRefreshFailed \/ Throw
  \/ \E o \in orphans : TakeOrphan(o)

Spec == Init /\ [][Next]_vars

-----------------------------------------------------------------------------

TypeOK ==
  /\ tab.path \in Paths /\ tab.user \in Accounts \cup {None}
  /\ tab.user # None => tab.hydrated
  /\ "hydrate" \in Pending <=> ~tab.hydrated
  /\ Waiting # {} => call["refresh"].at # "idle"
  /\ \A a \in Accounts : account[a].live \subseteq 1..account[a].issued

(* The tab shows whoever its cookies act for, unless it has heard the      *)
(* answer to a request that was in flight when they changed hands.         *)
ShowsWhoItActsFor ==
  tab.user # None /\ jar # None => tab.user = jar.who \/ history.crossed

(* Cookies that get new ones, and that sign their owner in, on a reload or *)
(* with a refresh.                                                         *)
Renews(j) == j # None /\ j.serial \in account[j.who].live
Revives(j) == j # None /\ (Authentic(j) \/ Renews(j))

(* Once a logout or a deletion was answered nobody is shown and the cookies*)
(* sign nobody in, until the answer comes to a request that was in flight  *)
(* then.  That of a refresh brings cookies back that authenticate as long  *)
(* as an access token lives; they get new ones only if the sessions were   *)
(* revoked between its lookup and its insert, or if somebody signed in over*)
(* a logout or a refresh that was on its way.                              *)
SignedOutForGood ==
  history.left =>
    /\ tab.user # None \/ Revives(jar) => history.crossed
    /\ Renews(jar) => history.straddled \/ history.over

(* A deleted account is shown only until its deletion is answered. *)
DeletedIsLeft ==
  tab.user # None /\ account[tab.user].deleted => call["delete"].at # "idle" \/ history.lost

(* One tab raises the alarm of a stolen refresh token only if an answer was*)
(* lost, if a refresh failed after it had revoked its session, or if a     *)
(* logout, a deletion or a restore met a refresh on its way.               *)
Alarms == Sent("refresh") /\ call["refresh"].jar # None /\ call'["refresh"].at = "answered" /\ call'["refresh"].status = 401
NoFalseAlarm == [][Alarms => history.lost \/ history.broken \/ history.overlap]_vars
=============================================================================
