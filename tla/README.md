# Formal models of the remote compute platform

TLA+ models of the parts of the platform that have code and can go wrong: the **user
service** (`services/user-service`: sessions, addresses, one-time codes, mail jobs) and
the **web client** (`apps/web-client`: its request layer, its verification page, and the
tab as a whole over the service). TLC checks them on small instances; TLAPS proves every
safety property of the passing runs for every value of the constants. Paths below are relative
to the repository; `US` is `services/user-service/src`, `WEB` is `apps/web-client/src`.

```
tlc -workers 4 -config TokenVersion.cfg MCTokenVersion      # one run
tlapm TokenVersionProofs.tla                                # one proof module
```

## 1. Inventory

The repository is a monorepo. Booking, payment, notification, admin and session
service, the admin dashboard and `api-gateway/server.ts` are directories with empty
sources; the machine service is two repositories of single queries without callers.
The state of the system is in Postgres (users, sessions), Redis (the version cache,
the keys of the one-time codes, the mail queue), the browser (cookies) and the
JavaScript of each tab.

| Component | State | Operations | Interacts with | Models |
|---|---|---|---|---|
| Access-token revocation (`US/middlewares/authenticate.ts`, `US/cache/**`) | `users.tokenVersion`; one Redis key per user with a TTL | `authenticate`: GET, on a miss SELECT and SET, compare; `invalidateCachedTokenVersion`: SET after a bump | every authenticated request reads; deleteMe, confirmRestore and reuse detection bump | TokenVersion, BoundedRevocation |
| Sessions (`US/services/auth.service.ts`, `user.service.ts`, `US/repositories/**`) | `users.status`, `passwordHash`, `tokenVersion`, the restore code; `user_sessions` with token, family, validity | login, refresh (rotation, reuse detection), logout, deleteMe, requestRestore, confirmRestore | cookies of the browser; the version cache | AuthSessions; WebApp, from the outside |
| Email verification (`US/services/otp.service.ts`, `US/repositories/otp.repository.ts` and its Lua script) | `users.email`, `emailVerified`; Redis keys for code, attempts, cooldown, resends, address changes | register (first code), resendOtp, verifyEmail, updateUnverifiedEmail | mail queue; verification page | EmailVerification |
| Accounts and addresses (`auth.service.ts`, `user.repository.ts`, the partial unique index on `email`) | the users table across accounts | register, updateUnverifiedEmail, verifyEmail, login, requestRestore, confirmRestore, deleteMe as far as they look rows up by address | sessions, codes | Accounts, AddressBook |
| Mail jobs (`US/jobs/**`, `US/services/email.service.ts`, `US/app.ts`) | BullMQ queue in Redis, job ids, attempts | add, process, retry, stall, forget; bootstrap, shut down, die | one-time codes | EmailJobs |
| HTTP surface (`US/routes/**`, `US/middlewares/**`, `US/controllers/**`) | none of its own | the chain of middlewares of every route, error mapping, cookies set and cleared | every handler | HttpSurface, WebApp |
| Profile (`US/services/user.service.ts`) | the users row | getMe, updateMe, deleteMe | the auth store | WebApp, VerificationPage |
| Web client: requests (`WEB/lib/api-client.ts`, `WEB/store/auth-store.ts`, `WEB/App.tsx`, `WEB/hooks/**`, `WEB/components/route-guard.tsx`) | per tab `isRefreshing`, `failedQueue`, the auth store; per browser the cookies | the interceptor's refresh and queue, hydration, the hooks that sign in and out | refresh and logout of the server | ApiClient (several tabs), WebApp (one tab) |
| Web client: verification page (`WEB/pages/auth/verify-email.tsx`) | its countdown, digits and address | enter, submit, resend, change the address | email verification, hydration, guards | VerificationPage |
| Web client: other pages, router, layout | the path | login, logout, restore, profile and deletion buttons; links | the guards | WebApp |
| Audit log, login history | rows that nothing reads | | | not modelled |
| Gateway, machine service, themes, translations, shared types | configuration, queries without callers, presentation | | | not modelled |

What makes it hard: no handler runs in a transaction, so requests interleave at every
`await`; check-then-act pairs are everywhere; Redis errors are swallowed in one place
and thrown in another; a process may die between two commands, and nothing repairs what
it left; the browser shares cookies between tabs that do not share JavaScript; answers
are lost, and a refresh token may be presented only once. What has to be true of each
component in spite of that is in section 3. `PROJECT.json` lists the hazards one by one,
at their lines, with the properties that cover them.

## 2. The modules

| Module | What it is |
|---|---|
| `BoundedRevocation` | the abstract promise of revocation: a superseded version is honoured only within `Window` ticks |
| `TokenVersion`, `TokenVersionProofs` | the cache-aside mechanism that implements it; its invariants and the refinement, proved |
| `AuthSessions`, `AuthSessionsProofs` | login, refresh, logout, deletion and restore over the two tables, query by query; its properties, proved |
| `EmailVerification`, `EmailVerificationProofs` | the one-time codes of one account, command by command; its invariants, proved |
| `AddressBook` | the abstract promise about addresses: accounts in use stand under one address each, and no two under the same |
| `Accounts`, `AccountsProofs` | the users table with several rows and its partial unique index, query by query; implements `AddressBook`; its properties and the refinement, proved |
| `EmailJobs`, `EmailJobsProofs` | the mail queue, the worker and the life of the process; its invariants, proved |
| `ApiClient`, `ApiClientProofs` | the interceptor, the auth store and the cookies of one browser, with several tabs; its invariants, proved |
| `VerificationPage`, `VerificationPageProofs` | the verification page with its hooks, over the handlers it calls; its invariants, proved |
| `HttpSurface` | which middleware of a route answers first, and with which status (no state; used by `WebApp`) |
| `WebApp`, `WebAppProofs` | composition: one tab with router, store, hooks and interceptor, the cookie jar, `HttpSurface`, a refresh query by query and the other handlers of the service as one step each; its properties, proved |
| `MC*` | instances for TLC: model values, small sets, symmetry |

`WebApp` is where the parts meet: it lets requests, answers, reloads and expiry come in
any order. A refresh, whose queries others come between, takes a step for each of them;
the other handlers take one, because AuthSessions, TokenVersion and ApiClient have what
goes on inside. `VerificationPage` does the same for the
page and the handlers of EmailVerification.

**Common conventions.** A request is a slot with a record: `at` names the await it
stands at, the other fields are the local variables it still needs. One action is what
the code does between two awaits. `Abort` (`RefreshFails`, `CallFails` in the client)
is a query that throws, or the end of the process: what was written stays. `Failures`
switches these on. A definition marked as a mutant in its comment is not part of the
specification: it is a plausible wrong version of the definition after it, kept to show
that the properties notice the difference.

**TokenVersion.** `cached[u]` is the Redis key of a user, with its remaining time to
live; `tokenVersion[u]` is the column. `CacheHit`, `CacheMiss`, `ReadVersion`,
`FillCache` and `Finish` are `authenticate`; `BumpTokenVersion` and `WriteThrough` are
the bump and `invalidateCachedTokenVersion`. `CacheSet` may do nothing, and a GET may
answer that there is nothing, because `CacheService` swallows errors. Tokens are the
versions they carry. Time is counted in ticks, and a round trip to Redis or Postgres
takes at most `Latency` of them: without such a bound a fill could overwrite a newer
version after any time at all, and no bound on staleness would hold.

**AuthSessions.** A refresh token is (account, version, second), since the JWT has no
`jti` and is dated in whole seconds; `session` is the table by token, since the hash is
unique. A login, refresh, deletion and restore is cut at each query. What reads and
writes nothing another request can change (audit, login history, mapping) is left out.
The cache is the subject of TokenVersion: here a caller of an authenticated endpoint
holds some token of the account.

**EmailVerification.** One account, because every key has the user's id in it. The Lua
script is one step (`VerifyLocked`, `VerifyExpired`, `VerifyMatch`, `VerifyWrong`); every
other Redis command and every query is a step of its own. INCR and EXPIRE are two steps;
`endless` holds the counters that have no expiry yet. Codes are numbered; a code is
entered by someone it was mailed to, or is a wrong guess (0). `verifyEmail` looks the
account up by `dto.email`, which the schema has stripped from the body, so that Prisma
returns an arbitrary row: `VerifyFind` therefore does not depend on this account being
unverified. `changed` counts the changes of the address in the window of the counter,
`uncounted` those among them whose request died between the UPDATE and the INCR (history
only); the counter itself, `changes`, knows nothing of the latter.

**ApiClient.** Tokens are numbered as the server issues them, and stand for the access
and the refresh cookie that are set together. The server is cut down to what an answer
depends on; rotation is two steps, reuse detection one. One action of a tab is one
JavaScript task. `ImportYields` says whether `import('@/store/auth-store')`, which the
interceptor awaits after a failed refresh, is resolved in a task of its own (a module
that the development server serves separately) or before the next task (a module that
the bundler has put in the same chunk).

**Accounts.** `row` is the table; `deletedAt` is folded into the status, `grace` is
whether `gracePeriodEnd` is set and ahead, `code` whether an unused restore code is
stored that has not expired. `findFirst` has no order, so a lookup gives any row that
matches. `IndexAllows` is the index of the migration 20260419020055. `verifyEmail` looks
the account up without an address, as above: here any registered row decides. Whether a
code or a password is right is a choice; EmailVerification and AuthSessions decide it.
`overlapped` and `late` are history: the addresses that two requests found free at once,
and whether an account was verified since the request that changes its address began.

**EmailJobs.** A job is an address and a code, since that is the id the queue gives it;
`made` and `stalls` are BullMQ's `attemptsMade` and `stalledCounter`. `delivered` is the
mail server having the mail and the worker not yet having told Redis. `job` is in Redis
and outlives the process; `hand`, the jobs the worker is working on, is its memory and is
gone when the process `Ends`, by an exit or a kill alike. What is active in Redis and in
nobody's hand is `Orphaned`, and the stalled check of a later worker finds it.
`gracefulShutdown` is `Signal`, `CloseWorker`, `Exit`: that the closing worker waits for
`hand` to be empty is the one thing that keeps a shutdown from leaving orphans; nothing
waits for the requests. The limit of ten jobs a second only delays jobs and is left out.

**VerificationPage.** It starts where `useRegister` has navigated to the page. `ears`
says what still listens to an answer: the page and the hooks, the hooks alone (the page
is unmounted, and with it the callbacks given to `mutate`), or nothing. The user that the
hooks of the last page saw is `closure`: `onSuccess` spreads it over the store.
`Guarded` is what ProtectedRoute, PublicRoute and the effect that copies the address make
of a change of the store. `AtServer` are the places inside a handler: a fault there (an
exception, a lost answer) leaves what it did so far. `history` is what the properties
except: requests whose answer nobody heard (`unseen`), a profile older than the row that
was put into the store (`stale`), or one that took the verification back (`returned`),
and whether the countdown shows the cooldown that was set last (`counted`, `setter`).

**WebApp.** `jar` is the three cookies: whose they are, the version in the access token,
the refresh token by number, and whether the access cookie is still there. `recent` are
the versions for which a token was stored in what may still be this second: an insert of
another may be refused by the unique hash, and is answered with 500 (`Inserts`). A refresh
is `refreshFind` (with reuse detection as one step), `refreshRevoke`, `refreshSign` and
`refreshInsert`; `Throw` is a query of it that throws. A request
carries the jar it left with (`Presented`: none if it is a sign-in, whose handlers read no
cookie); its answer sets the jar when it is heard. `orphans` are
requests that nobody awaits any more and that the service may still take. `Unauthorized`,
`OnRefreshed` and `OnRefreshFailed` are the interceptor; the other answers are the hooks
of `WEB/hooks`. `Stops` of `HttpSurface` is the set of middlewares that would refuse a
request, and the first of them answers. `history` is again what the properties except:
whether the tab was signed out (`left`), an answer came after the cookies had changed
owner (`crossed`), somebody signed in over a logout, deletion or refresh on its way
(`over`), sessions were revoked while a refresh was past its lookup (`straddled`), what
revokes ran beside what issues (`overlap`), an answer was lost (`lost`), a refresh ended
after it had revoked its session and before it had another (`broken`).
The restore code of `confirmRestore` and the name that `updateMe` writes
are left out.

## 3. The runs

| Run | Instance | What it shows |
|---|---|---|
| `TokenVersion` | 1 account, 3 requests, 2 bumps, TTL 2, latency 1, failures | `StaleEntryExpires`: a stale entry, by a late fill or by two write-throughs in the wrong order, is gone TTL + one round trip after the bump. `CacheSettles` (liveness): in the end Redis is right or empty. `ImplementsRevocation`: refinement of `BoundedRevocation`, a revoked token is let through only within that window. |
| `AuthSessions` | 1 account, 2 requests, 2 bumps, 2 seconds, 1 restore code, failures | `DeadFamilyStaysDead`: a family without a valid token and without a rotation under way never gets one again. `DeletedStaysLocked`: after deletion, once the requests that were past the checks are done, no session becomes valid until a restore code is confirmed. `SpentCodeStaysSpent`: a used or expired code that nobody has matched is never matched again. |
| `AuthSessionsAlone` | 1 account, 2 passwords, 1 request, 3 bumps, 3 seconds, 2 codes | What the handlers achieve one after the other: `SessionsAreCurrent`, `LoggedOutEverywhere`, `OneValidPerFamily`. |
| `EmailVerification` | 2 addresses, 2 requests, 3 codes, limits 2 and 1, failures, 1 uncounted change | `AcceptedOnce`: no code verifies twice. `ChangesBounded`: in one window, n requests change the address at most n - 1 times more than the limit, plus once for each that died before it counted its change. 7 536 244 states. |
| `EmailVerificationAlone` | 1 request, the constants of the code (a tick is a minute), 5 codes | `GuessesCounted`: every wrong guess at the stored code counts, and `MaxAttempts` of them destroy it; this needs the attempts to outlive the code. `ProvenAddress`, `LockIsTransient`, `EndlessIsTransient`. |
| `Accounts` | 2 rows, 2 addresses, 2 requests of any kind, 456 641 states | `ImplementsAddressBook` (refinement). `SharedOnlyByOverlap`: two rows share an address, `FailsOnlyByOverlap`: the index refuses a write, only if two requests found that address free at once. `VerifiedKeepsAddress`: the address of a verified account changes only by a request that began before it was verified. |
| `EmailJobs` | 1 address, 2 codes, 3 attempts, 1 stall, 1 job at a time, 2 kills, 1 shutdown, 77 204 states | `MailsBounded`: one add mails its code at most attempts + stalls times. `OnlyKillsStall`: a shutdown leaves no job active that nobody works on, whatever was in hand when the signal came. `JobsEnd` (liveness): every job is completed or given up. |
| `ApiClient` | 1 tab, 2 requests, 3 tokens, lost answers, logouts, reloads, 70 214 states | `OneRefresh`, `QueueServed`, and `EverySettles` (liveness): no promise of `api` is left pending. |
| `VerificationPage` | 2 addresses, 1 code, cooldowns 1 and 2, 2 codes requested, 1 reload, 1 fault, 3 809 576 states | `CountdownCovers`: the page does not offer a resend that the cooldown refuses. `ShownIsAccount`: it shows the address the codes go to. `VerifiedLeaves`: whoever verified leaves it. Each names the races that remain. |
| `WebApp` | 2 accounts, one not verified, 2 token pairs, 2 requests in flight, 1 reload, lost answer or throwing query, 4 693 856 states | `ShowsWhoItActsFor`: the tab shows the account its cookies act for. `SignedOutForGood`: once a logout or deletion was answered, nobody is shown and the cookies sign nobody in; those of a refresh whose answer crossed it authenticate for as long as an access token lives, and get no new ones unless the sessions were revoked between its lookup and its insert, or somebody had signed in over a logout, a deletion or a refresh. `DeletedIsLeft`: a deleted account is shown only until its deletion is answered. `NoFalseAlarm`: one tab is taken for a thief only after a lost answer, after a refresh that broke off with its session revoked, or where a refresh met a logout, a deletion or a restore. |

**Bounds.** A hazard here needs two, at most three requests: one that read, one that
writes in between, and for the cache a third that profits. Three requests in
TokenVersion and two in the others cover that; the proofs remove the bound where there
is one (`OneRefresh` and `QueueServed` for any number of requests and tabs). Two bumps
tell "the version before" from "an older one". Two seconds are enough for tokens of the
same and of different dates. Three codes let a code replace one that replaced another.
The limits are cut to 1 and 2 where requests interleave, and are those of the code in
`EmailVerificationAlone`. In Accounts two rows and two addresses are what sharing,
swapping and restoring an address take, and two requests are every pair of queries. In
EmailJobs two codes make jobs wait for each other, two kills make a job stall once more
than BullMQ allows, and one shutdown can meet any of it. In VerificationPage cooldowns 1
and 2 tell the countdown of one code from that of another, and two codes let a resend and
a change each have one; one request of a kind is in flight, one reload at the place of
the page, one fault. One code is enough, since right and wrong is all the page can tell.
In WebApp two accounts tell who is shown from who acts, two pairs are a login and what
replaces it (a rotation, another login), two requests in flight are every pair. A reload
is at the path of the tab or at the dashboard. The bounds on versions, codes and tokens
are guards on the start of the handler that would need another one (`RoomToBump`,
`RoomForCode`, `RoomForToken`), never in its middle. `MaxPairs` guards the insert itself
(`RoomForPair`), so that a refresh gets as far as it without a pair left, and may still
throw or be given up there. `MaxCalls` counts the orphans, too; `MaxTroubles` counts
reloads, lost answers and queries that throw, while middlewares refuse as often as they
like. `MaxUncounted` guards the death of a request with its change uncounted, and the
bounds on kills, signals, reloads and faults are guards of those events alone.
`VerificationPage` and `WebApp` do not check for deadlock: their bounds can stop them,
with a request left that would need another code or pair.

**Fairness.** Only liveness properties use it. `TokenVersion`: time passes, and a round
trip that was started ends (the Redis client and Prisma settle every promise); nothing
forces a request to arrive. `ApiClient`: a request that is in flight goes on, as axios
gives up after 15 seconds, the event loop runs every task that is ready, and hydration
ends. `EmailJobs`: a process that ended is started again (`restart: always` in
`docker-compose.yml`), a shutdown goes on, the mail server answers or times out, and the
worker takes waiting jobs in their order, which is strong fairness for each of them.
That kills end is the bound on them. Nothing forces a page to call, a user to log in or
a token to expire.

### Where the code differs from what the repository says

Two runs end in a violation, each of a sentence in the repository:

* `ApiClientTwoTabs` (`RotatedIsStolen`): two tabs refresh with one cookie, and the
  server takes the user for a thief, "a confirmed attack"
  (`services/user-service/doc/redis-review-and-generic-cache-plan.md:282`).
* `AccountsFirstRow` (`ToldVerified`): `verifyEmail` is to check "if already verified"
  (`US/services/auth.service.ts:211`), but its lookup has no address and takes some row:
  with one request at a time, an account that is not verified is told that it is.

Others the models contain as behaviour, without a run of their own. In the service:

* `verifyAndConsumeRestoreCode` selects an unused code and marks it used in two queries,
  so two confirmations may use one code, though it is verified and consumed "atomically"
  (`US/repositories/user.repository.ts:197`). `SpentCodeStaysSpent` is what holds.
* A refresh in the second the token was signed in produces the same token; the insert
  violates the unique hash after the old session was revoked, and a single honest client
  has no session left (`US/utils/jwt.util.ts:36`, `auth.service.ts:863`). A late 401 that
  starts a second refresh is enough, and the client's next refresh is then taken for
  theft; a query that throws after the revocation does the same. `NoFalseAlarm` calls
  such a refresh `broken`.
* Between the update of the address and the deletion of the old code, the old code
  verifies the new address (`US/services/auth.service.ts:357`).
* Register looks for deleted rows too, so an address whose account was deleted for good
  can never be used again, though login answers "Account permanently deleted. Create a
  new account."
* requestRestore answers "Restore code sent to your email"; nothing mails it.
* login reads "deleted" and the grace period in two queries; a restore in between is
  answered with 410 (`LoginGrace`).
* A cache fill that read the table before a bump lands after the write-through, and the
  revoked version is accepted until the entry expires, with no failure anywhere; the
  README calls revocation instant (`README.md:79`). `ImplementsRevocation` is what holds.
* A password reset that began before `deleteMe` ends after it and issues tokens of the
  current version for a deleted account (`US/services/auth.service.ts:677`);
  `DeletedStaysLocked` is what holds.
* A rotation under way inserts its successor after reuse detection, or a logout of every
  session, revoked the family (`US/services/auth.service.ts:772`, `:863`, `:920`): when
  its answer is heard after the logout's, the browser is signed in again, and stays so.
  `SignedOutForGood` says `straddled`.
* A refresh that inserted before the logout and is answered after it brings cookies back
  whose refresh token is dead; but logout does not bump the version, so the access token
  works for its fifteen minutes. `SignedOutForGood` says `crossed`.
* refresh revokes the presented session without asking whether it is still valid: two
  refreshes that both looked it up before either revoked it each insert a successor, and
  the family has two valid tokens (`US/services/auth.service.ts:840`, `:863`).
  `OneValidPerFamily` is what holds of one request at a time.
* A session revoked by a logout or a password reset elsewhere is treated like a rotated
  one: the next refresh of that device revokes every session, the new ones included.
* Concurrent address changes all read the counter before any increments it: the limit of
  3 (`US/services/auth.service.ts:294`) is exceeded. And the change is counted after it
  was made: a request that dies in between (`:355`, `:361`) changed the address for
  nothing, and nothing limits how often. `ChangesBounded` is what holds, with the
  uncounted changes added.
* A change that read the account before it was verified replaces the address after, and
  the account stays verified (`US/services/auth.service.ts:316`). `VerifiedKeepsAddress`
  is what holds.
* `requestOtp` stores the code before it resets the attempts (`US/services/otp.service.ts:84`):
  a guess in between may destroy the new code at once. `LockIsTransient` is what holds.
* The change of address deletes a running cooldown with the old code, so that the
  request for the new code never respects it (`US/services/auth.service.ts:358`).
* A crash between INCR and EXPIRE leaves a counter for ever; at the limit nothing
  increments it again (`US/repositories/otp.repository.ts:139`). `EndlessIsTransient` is
  what holds while nothing dies.
* The comments say that `authLimiter` allows 10 requests in 15 minutes; it allows 20.
* `US/utils/cookie.ts` and `US/middlewares/authorize.ts` are used by nothing; the user
  routes authenticate before they check the CSRF token, logout checks it first.

In the web client:

* Between the rejection of the queue and the reset of `isRefreshing` the interceptor
  awaits an import; a request queued in that gap is settled by nobody
  (`WEB/lib/api-client.ts:114`). It takes `ImportYields`; without it `QueueServed` and
  `EverySettles` hold.
* "Force logout even if API call fails" (`WEB/hooks/use-auth.ts:60`) clears the store and
  leaves the cookies: the next reload signs in again.
* Hydration does not refresh: with an expired access cookie and a valid refresh token, a
  reload shows the login page.
* useUser and a failed refresh sign the person out on any error, a 429 or a lost
  connection included.
* Nothing navigates to `/auth/session-expired`.

## 4. The proofs

Every invariant and every action property of the passing runs, and both refinements, are
proved for every value of the constants: any accounts, addresses, codes, tabs and
requests, any limits and bounds, with and without failures.

| Module | Theorems | Rests on |
|---|---|---|
| `TokenVersionProofs` | `TypeCorrect`, `CacheIsNeverAhead`, `StaleEntriesExpire`, `StalenessIsBounded`, `Refinement`: the cache is never ahead of the table, a stale entry and a superseded token are gone within `Window`, and the mechanism implements `BoundedRevocation` | `CarriedVersions`: the version a request carries to Redis was current at most `age` ticks ago, so the entry it writes cannot outlive `TTL + Latency`; `CurrentHasNoLag`; `RequestsOwned` |
| `AuthSessionsProofs` | `TypeCorrect`, `FamiliesStayDead`, `DeletedAccountsStayLocked`, `SpentCodesStaySpent`, whatever overlaps or dies; `SessionsStayCurrent`, `DeletionLogsOut`, `RotationReplaces` when `Alone` | `FamiliesOpened`: the family of a row is the token that opened it; `Carries`: what the next statement of a request needs is issued and of its account; `RoomLeft`: a number for every bump on its way. `Alone`: `Versioned`, `Deleted` and `Rotated`, which say at which stages of which handler the three properties are broken for a moment |
| `EmailVerificationProofs` | `TypeCorrect`, `CodesAcceptedOnce`, `ChangesAreBounded`, `LocksAreTransient`, `CountersExpire`; `EveryGuessCounts`, `AddressIsProven` when `Alone` | `CodesFresh`: a stored code was never accepted, and is never stored again; `RoomLeft`; `ChangesCounted`: the counter and the requests that passed the limit without having counted themselves, together; `Tallied`: every change made is in the counter, in a request that is about to count it, or among the uncounted; `Addressed`. `Alone`: `Guessed`, that the attempts outlive the code they count for; `Proven`, whose code is stored at which stage |
| `EmailJobsProofs` | `TypeCorrect`, `MailsAreBounded`, `ShutdownsOrphanNothing`, for any attempts, stalls, concurrency, kills and shutdowns | `Held`: what the worker has in hand is active in Redis, a process that is quitting or down has nothing in hand, and before the first kill what is active is in hand; `Paid`: the mails of a job are paid for by its failed attempts and stalls, but for one that an attempt under way may have sent, and a job that has not ended has an attempt left |
| `AccountsProofs` | `TypeCorrect`, `Refinement`, `SharingNeedsOverlap`, `FailuresNeedOverlap`, `VerifiedAddressKept`: everything the run checks, and that the table implements `AddressBook` | `FoundTogether`, `FoundBefore`: of a request that found its address free, and another that did or a row that got it since, the address has a mark; `LiveUnique`; `ChangesLate`; `CodesOwned` |
| `ApiClientProofs` | `TypeCorrect`; `OneRefreshAtATime` always, `QueueIsServed` when the import does not yield | `Marked`, `Single`: the flag is set exactly while one request of the tab refreshes; `Waiting`: the queue is the set of waiting requests; `Emptied`: while the store is imported, nobody waits; a token for every rotation that began |
| `VerificationPageProofs` | `TypeCorrect`, `NoEarlyResend`, `PageNamesAddress`, `VerifiedGone` | `UpdateCurrent`: a change that got as far as the row has its address; `HooksLate`: the hooks of a page that is gone exist only once the address was verified; `DeafUnseen`: what nobody hears is on record; `Counted`, `Shown`, `Left`: the properties, with what the answers on their way will make of them |
| `WebAppProofs` | `TypeCorrect`, `OneIdentity`, `LogoutHolds`, `DeletionShows`, `AlarmsAreExplained` | see below |

**The plan of a proof.** A lemma for the initial states, one lemma per kind of step, a
lemma for `[Next]_vars`, and `Invariance`, from which the properties follow. The
invariants of the runs are not inductive by themselves: a request acts on what it read
earlier, so the invariant has to say what the requests carry. Steps that disturb little
(`Calm...`) are proved together, as a class. `Refinement` maps initial states to initial
states and every step to a step or a stutter, under the invariant.

**WebApp.** `SignedOutForGood` has to know of every refresh token the tab holds, in its
cookies or in an answer on its way, that a logout kills it. A logout kills the sessions
of one account, so they must be of one owner: `OneOwner`, which holds until somebody
signs in over a logout, a deletion or a refresh (`over`). And it kills the sessions there
are: a refresh past its lookup gets its session later, so that `Spent` says that once a
logout was served the tokens at hand are dead and no refresh is past its lookup, unless
one `straddled` it. `DeletedIsLeft` needs `Left`: from the answer to a deletion on,
nothing of the tab is about that account but attempts to sign in to it again, none of
which succeeds until it is restored; a refresh that the deletion fell into is the tab's
own and leaves with it. For `NoFalseAlarm`, a refresh token that is presented must be
alive until the lookup (`Current`). It is as long as what issues and what revokes keep out
of each other's way (`Apart`), no answer was lost and no refresh `broken`; between its
revocation and its insert a refresh has no live token, but then it is the only one at the
service, and the cookies are about to be replaced. That `Apart` is kept needs that
whatever the tab could start beside one of them is recorded as `overlap`.

**What is assumed.** The ASSUMEs of the modules, nothing else: `None` is no account, no
address, no code and no cookies, the bounds are numbers, the lifetimes, attempts and limits of the
codes are not 0, the requests in flight are finitely many (AuthSessions,
EmailVerification, ApiClient, where a bound counts them), the short cooldown is not longer
than the long one (`US/services/otp.service.ts:89`), every request is of a tab. Five
theorems also assume `Alone`: one request, and no failures. That is what these properties
are about, the handlers one after the other: with two requests and failures TLC finds a
counterexample to each, and section 3 lists the races behind them. `QueueIsServed` assumes `~ImportYields`, as its property does.

**Model-checked only:** the liveness properties `CacheSettles`, `EverySettles` and
`JobsEnd`, since fairness and `ENABLED` are beyond the prover; and the two violations,
which are counterexamples.

## 5. What is not modelled, and the plan

Next, proofs again: the safety that the liveness properties rest on (a request of
TokenVersion, of the queue and of the worker that has not ended can always go on), as
invariants; the lemmas of `HttpSurface` (who reaches the handler of a guarded route) as
theorems of their own; and that the handlers which `WebApp` takes as one step do to a
row what the steps of AuthSessions do one after the other.

Not modelled: the audit log and login history (rows that nothing reads), the health and
metrics routes and the queue dashboard, how a limiter counts (a library) and what a
schema accepts (whether they refuse is a choice in HttpSurface), the name in the profile,
the first step of the restore page, the nginx configuration, the machine service (single
queries without callers), themes, translations, landing and placeholder pages (presentation),
generated types, and everything whose sources are empty. Several tabs are in ApiClient
and not in WebApp. bcrypt, JWT signatures and hashes are taken to do what they are for.
