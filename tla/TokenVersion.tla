---------------------------- MODULE TokenVersion ----------------------------
(***************************************************************************)
(* Revocation of access tokens by version: the authenticate middleware     *)
(* (middlewares/authenticate.ts), the Redis cache in front of the          *)
(* users.tokenVersion column (cache/strategies/token-version.cache.ts over *)
(* cache/cache.service.ts) and the requests that bump the version and      *)
(* write the new one through (deleteMe, confirmRestore, the reuse branch   *)
(* of refresh).                                                            *)
(*                                                                         *)
(* A request is cut at every await: between two of its steps any other     *)
(* request may run, the key may expire, or the process may die.  Redis     *)
(* errors are swallowed by CacheService, so a GET may answer "absent" and  *)
(* a SET may do nothing (Failures).                                      *)
(*                                                                         *)
(* Time is counted in ticks.  A Redis or Postgres round trip takes at most *)
(* Latency ticks and an entry lives TTL ticks; how long a handler runs     *)
(* after next() is not bounded.                                            *)
(***************************************************************************)
EXTENDS Integers

CONSTANTS
  Users,        \* the accounts
  Nobody,       \* the account of an idle request slot
  Requests,     \* slots for HTTP requests in flight
  MaxVersion,   \* bound on the number of bumps of one account
  TTL,          \* TOKEN_VERSION_TTL, in ticks
  Latency,      \* longest round trip to Redis or Postgres, in ticks
  Failures      \* whether Redis commands fail and processes die

ASSUME UsersAssumption == Nobody \notin Users
ASSUME BoundsAssumption == MaxVersion \in Nat /\ TTL \in Nat \ {0} /\ Latency \in Nat
ASSUME FailuresAssumption == Failures \in BOOLEAN

VARIABLES
  tokenVersion, \* users.tokenVersion
  cached,       \* the Redis key of each user; ttl 0 is an absent key
  lag,          \* lag[u][v]: ticks since v was superseded (history only)
  req           \* the requests in flight

vars == <<tokenVersion, cached, lag, req>>

Versions == 0..MaxVersion
Window == TTL + Latency

(* The await a request stands at:                                          *)
(*   miss     Redis had no version, the SELECT is outstanding              *)
(*   fill     the SELECT answered seen, the SET is outstanding             *)
(*   serving  next() was called for a token of version token               *)
(*   publish  the version was bumped to seen, the SET is outstanding       *)
Stages == {"idle", "miss", "fill", "serving", "publish"}

Request(at, u, token, seen) ==
  [at |-> at, user |-> u, token |-> token, seen |-> seen, age |-> 0]

IdleRequest == Request("idle", Nobody, 0, 0)
Absent == [version |-> 0, ttl |-> 0]

Older(n) == IF n <= Window THEN n + 1 ELSE n

Init ==
  /\ tokenVersion = [u \in Users |-> 0]
  /\ cached = [u \in Users |-> Absent]
  /\ lag = [u \in Users |-> [v \in Versions |-> 0]]
  /\ req = [p \in Requests |-> IdleRequest]

(***************************************************************************)
(* Redis, as CacheService uses it.                                         *)
(***************************************************************************)
(* Mutant: the entry is written with a longer expiry than configured.      *)
CacheSetTwiceTheTTL(u, v) == cached' = [cached EXCEPT ![u] = [version |-> v, ttl |-> 2 * TTL]]

CacheSet(u, v) ==
  \/ cached' = [cached EXCEPT ![u] = [version |-> v, ttl |-> TTL]]
  \/ Failures /\ UNCHANGED cached

(* Mutant: the entry was written without EX. *)
AgedNever(entry) == entry

(* An entry after one more tick. *)
Aged(entry) == IF entry.ttl <= 1 THEN Absent ELSE [entry EXCEPT !.ttl = @ - 1]

(* Redis restarts without the key, or evicts it. *)
LoseKey(u) ==
  /\ cached[u].ttl > 0
  /\ cached' = [cached EXCEPT ![u] = Absent]
  /\ UNCHANGED <<tokenVersion, lag, req>>

(***************************************************************************)
(* authenticate: a request of user u with a token of version v.  A version *)
(* that does not match is a 401 and leaves no trace.                       *)
(***************************************************************************)
Issued(u, v) == v <= tokenVersion[u]

CacheHit(p, u, v) ==
  /\ req[p].at = "idle" /\ Issued(u, v)
  /\ cached[u].ttl > 0 /\ cached[u].version = v
  /\ req' = [req EXCEPT ![p] = Request("serving", u, v, 0)]
  /\ UNCHANGED <<tokenVersion, cached, lag>>

CacheMiss(p, u, v) ==
  /\ req[p].at = "idle" /\ Issued(u, v)
  /\ cached[u].ttl = 0 \/ Failures
  /\ req' = [req EXCEPT ![p] = Request("miss", u, v, 0)]
  /\ UNCHANGED <<tokenVersion, cached, lag>>

ReadVersion(p) ==
  /\ req[p].at = "miss"
  /\ req' = [req EXCEPT ![p] =
               Request("fill", req[p].user, req[p].token, tokenVersion[req[p].user])]
  /\ UNCHANGED <<tokenVersion, cached, lag>>

(* Mutant: after a miss the version is cached but not compared. *)
FillCacheUnchecked(p) ==
  /\ req[p].at = "fill"
  /\ CacheSet(req[p].user, req[p].seen)
  /\ req' = [req EXCEPT ![p] = Request("serving", req[p].user, req[p].token, 0)]
  /\ UNCHANGED <<tokenVersion, lag>>

FillCache(p) ==
  /\ req[p].at = "fill"
  /\ CacheSet(req[p].user, req[p].seen)
  /\ req' = [req EXCEPT ![p] =
               IF req[p].token = req[p].seen
                 THEN Request("serving", req[p].user, req[p].token, 0)
                 ELSE IdleRequest]
  /\ UNCHANGED <<tokenVersion, lag>>

Finish(p) ==
  /\ req[p].at = "serving"
  /\ req' = [req EXCEPT ![p] = IdleRequest]
  /\ UNCHANGED <<tokenVersion, cached, lag>>

(***************************************************************************)
(* Revocation: an atomic increment, then the write-through of the version  *)
(* the increment returned.  deleteMe gets here authenticated, the public   *)
(* endpoints (refresh, confirmRestore) straight from idle.                 *)
(***************************************************************************)
BumpTokenVersion(p, u) ==
  /\ req[p].at = "idle" \/ (req[p].at = "serving" /\ req[p].user = u)
  /\ tokenVersion[u] < MaxVersion
  /\ tokenVersion' = [tokenVersion EXCEPT ![u] = @ + 1]
  /\ req' = [req EXCEPT ![p] = Request("publish", u, 0, tokenVersion[u] + 1)]
  /\ UNCHANGED <<cached, lag>>

WriteThrough(p) ==
  /\ req[p].at = "publish"
  /\ CacheSet(req[p].user, req[p].seen)
  /\ req' = [req EXCEPT ![p] = IdleRequest]
  /\ UNCHANGED <<tokenVersion, lag>>

(* The process dies, or a Postgres query throws: the request goes no       *)
(* further.                                                                *)
Abort(p) ==
  /\ Failures
  /\ req[p].at \in {"miss", "fill", "publish"}
  /\ req' = [req EXCEPT ![p] = IdleRequest]
  /\ UNCHANGED <<tokenVersion, cached, lag>>

(* Time passes, but not beyond the deadline of a round trip. *)
Tick ==
  /\ \A p \in Requests : req[p].at \in {"miss", "fill", "publish"} => req[p].age < Latency
  /\ cached' = [u \in Users |-> Aged(cached[u])]
  /\ lag' = [u \in Users |-> [v \in Versions |->
               IF v < tokenVersion[u] THEN Older(lag[u][v]) ELSE lag[u][v]]]
  /\ req' = [p \in Requests |->
               IF req[p].at \in {"miss", "fill", "publish"}
                 THEN [req[p] EXCEPT !.age = @ + 1] ELSE req[p]]
  /\ UNCHANGED tokenVersion

Step(p) ==
  \/ ReadVersion(p) \/ FillCache(p) \/ WriteThrough(p)

Next ==
  \/ Tick
  \/ \E u \in Users : LoseKey(u)
  \/ \E p \in Requests :
       \/ Step(p) \/ Finish(p) \/ Abort(p)
       \/ \E u \in Users :
            \/ BumpTokenVersion(p, u)
            \/ \E v \in Versions : CacheHit(p, u, v) \/ CacheMiss(p, u, v)

Spec == Init /\ [][Next]_vars

(* Time passes, and a round trip that was started ends. *)
FairSpec == Spec /\ WF_vars(Tick) /\ \A p \in Requests : WF_vars(Step(p))

-----------------------------------------------------------------------------

RequestType ==
  [at : Stages, user : Users \cup {Nobody}, token : Versions, seen : Versions, age : 0..Latency]

TypeOK ==
  /\ tokenVersion \in [Users -> Versions]
  /\ cached \in [Users -> [version : Versions, ttl : 0..TTL]]
  /\ lag \in [Users -> [Versions -> 0..(Window + 1)]]
  /\ req \in [Requests -> RequestType]

(* The cache is never ahead of the table: no fill and no write-through     *)
(* puts a version into Redis that the users row has not reached (a token   *)
(* of the row's version would be refused, with nothing to correct it but   *)
(* the expiry).                                                            *)
CacheNeverAhead ==
  \A u \in Users : cached[u].ttl > 0 => cached[u].version <= tokenVersion[u]

(* A stale entry, left by a fill that read the table before a bump or by a *)
(* write-through that another one overtook, is gone Window ticks after the *)
(* bump that made it stale, whatever else wrote the key in between.        *)
(* Until then it admits revoked tokens and refuses the current ones.       *)
StaleEntryExpires ==
  \A u \in Users :
    cached[u].ttl > 0 /\ cached[u].version < tokenVersion[u]
      => lag[u][cached[u].version] + cached[u].ttl <= Window

(* The promise authenticate makes: it calls next() for a superseded token  *)
(* only within Window ticks of the bump that superseded it.                *)
Admitted(p) == req[p].at # "serving" /\ req'[p].at = "serving"

BoundedStaleness ==
  [][\A p \in Requests : Admitted(p) =>
       LET u == req'[p].user
           v == req'[p].token
       IN  v = tokenVersion[u] \/ (v < tokenVersion[u] /\ lag[u][v] <= Window)]_vars

(* With the bumps over, Redis ends up holding the table's version or       *)
(* nothing, and stays so: the users of a fresh token are not refused       *)
(* forever, and revoked tokens are.                                        *)
CacheSettles ==
  \A u \in Users : <>[](cached[u].ttl > 0 => cached[u].version = tokenVersion[u])

(* The cache, the fills and the write-throughs implement the promise that  *)
(* BoundedRevocation states without them.                                  *)
Revocation == INSTANCE BoundedRevocation WITH
  serving <- [p \in Requests |->
    IF req[p].at = "serving"
      THEN [on |-> TRUE, version |-> req[p].token]
      ELSE [on |-> FALSE, version |-> 0]]

ImplementsRevocation == Revocation!Spec
=============================================================================
