------------------------- MODULE TokenVersionProofs -------------------------
(***************************************************************************)
(* For every set of accounts and of requests, every TTL and every bound on *)
(* the round trips: the cache is never ahead of the table, a stale entry   *)
(* is gone Window ticks after the bump, authenticate admits a superseded   *)
(* token only within Window ticks, and the cache with its fills and        *)
(* write-throughs implements BoundedRevocation.                            *)
(*                                                                         *)
(* None of this is inductive by itself: a stale entry is written by a      *)
(* request that read its version earlier, so the invariant has to say how  *)
(* old the version a request carries can be (CarriedVersions), and that a  *)
(* version not yet superseded has no lag (CurrentHasNoLag).                *)
(***************************************************************************)
EXTENDS TokenVersion, TLAPS

InFlight(p) == req[p].at # "idle"
Carries(p) == req[p].at \in {"fill", "publish"}

(* A request in flight belongs to an account and holds an issued token.    *)
RequestsOwned ==
  \A p \in Requests : InFlight(p) =>
    req[p].user \in Users /\ req[p].token <= tokenVersion[req[p].user]

CurrentHasNoLag ==
  \A u \in Users : \A v \in Versions : v >= tokenVersion[u] => lag[u][v] = 0

(* The version on its way to Redis was current no more than age ticks ago. *)
CarriedVersions ==
  \A p \in Requests : Carries(p) =>
    /\ req[p].seen <= tokenVersion[req[p].user]
    /\ req[p].seen < tokenVersion[req[p].user] => lag[req[p].user][req[p].seen] <= req[p].age

IInv ==
  /\ TypeOK
  /\ RequestsOwned
  /\ CurrentHasNoLag
  /\ CarriedVersions
  /\ CacheNeverAhead
  /\ StaleEntryExpires

-----------------------------------------------------------------------------

(* Constants, as the provers need them: naturals, with a window that holds *)
(* both a whole time to live and a whole round trip.                       *)
LEMMA Constants ==
  /\ MaxVersion \in Nat /\ TTL \in Nat \ {0} /\ Latency \in Nat
  /\ Window \in Nat /\ Window = TTL + Latency /\ Nobody \notin Users
  BY UsersAssumption, BoundsAssumption DEF Window

(* Nothing is cached and nothing is in flight at first.                    *)
LEMMA InitIInv == Init => IInv
  BY Constants DEF Init, IInv, TypeOK, RequestsOwned, CurrentHasNoLag, CarriedVersions,
     CacheNeverAhead, StaleEntryExpires, InFlight, Carries, IdleRequest, Request, Absent, RequestType,
     Stages, Versions

(* What a SET leaves under the key, whether or not it reached Redis.       *)
LEMMA CacheSetEffect ==
  ASSUME NEW u \in Users, NEW v \in Versions, TypeOK, CacheSet(u, v)
  PROVE  /\ cached' \in [Users -> [version : Versions, ttl : 0..TTL]]
         /\ \A w \in Users : cached'[w] = cached[w]
                             \/ (w = u /\ cached'[w] = [version |-> v, ttl |-> TTL])
  BY Constants DEF CacheSet, TypeOK

(* Time: an entry loses a tick of its life, a superseded version gains one *)
(* of lag, and a round trip in flight gets older; the sums stay.           *)
LEMMA TickIInv == IInv /\ Tick => IInv'
<1> SUFFICES ASSUME IInv, Tick PROVE IInv'
  OBVIOUS
<1> USE Constants
<1>1. /\ tokenVersion' = tokenVersion
      /\ tokenVersion \in [Users -> Versions]
      /\ \A u \in Users : tokenVersion[u] \in 0..MaxVersion
  BY DEF Tick, IInv, TypeOK, Versions
<1>2. \A u \in Users :
        /\ cached'[u] = Aged(cached[u])
        /\ cached[u] \in [version : Versions, ttl : 0..TTL]
  BY DEF Tick, IInv, TypeOK
<1>3. \A u \in Users : \A v \in Versions :
        /\ lag[u][v] \in 0..(Window + 1)
        /\ v < tokenVersion[u] => lag'[u][v] = Older(lag[u][v])
        /\ ~(v < tokenVersion[u]) => lag'[u][v] = lag[u][v]
  BY DEF Tick, IInv, TypeOK
<1>4. \A u \in Users : \A v \in Versions :
        /\ lag'[u][v] \in 0..(Window + 1)
        /\ lag'[u][v] <= lag[u][v] + 1
  BY <1>3 DEF Older
<1>5. \A p \in Requests :
        /\ req[p] \in RequestType
        /\ req[p].at \in {"miss", "fill", "publish"} =>
             req[p].age < Latency /\ req'[p] = [req[p] EXCEPT !.age = @ + 1]
        /\ req[p].at \notin {"miss", "fill", "publish"} => req'[p] = req[p]
  BY DEF Tick, IInv, TypeOK
<1>6. \A p \in Requests :
        /\ req'[p] \in RequestType
        /\ req'[p].at = req[p].at /\ req'[p].user = req[p].user
        /\ req'[p].token = req[p].token /\ req'[p].seen = req[p].seen
        /\ Carries(p) => req'[p].age = req[p].age + 1
  <2> SUFFICES ASSUME NEW p \in Requests
               PROVE  /\ req'[p] \in RequestType
                      /\ req'[p].at = req[p].at /\ req'[p].user = req[p].user
                      /\ req'[p].token = req[p].token /\ req'[p].seen = req[p].seen
                      /\ Carries(p) => req'[p].age = req[p].age + 1
    OBVIOUS
  <2>1. CASE req[p].at \in {"miss", "fill", "publish"}
    <3>1. req[p] \in RequestType /\ req[p].age < Latency /\ req'[p] = [req[p] EXCEPT !.age = @ + 1]
      BY <2>1, <1>5
    <3>2. req[p].age + 1 \in 0..Latency
      BY <3>1 DEF RequestType
    <3> QED BY <3>1, <3>2 DEF RequestType
  <2>2. CASE req[p].at \notin {"miss", "fill", "publish"}
    BY <2>2, <1>5 DEF Carries
  <2> QED BY <2>1, <2>2
<1>7. \A u \in Users : cached'[u] \in [version : Versions, ttl : 0..TTL]
  <2> SUFFICES ASSUME NEW u \in Users
               PROVE  cached'[u] \in [version : Versions, ttl : 0..TTL]
    OBVIOUS
  <2>1. CASE cached[u].ttl <= 1
    <3>1. Absent \in [version : Versions, ttl : 0..TTL]
      BY DEF Absent, Versions
    <3> QED BY <2>1, <3>1, <1>2 DEF Aged
  <2>2. CASE cached[u].ttl > 1
    <3>1. cached[u].ttl - 1 \in 0..TTL
      BY <2>2, <1>2
    <3>2. cached'[u] = [cached[u] EXCEPT !.ttl = @ - 1]
      BY <2>2, <1>2 DEF Aged
    <3> QED BY <3>1, <3>2, <1>2
  <2>3. cached[u].ttl \in 0..TTL
    BY <1>2
  <2> QED BY <2>1, <2>2, <2>3
<1>8. TypeOK'
  <2>1. lag' = [u \in Users |-> [v \in Versions |-> lag'[u][v]]]
    BY DEF Tick
  <2>2. lag' \in [Users -> [Versions -> 0..(Window + 1)]]
    BY <2>1, <1>4
  <2>3. cached' \in [Users -> [version : Versions, ttl : 0..TTL]]
    BY <1>7 DEF Tick
  <2>4. req' \in [Requests -> RequestType]
    BY <1>6 DEF Tick
  <2> QED BY <2>2, <2>3, <2>4, <1>1 DEF TypeOK
<1>9. RequestsOwned'
  BY <1>6, <1>1 DEF RequestsOwned, InFlight, IInv
<1>10. CurrentHasNoLag'
  BY <1>1, <1>3 DEF CurrentHasNoLag, IInv, Versions
<1>11. CarriedVersions'
  <2> SUFFICES ASSUME NEW p \in Requests, Carries(p)'
               PROVE  /\ req'[p].seen <= tokenVersion[req[p].user]
                      /\ req'[p].seen < tokenVersion[req[p].user] =>
                           lag'[req[p].user][req'[p].seen] <= req'[p].age
    BY <1>1, <1>6 DEF CarriedVersions
  <2>1. Carries(p) /\ req[p].user \in Users /\ req[p].seen \in Versions /\ req[p].age \in Nat
    <3>1. Carries(p) /\ InFlight(p)
      BY <1>6 DEF Carries, InFlight
    <3>2. req[p] \in RequestType
      BY <1>5
    <3> QED BY <3>1, <3>2 DEF IInv, RequestsOwned, RequestType
  <2>2. lag[req[p].user][req[p].seen] \in Nat /\ lag'[req[p].user][req[p].seen] \in Nat
    BY <2>1, <1>3, <1>4
  <2> QED BY <2>1, <2>2, <1>4, <1>6 DEF IInv, CarriedVersions
<1>12. CacheNeverAhead' /\ StaleEntryExpires'
  <2> SUFFICES ASSUME NEW u \in Users, cached'[u].ttl > 0
               PROVE  /\ cached'[u].version <= tokenVersion[u]
                      /\ cached'[u].version < tokenVersion[u] =>
                           lag'[u][cached'[u].version] + cached'[u].ttl <= Window
    BY <1>1 DEF CacheNeverAhead, StaleEntryExpires
  <2>1. /\ cached[u].ttl \in Nat /\ cached[u].ttl > 1 /\ cached[u].version \in Versions
        /\ cached'[u].version = cached[u].version /\ cached'[u].ttl = cached[u].ttl - 1
    <3>1. cached[u] \in [version : Versions, ttl : 0..TTL] /\ cached'[u] = Aged(cached[u])
      BY <1>2
    <3>2. ~(cached[u].ttl <= 1)
      BY <3>1 DEF Aged, Absent
    <3> QED BY <3>1, <3>2 DEF Aged
  <2>2. /\ lag[u][cached[u].version] \in Nat /\ lag'[u][cached[u].version] \in Nat
        /\ lag'[u][cached[u].version] <= lag[u][cached[u].version] + 1
    BY <2>1, <1>3, <1>4
  <2> QED BY <2>1, <2>2 DEF IInv, CacheNeverAhead, StaleEntryExpires
<1> QED BY <1>8, <1>9, <1>10, <1>11, <1>12 DEF IInv

(* A step of one request that leaves the table alone: it is enough to look *)
(* at what becomes of that request.                                        *)
LEMMA RequestStep ==
  ASSUME IInv, NEW p \in Requests, NEW r \in RequestType,
         req' = [req EXCEPT ![p] = r], UNCHANGED <<tokenVersion, lag>>,
         r.at # "idle" => r.user \in Users /\ r.token <= tokenVersion[r.user],
         r.at \in {"fill", "publish"} =>
           /\ r.seen <= tokenVersion[r.user]
           /\ r.seen < tokenVersion[r.user] => lag[r.user][r.seen] <= r.age
  PROVE  /\ req' \in [Requests -> RequestType]
         /\ RequestsOwned' /\ CurrentHasNoLag' /\ CarriedVersions'
<1>1. req \in [Requests -> RequestType] /\ req' \in [Requests -> RequestType]
  BY DEF IInv, TypeOK
<1>2. \A q \in Requests : req'[q] = IF q = p THEN r ELSE req[q]
  BY <1>1
<1>3. RequestsOwned'
  BY <1>2 DEF RequestsOwned, InFlight, IInv
<1>4. CurrentHasNoLag'
  BY DEF CurrentHasNoLag, IInv
<1>5. CarriedVersions'
  BY <1>2 DEF CarriedVersions, Carries, IInv
<1> QED BY <1>1, <1>3, <1>4, <1>5

(* A SET of a version no newer than the table's, and no older than a round *)
(* trip, keeps what is said of the cache.                                  *)
LEMMA SetKeepsCache ==
  ASSUME IInv, NEW u \in Users, NEW v \in Versions, CacheSet(u, v),
         UNCHANGED <<tokenVersion, lag>>,
         v <= tokenVersion[u], v < tokenVersion[u] => lag[u][v] <= Latency
  PROVE  CacheNeverAhead' /\ StaleEntryExpires'
<1>1. SUFFICES ASSUME NEW w \in Users, cached'[w].ttl > 0
               PROVE  /\ cached'[w].version <= tokenVersion[w]
                      /\ cached'[w].version < tokenVersion[w] =>
                           lag[w][cached'[w].version] + cached'[w].ttl <= Window
  BY DEF CacheNeverAhead, StaleEntryExpires
<1>2. CASE cached'[w] = cached[w]
  BY <1>1, <1>2 DEF IInv, CacheNeverAhead, StaleEntryExpires
<1>3. CASE w = u /\ cached'[w] = [version |-> v, ttl |-> TTL]
  <2>1. lag[u][v] \in Nat
    BY Constants DEF IInv, TypeOK
  <2> QED BY <1>3, <2>1, Constants
<1> QED BY <1>2, <1>3, CacheSetEffect DEF IInv

(* Request builds well-typed requests.                                     *)
LEMMA RequestTyped ==
  ASSUME NEW at \in Stages, NEW u \in Users \cup {Nobody}, NEW v \in Versions, NEW w \in Versions
  PROVE  Request(at, u, v, w) \in RequestType
  BY Constants DEF Request, RequestType

(* An idle slot is a well-typed request.                                   *)
LEMMA IdleRequestType == IdleRequest \in RequestType /\ IdleRequest.at = "idle"
<1>1. 0 \in Versions /\ "idle" \in Stages
  BY Constants DEF Versions, Stages
<1> QED BY <1>1, RequestTyped DEF IdleRequest, Request

(* The steps that follow a round trip: the SELECT after a miss, the SET of  *)
(* a fill, the SET of a write-through.                                      *)
LEMMA StepIInv == ASSUME IInv, NEW p \in Requests, Step(p) PROVE IInv'
<1> USE Constants
<1>1. /\ req[p] \in RequestType
      /\ tokenVersion \in [Users -> Versions]
      /\ \A u \in Users : tokenVersion[u] \in 0..MaxVersion
      /\ \A u \in Users : \A v \in Versions : lag[u][v] \in 0..(Window + 1)
  BY DEF IInv, TypeOK, Versions
<1>2. CASE ReadVersion(p)
  <2> DEFINE u == req[p].user
             r == Request("fill", u, req[p].token, tokenVersion[u])
  <2>1. u \in Users /\ req[p].token \in Versions /\ req[p].token <= tokenVersion[u]
    BY <1>1, <1>2 DEF ReadVersion, IInv, RequestsOwned, InFlight, RequestType
  <2>2. r \in RequestType
    BY <1>1, <2>1, RequestTyped DEF Stages
  <2>3. /\ req' \in [Requests -> RequestType]
        /\ RequestsOwned' /\ CurrentHasNoLag' /\ CarriedVersions'
    <3>1. req' = [req EXCEPT ![p] = r] /\ UNCHANGED <<tokenVersion, lag>>
      BY <1>2 DEF ReadVersion
    <3>2. r.user = u /\ r.token = req[p].token /\ r.seen = tokenVersion[u]
      BY DEF Request
    <3>3. tokenVersion[u] <= tokenVersion[u] /\ ~(tokenVersion[u] < tokenVersion[u])
      BY <1>1, <2>1
    <3> HIDE DEF r
    <3> QED BY <2>1, <2>2, <3>1, <3>2, <3>3, RequestStep
  <2>4. UNCHANGED <<tokenVersion, cached, lag>>
    BY <1>2 DEF ReadVersion
  <2> QED BY <2>3, <2>4 DEF IInv, TypeOK, CacheNeverAhead, StaleEntryExpires
<1>3. CASE FillCache(p) \/ WriteThrough(p)
  <2> DEFINE u == req[p].user
             v == req[p].seen
  <2>1. /\ u \in Users /\ v \in Versions /\ req[p].token <= tokenVersion[u]
        /\ v <= tokenVersion[u]
        /\ v < tokenVersion[u] => lag[u][v] <= req[p].age
        /\ req[p].age \in 0..Latency
    <3>1. Carries(p) /\ InFlight(p)
      BY <1>3 DEF FillCache, WriteThrough, Carries, InFlight
    <3> QED BY <3>1, <1>1 DEF IInv, RequestsOwned, CarriedVersions, RequestType
  <2>2. CacheSet(u, v) /\ UNCHANGED <<tokenVersion, lag>>
    BY <1>3 DEF FillCache, WriteThrough
  <2>3. CacheNeverAhead' /\ StaleEntryExpires'
    <3> HIDE DEF u, v
    <3>1. lag[u][v] \in 0..(Window + 1) /\ req[p].age \in Nat /\ req[p].age <= Latency
      BY <2>1, <1>1
    <3>2. v < tokenVersion[u] => lag[u][v] <= Latency
      BY <3>1, <2>1
    <3> QED BY <2>1, <2>2, <3>2, SetKeepsCache
  <2>4. cached' \in [Users -> [version : Versions, ttl : 0..TTL]]
    BY <2>1, <2>2, CacheSetEffect DEF IInv
  <2>5. PICK r : /\ req' = [req EXCEPT ![p] = r] /\ r \in RequestType
                 /\ r.at \in {"idle", "serving"}
                 /\ r.at = "serving" => r.user = u /\ r.token = req[p].token
    <3>1. CASE FillCache(p)
      <4> DEFINE s == Request("serving", u, req[p].token, 0)
      <4>1. s \in RequestType /\ s.at = "serving" /\ s.user = u /\ s.token = req[p].token
        BY <1>1, <2>1, RequestTyped DEF RequestType, Stages, Request, Versions
      <4>2. IdleRequest.at = "idle"
        BY DEF IdleRequest, Request
      <4> QED BY <3>1, <4>1, <4>2, IdleRequestType DEF FillCache
    <3>2. CASE WriteThrough(p)
      <4>1. req' = [req EXCEPT ![p] = IdleRequest] /\ IdleRequest.at = "idle"
        BY <3>2 DEF WriteThrough, IdleRequest, Request
      <4> QED BY <4>1, IdleRequestType
    <3> QED BY <1>3, <3>1, <3>2
  <2>6. /\ req' \in [Requests -> RequestType]
        /\ RequestsOwned' /\ CurrentHasNoLag' /\ CarriedVersions'
    BY <2>1, <2>2, <2>5, RequestStep
  <2> QED BY <2>2, <2>3, <2>4, <2>6 DEF IInv, TypeOK
<1> QED BY <1>2, <1>3 DEF Step

(* The steps that touch neither the table nor Redis and carry no version.  *)
LEMMA QuietIInv ==
  ASSUME IInv, NEW p \in Requests,
         \/ Finish(p) \/ Abort(p)
         \/ \E u \in Users, v \in Versions : CacheHit(p, u, v) \/ CacheMiss(p, u, v)
  PROVE  IInv'
<1>1. UNCHANGED <<tokenVersion, cached, lag>>
  BY DEF Finish, Abort, CacheHit, CacheMiss
<1>2. PICK r \in RequestType :
        /\ req' = [req EXCEPT ![p] = r]
        /\ r.at \in {"idle", "serving", "miss"}
        /\ r.at # "idle" => r.user \in Users /\ r.token <= tokenVersion[r.user]
  <2>1. CASE Finish(p) \/ Abort(p)
    BY <2>1, IdleRequestType DEF Finish, Abort
  <2>2. ASSUME NEW u \in Users, NEW v \in Versions, CacheHit(p, u, v) \/ CacheMiss(p, u, v)
        PROVE  \E r \in RequestType :
                 /\ req' = [req EXCEPT ![p] = r]
                 /\ r.at \in {"idle", "serving", "miss"}
                 /\ r.at # "idle" => r.user \in Users /\ r.token <= tokenVersion[r.user]
    <3>1. v <= tokenVersion[u] /\ 0 \in Versions
      BY <2>2, Constants DEF CacheHit, CacheMiss, Issued, Versions
    <3>2. CASE CacheHit(p, u, v)
      <4>1. Request("serving", u, v, 0) \in RequestType
        BY <3>1, RequestTyped DEF Stages
      <4> QED BY <3>1, <3>2, <4>1 DEF CacheHit, Request
    <3>3. CASE CacheMiss(p, u, v)
      <4>1. Request("miss", u, v, 0) \in RequestType
        BY <3>1, RequestTyped DEF Stages
      <4> QED BY <3>1, <3>3, <4>1 DEF CacheMiss, Request
    <3> QED BY <2>2, <3>2, <3>3
  <2> QED BY <2>1, <2>2
<1>3. /\ req' \in [Requests -> RequestType]
      /\ RequestsOwned' /\ CurrentHasNoLag' /\ CarriedVersions'
  BY <1>1, <1>2, RequestStep
<1> QED BY <1>1, <1>3 DEF IInv, TypeOK, CacheNeverAhead, StaleEntryExpires

(* An absent key is neither ahead nor stale.                               *)
LEMMA LoseKeyIInv == ASSUME IInv, NEW u \in Users, LoseKey(u) PROVE IInv'
<1>1. Absent \in [version : Versions, ttl : 0..TTL] /\ Absent.ttl = 0
  BY Constants DEF Absent, Versions
<1>2. cached \in [Users -> [version : Versions, ttl : 0..TTL]]
  BY DEF IInv, TypeOK
<1>3. \A w \in Users : cached'[w] = IF w = u THEN Absent ELSE cached[w]
  BY <1>2 DEF LoseKey
<1>4. TypeOK'
  BY <1>1, <1>2 DEF LoseKey, IInv, TypeOK
<1>5. UNCHANGED <<tokenVersion, lag, req>>
  BY DEF LoseKey
<1>6. CacheNeverAhead' /\ StaleEntryExpires'
  BY <1>1, <1>3, <1>5 DEF IInv, CacheNeverAhead, StaleEntryExpires
<1>7. RequestsOwned' /\ CurrentHasNoLag' /\ CarriedVersions'
  BY <1>5 DEF IInv, RequestsOwned, CurrentHasNoLag, CarriedVersions, InFlight, Carries
<1> QED BY <1>4, <1>6, <1>7 DEF IInv

(* A bump makes the current version a superseded one, with no lag yet: what *)
(* was up to date in Redis or under way to it is now stale by zero ticks.   *)
LEMMA BumpIInv ==
  ASSUME IInv, NEW p \in Requests, NEW u \in Users, BumpTokenVersion(p, u)
  PROVE  IInv'
<1> USE Constants
<1>1. /\ tokenVersion \in [Users -> Versions]
      /\ \A w \in Users : tokenVersion[w] \in 0..MaxVersion
      /\ tokenVersion[u] < MaxVersion
      /\ req \in [Requests -> RequestType]
      /\ \A w \in Users : \A v \in Versions : lag[w][v] \in 0..(Window + 1)
      /\ \A w \in Users : cached[w] \in [version : Versions, ttl : 0..TTL]
  BY DEF IInv, TypeOK, Versions, BumpTokenVersion
<1> DEFINE b == tokenVersion[u] + 1
           r == Request("publish", u, 0, b)
<1>2. b \in Versions /\ 0 \in Versions
  BY <1>1 DEF Versions
<1>3. r \in RequestType
  BY <1>2, RequestTyped DEF Stages
<1>4. /\ tokenVersion' \in [Users -> Versions]
      /\ tokenVersion'[u] = b
      /\ \A w \in Users : w # u => tokenVersion'[w] = tokenVersion[w]
      /\ \A w \in Users : tokenVersion[w] <= tokenVersion'[w]
  BY <1>1, <1>2 DEF BumpTokenVersion
<1>5. /\ req' = [req EXCEPT ![p] = r] /\ UNCHANGED <<cached, lag>>
  BY DEF BumpTokenVersion
<1>6. \A q \in Requests : req'[q] = IF q = p THEN r ELSE req[q]
  BY <1>1, <1>5
<1>7. r.at = "publish" /\ r.user = u /\ r.token = 0 /\ r.seen = b
  BY DEF Request
<1>8. TypeOK'
  BY <1>1, <1>3, <1>4, <1>5 DEF IInv, TypeOK
<1> HIDE DEF r
<1>9. RequestsOwned'
  <2> SUFFICES ASSUME NEW q \in Requests, req'[q].at # "idle"
               PROVE  req'[q].user \in Users /\ req'[q].token <= tokenVersion'[req'[q].user]
    BY DEF RequestsOwned, InFlight
  <2>1. CASE q = p
    BY <2>1, <1>1, <1>4, <1>6, <1>7
  <2>2. CASE q # p
    <3>1. req[q].user \in Users /\ req[q].token <= tokenVersion[req[q].user]
      BY <2>2, <1>6 DEF IInv, RequestsOwned, InFlight
    <3>2. req[q].token \in Nat /\ tokenVersion[req[q].user] \in Nat /\ tokenVersion'[req[q].user] \in Nat
      BY <3>1, <1>1, <1>4 DEF RequestType, Versions
    <3> QED BY <2>2, <3>1, <3>2, <1>4, <1>6
  <2> QED BY <2>1, <2>2
<1>10. CurrentHasNoLag'
  <2> SUFFICES ASSUME NEW w \in Users, NEW v \in Versions, v >= tokenVersion'[w]
               PROVE  lag[w][v] = 0
    BY <1>5 DEF CurrentHasNoLag
  <2>1. v >= tokenVersion[w]
    BY <1>1, <1>4 DEF Versions
  <2> QED BY <2>1 DEF IInv, CurrentHasNoLag
<1>11. ASSUME NEW w \in Users, NEW v \in Versions, v <= tokenVersion[w],
              NEW n \in Nat, v < tokenVersion[w] => lag[w][v] <= n
       PROVE  v <= tokenVersion'[w] /\ lag[w][v] <= n
  <2>1. v \in Nat /\ tokenVersion[w] \in Nat /\ tokenVersion'[w] \in Nat /\ lag[w][v] \in Nat
    BY <1>1, <1>4 DEF Versions
  <2>2. v = tokenVersion[w] => lag[w][v] = 0
    BY <2>1 DEF IInv, CurrentHasNoLag
  <2> QED BY <1>4, <1>11, <2>1, <2>2
<1>12. CarriedVersions'
  <2> SUFFICES ASSUME NEW q \in Requests, req'[q].at \in {"fill", "publish"}
               PROVE  /\ req'[q].seen <= tokenVersion'[req'[q].user]
                      /\ req'[q].seen < tokenVersion'[req'[q].user] =>
                           lag[req'[q].user][req'[q].seen] <= req'[q].age
    BY <1>5 DEF CarriedVersions, Carries
  <2>1. CASE q = p
    BY <2>1, <1>2, <1>4, <1>6, <1>7 DEF Versions
  <2>2. CASE q # p
    <3>1. /\ req'[q] = req[q] /\ req[q].user \in Users /\ req[q].seen \in Versions
          /\ req[q].age \in Nat
      BY <2>2, <1>1, <1>6 DEF IInv, RequestsOwned, InFlight, RequestType
    <3>2. /\ req[q].seen <= tokenVersion[req[q].user]
          /\ req[q].seen < tokenVersion[req[q].user] =>
               lag[req[q].user][req[q].seen] <= req[q].age
      BY <3>1 DEF IInv, CarriedVersions, Carries
    <3> QED BY <3>1, <3>2, <1>11
  <2> QED BY <2>1, <2>2
<1>13. CacheNeverAhead' /\ StaleEntryExpires'
  <2> SUFFICES ASSUME NEW w \in Users, cached[w].ttl > 0
               PROVE  /\ cached[w].version <= tokenVersion'[w]
                      /\ lag[w][cached[w].version] + cached[w].ttl <= Window
    BY <1>5 DEF CacheNeverAhead, StaleEntryExpires
  <2> DEFINE v == cached[w].version
             n == Window - cached[w].ttl
  <2>1. v \in Versions /\ v <= tokenVersion[w] /\ cached[w].ttl \in 0..TTL
    BY <1>1 DEF IInv, CacheNeverAhead
  <2>2. lag[w][v] \in Nat /\ n \in Nat
    BY <1>1, <2>1
  <2>3. v < tokenVersion[w] => lag[w][v] <= n
    BY <1>1, <2>1, <2>2 DEF IInv, StaleEntryExpires
  <2>4. v <= tokenVersion'[w] /\ lag[w][v] <= n
    BY <2>1, <2>2, <2>3, <1>11
  <2> QED BY <2>1, <2>2, <2>4
<1> QED BY <1>8, <1>9, <1>10, <1>12, <1>13 DEF IInv

(* Every step preserves the invariant.                                     *)
LEMMA NextIInv == IInv /\ [Next]_vars => IInv'
<1> SUFFICES ASSUME IInv, [Next]_vars PROVE IInv'
  OBVIOUS
<1>1. CASE Tick
  BY <1>1, TickIInv
<1>2. ASSUME NEW u \in Users, LoseKey(u) PROVE IInv'
  BY <1>2, LoseKeyIInv
<1>3. ASSUME NEW p \in Requests, Step(p) PROVE IInv'
  BY <1>3, StepIInv
<1>4. ASSUME NEW p \in Requests, Finish(p) \/ Abort(p) PROVE IInv'
  BY <1>4, QuietIInv
<1>5. ASSUME NEW p \in Requests, NEW u \in Users, BumpTokenVersion(p, u) PROVE IInv'
  BY <1>5, BumpIInv
<1>6. ASSUME NEW p \in Requests, NEW u \in Users, NEW v \in Versions,
             CacheHit(p, u, v) \/ CacheMiss(p, u, v)
      PROVE  IInv'
  BY <1>6, QuietIInv
<1>7. CASE UNCHANGED vars
  BY <1>7 DEF vars, IInv, TypeOK, RequestsOwned, CurrentHasNoLag, CarriedVersions,
     CacheNeverAhead, StaleEntryExpires, InFlight, Carries
<1> QED BY <1>1, <1>2, <1>3, <1>4, <1>5, <1>6, <1>7 DEF Next

(* The invariant that carries the rest holds in every reachable state.     *)
THEOREM Invariance == Spec => []IInv
<1>1. Init => IInv
  BY InitIInv
<1>2. IInv /\ [Next]_vars => IInv'
  BY NextIInv
<1> QED BY <1>1, <1>2, PTL DEF Spec

(* The state of the tokens, the cache and the requests stays well-typed.   *)
THEOREM TypeCorrect == Spec => []TypeOK
<1>1. IInv => TypeOK
  BY DEF IInv
<1> QED BY <1>1, Invariance, PTL

(* No fill and no write-through leaves a version in Redis that the users   *)
(* row has not reached.                                                    *)
THEOREM CacheIsNeverAhead == Spec => []CacheNeverAhead
<1>1. IInv => CacheNeverAhead
  BY DEF IInv
<1> QED BY <1>1, Invariance, PTL

(* Whatever races with the bump, a stale entry is gone TTL plus one round  *)
(* trip after it.                                                          *)
THEOREM StaleEntriesExpire == Spec => []StaleEntryExpires
<1>1. IInv => StaleEntryExpires
  BY DEF IInv
<1> QED BY <1>1, Invariance, PTL

-----------------------------------------------------------------------------

Honoured(u, v) == v = tokenVersion[u] \/ (v < tokenVersion[u] /\ lag[u][v] <= Window)

(* The two ways into a handler: the version matched the cached one, or the *)
(* one just read from the table.                                           *)
LEMMA HitHonoured ==
  ASSUME IInv, NEW p \in Requests, NEW u \in Users, NEW v \in Versions, CacheHit(p, u, v)
  PROVE  Honoured(u, v)
<1>1. cached[u].ttl > 0 /\ cached[u].version = v /\ v <= tokenVersion[u]
  BY DEF CacheHit, Issued
<1>2. /\ tokenVersion[u] \in Nat /\ v \in Nat
      /\ lag[u][v] \in Nat /\ cached[u].ttl \in Nat
  BY Constants DEF IInv, TypeOK, Versions
<1>3. v < tokenVersion[u] => lag[u][v] + cached[u].ttl <= Window
  BY <1>1 DEF IInv, StaleEntryExpires
<1> QED BY <1>1, <1>2, <1>3, Constants DEF Honoured

(* A fill lets a token through that the table honoured a round trip ago.   *)
LEMMA FillHonoured ==
  ASSUME IInv, NEW p \in Requests, FillCache(p), req[p].token = req[p].seen
  PROVE  req[p].user \in Users /\ req[p].token \in Versions /\ Honoured(req[p].user, req[p].token)
<1> DEFINE u == req[p].user
           v == req[p].seen
<1>1. Carries(p) /\ InFlight(p) /\ req[p] \in RequestType
  BY DEF FillCache, Carries, InFlight, IInv, TypeOK
<1>2. u \in Users /\ v \in Versions /\ req[p].age \in 0..Latency
  BY <1>1 DEF IInv, RequestsOwned, RequestType
<1>3. /\ v <= tokenVersion[u]
      /\ v < tokenVersion[u] => lag[u][v] <= req[p].age
  BY <1>1 DEF IInv, CarriedVersions
<1>4. tokenVersion[u] \in Nat /\ v \in Nat /\ lag[u][v] \in Nat
  BY <1>2, Constants DEF IInv, TypeOK, Versions
<1> HIDE DEF u, v
<1>5. Honoured(u, v)
  BY <1>2, <1>3, <1>4, Constants DEF Honoured
<1> QED BY <1>2, <1>5 DEF u, v

(* Every step of the implementation is a step of the promise, or none.     *)
LEMMA NextRefines == IInv /\ [Next]_vars => [Revocation!Next]_(Revocation!vars)
<1> DEFINE Mapped(r) == IF r.at = "serving"
                          THEN [on |-> TRUE, version |-> r.token]
                          ELSE [on |-> FALSE, version |-> 0]
           serving == [p \in Requests |-> Mapped(req[p])]
<1> SUFFICES ASSUME IInv, [Next]_vars
             PROVE  Revocation!Next \/ UNCHANGED <<tokenVersion, lag, serving>>
  BY DEF Revocation!vars
<1> USE Constants
<1>0. ASSUME NEW p \in Requests, NEW u \in Users, NEW v \in Versions, Revocation!Accept(p, u, v)
      PROVE  Revocation!Next
  BY <1>0 DEF Revocation!Next, Revocation!Versions, Versions
<1>1. req \in [Requests -> RequestType]
  BY DEF IInv, TypeOK
<1>2. ASSUME NEW p \in Requests, NEW r, req' = [req EXCEPT ![p] = r]
      PROVE  serving' = [serving EXCEPT ![p] = Mapped(r)]
  BY <1>1, <1>2
<1>3. Mapped(IdleRequest) = Revocation!NotServing
  BY DEF IdleRequest, Request, Revocation!NotServing
<1>4. CASE Tick
  <2>1. serving' = serving
    BY <1>1, <1>4 DEF Tick
  <2>2. Revocation!Tick
    BY <1>4, <2>1 DEF Tick, Revocation!Tick, Revocation!Older, Older, Revocation!Versions, Versions
  <2> QED BY <2>2 DEF Revocation!Next
<1>5. ASSUME NEW u \in Users, LoseKey(u) PROVE UNCHANGED <<tokenVersion, lag, serving>>
  BY <1>5 DEF LoseKey
<1>6. ASSUME NEW p \in Requests, NEW u \in Users, NEW v \in Versions, CacheHit(p, u, v)
      PROVE  Revocation!Next
  <2>1. Honoured(u, v)
    BY <1>6, HitHonoured
  <2>2. Mapped(Request("serving", u, v, 0)) = [on |-> TRUE, version |-> v]
    BY DEF Request
  <2>3. serving' = [serving EXCEPT ![p] = [on |-> TRUE, version |-> v]]
    <3>1. req' = [req EXCEPT ![p] = Request("serving", u, v, 0)]
      BY <1>6 DEF CacheHit
    <3> QED BY <1>2, <2>2, <3>1
  <2>4. ~serving[p].on
    BY <1>6 DEF CacheHit
  <2>5. Revocation!Accept(p, u, v)
    BY <1>6, <2>1, <2>3, <2>4 DEF CacheHit, Revocation!Accept, Revocation!Honoured, Honoured
  <2> QED BY <2>5, <1>0
<1>7. ASSUME NEW p \in Requests, FillCache(p)
      PROVE  Revocation!Next \/ UNCHANGED <<tokenVersion, lag, serving>>
  <2>1. ~serving[p].on /\ serving[p] = Revocation!NotServing
    BY <1>7 DEF FillCache, Revocation!NotServing
  <2>2. UNCHANGED <<tokenVersion, lag>>
    BY <1>7 DEF FillCache
  <2>3. CASE req[p].token = req[p].seen
    <3>1. PICK u \in Users, v \in Versions :
            u = req[p].user /\ v = req[p].token /\ Honoured(u, v)
      BY <1>7, <2>3, FillHonoured
    <3>2. Mapped(Request("serving", u, v, 0)) = [on |-> TRUE, version |-> v]
      BY DEF Request
    <3>3. serving' = [serving EXCEPT ![p] = [on |-> TRUE, version |-> v]]
      <4>1. req' = [req EXCEPT ![p] = Request("serving", u, v, 0)]
        BY <1>7, <2>3, <3>1 DEF FillCache
      <4> QED BY <1>2, <4>1, <3>2
    <3>4. Revocation!Accept(p, u, v)
      BY <2>1, <2>2, <3>1, <3>3 DEF Revocation!Accept, Revocation!Honoured, Honoured
    <3> QED BY <3>4, <1>0
  <2>4. CASE req[p].token # req[p].seen
    <3>1. req' = [req EXCEPT ![p] = IdleRequest]
      BY <1>7, <2>4 DEF FillCache
    <3>2. serving' = [serving EXCEPT ![p] = Revocation!NotServing]
      BY <1>2, <1>3, <3>1
    <3> QED BY <2>1, <2>2, <3>2
  <2> QED BY <2>3, <2>4
<1>8. ASSUME NEW p \in Requests, NEW u \in Users, NEW v \in Versions, CacheMiss(p, u, v)
      PROVE  UNCHANGED <<tokenVersion, lag, serving>>
  <2>1. Mapped(Request("miss", u, v, 0)) = [on |-> FALSE, version |-> 0]
    BY DEF Request
  <2>2. serving' = [serving EXCEPT ![p] = [on |-> FALSE, version |-> 0]]
    BY <1>2, <1>8, <2>1 DEF CacheMiss
  <2> QED BY <1>8, <2>2 DEF CacheMiss
<1>9. ASSUME NEW p \in Requests, ReadVersion(p)
      PROVE  UNCHANGED <<tokenVersion, lag, serving>>
  <2> DEFINE r == Request("fill", req[p].user, req[p].token, tokenVersion[req[p].user])
  <2>1. Mapped(r) = [on |-> FALSE, version |-> 0]
    BY DEF Request
  <2>2. req' = [req EXCEPT ![p] = r]
    BY <1>9 DEF ReadVersion
  <2> HIDE DEF r
  <2>3. serving' = [serving EXCEPT ![p] = [on |-> FALSE, version |-> 0]]
    BY <1>2, <2>1, <2>2
  <2> QED BY <1>9, <2>3 DEF ReadVersion
<1>10. ASSUME NEW p \in Requests, WriteThrough(p) \/ Finish(p) \/ Abort(p)
       PROVE  Revocation!Next
  <2>1. req' = [req EXCEPT ![p] = IdleRequest] /\ UNCHANGED <<tokenVersion, lag>>
    BY <1>10 DEF WriteThrough, Finish, Abort
  <2>2. serving' = [serving EXCEPT ![p] = Revocation!NotServing]
    BY <1>2, <1>3, <2>1
  <2>3. Revocation!Finish(p)
    BY <2>1, <2>2 DEF Revocation!Finish
  <2> QED BY <2>3 DEF Revocation!Next
<1>11. ASSUME NEW p \in Requests, NEW u \in Users, BumpTokenVersion(p, u)
       PROVE  Revocation!Next
  <2> DEFINE r == Request("publish", u, 0, tokenVersion[u] + 1)
  <2>1. Mapped(r) = Revocation!NotServing
    BY DEF Request, Revocation!NotServing
  <2>2. req' = [req EXCEPT ![p] = r]
    BY <1>11 DEF BumpTokenVersion
  <2> HIDE DEF r
  <2>3. serving' = [serving EXCEPT ![p] = Revocation!NotServing]
    BY <1>2, <2>1, <2>2
  <2>4. Revocation!Revoke(p, u)
    BY <1>11, <2>3 DEF BumpTokenVersion, Revocation!Revoke
  <2> QED BY <2>4 DEF Revocation!Next
<1>12. CASE UNCHANGED vars
  BY <1>12 DEF vars
<1> QED BY <1>4, <1>5, <1>6, <1>7, <1>8, <1>9, <1>10, <1>11, <1>12 DEF Next, Step

(* Nobody is served and nothing is revoked at first, in the promise too.    *)
LEMMA InitRefines == Init => Revocation!Init
  BY DEF Init, Revocation!Init, IdleRequest, Request, Revocation!NotServing,
     Versions, Revocation!Versions

(* The cache, its late fills and its overtaken write-throughs implement    *)
(* revocation within Window ticks.                                         *)
THEOREM Refinement == Spec => ImplementsRevocation
<1>1. Init => Revocation!Init
  BY InitRefines
<1>2. IInv /\ [Next]_vars => [Revocation!Next]_(Revocation!vars)
  BY NextRefines
<1> QED BY <1>1, <1>2, Invariance, PTL DEF Spec, ImplementsRevocation, Revocation!Spec

(* authenticate calls next() for a superseded token only within Window     *)
(* ticks of the bump that superseded it.                                   *)
THEOREM StalenessIsBounded == Spec => BoundedStaleness
<1> DEFINE A == \A p \in Requests : Admitted(p) =>
                  LET u == req'[p].user
                      v == req'[p].token
                  IN  v = tokenVersion[u] \/ (v < tokenVersion[u] /\ lag[u][v] <= Window)
<1>1. IInv /\ [Next]_vars => [A]_vars
  <2> SUFFICES ASSUME IInv, Next, NEW p \in Requests, Admitted(p)
               PROVE  Honoured(req'[p].user, req'[p].token)
    BY DEF Honoured
  <2>1. req \in [Requests -> RequestType]
    BY DEF IInv, TypeOK
  <2>2. req[p].at # "serving" /\ req'[p].at = "serving"
    BY DEF Admitted
  <2>3. ASSUME NEW q \in Requests, NEW r, req' = [req EXCEPT ![q] = r]
        PROVE  q = p /\ r = req'[p] /\ r.at = "serving"
    BY <2>1, <2>2, <2>3
  <2>4. ~Tick /\ ~\E u \in Users : LoseKey(u)
    <3>1. Tick => req'[p].at = req[p].at
      BY <2>1 DEF Tick, RequestType
    <3>2. (\E u \in Users : LoseKey(u)) => req' = req
      BY DEF LoseKey
    <3> QED BY <2>2, <3>1, <3>2
  <2>5. ASSUME NEW q \in Requests, NEW u \in Users, NEW v \in Versions, CacheHit(q, u, v)
        PROVE  Honoured(req'[p].user, req'[p].token)
    <3>1. req'[p] = Request("serving", u, v, 0)
      BY <2>3, <2>5 DEF CacheHit
    <3> QED BY <2>5, <3>1, HitHonoured DEF Request
  <2>6. ASSUME NEW q \in Requests, FillCache(q)
        PROVE  Honoured(req'[p].user, req'[p].token)
    <3>1. CASE req[q].token = req[q].seen
      <4>1. req' = [req EXCEPT ![q] = Request("serving", req[q].user, req[q].token, 0)]
        BY <2>6, <3>1 DEF FillCache
      <4>2. q = p /\ req'[p] = Request("serving", req[q].user, req[q].token, 0)
        BY <2>3, <4>1
      <4> QED BY <2>6, <3>1, <4>2, FillHonoured DEF Request
    <3>2. CASE req[q].token # req[q].seen
      <4>1. req' = [req EXCEPT ![q] = IdleRequest]
        BY <2>6, <3>2 DEF FillCache
      <4> QED BY <2>3, <4>1, IdleRequestType
    <3> QED BY <3>1, <3>2
  <2>7. ASSUME NEW q \in Requests PROVE ~(WriteThrough(q) \/ Finish(q) \/ Abort(q))
    BY <2>3, IdleRequestType DEF WriteThrough, Finish, Abort
  <2>8. ASSUME NEW q \in Requests PROVE ~ReadVersion(q)
    <3>1. \A u, v, w : Request("fill", u, v, w).at # "serving"
      BY DEF Request
    <3> QED BY <2>3, <3>1 DEF ReadVersion
  <2>9. ASSUME NEW q \in Requests, NEW u \in Users, NEW v \in Versions
        PROVE  ~BumpTokenVersion(q, u) /\ ~CacheMiss(q, u, v)
    <3>1. \A w : Request("publish", u, 0, w).at # "serving" /\ Request("miss", u, v, 0).at # "serving"
      BY DEF Request
    <3> QED BY <2>3, <3>1 DEF BumpTokenVersion, CacheMiss
  <2>10. 0 \in Versions
    BY Constants DEF Versions
  <2> QED BY <2>4, <2>5, <2>6, <2>7, <2>8, <2>9, <2>10 DEF Next, Step
<1> QED BY <1>1, Invariance, PTL DEF Spec, BoundedStaleness
=============================================================================
