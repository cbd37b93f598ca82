---------------------------- MODULE WebAppProofs ----------------------------
(***************************************************************************)
(* For any accounts, bounds and order of requests, queries, answers,       *)
(* reloads and failures: the tab shows whom its cookies act for, a logout  *)
(* and a deletion stay what they are but for a refresh they ran beside, and*)
(* a lone tab is called a thief only when it lost an answer, when a refresh*)
(* broke off, or when one met what revokes sessions.                       *)
(*                                                                         *)
(* Every property relates the store to cookies and rows that it does not   *)
(* see; the invariant says what the requests on their way may still do to  *)
(* them.  Unless one is late, the answers on their way are about the owner *)
(* of the cookies (Punctual).  After a logout the refresh tokens at hand   *)
(* are dead and no refresh is past its lookup (Spent), since they are all  *)
(* of the owner who logged out (OneOwner).  Of a deleted account nothing is*)
(* left in the tab but attempts to get back in (Left).  While nothing was  *)
(* lost, broke off or overlapped, what issues and what revokes keep apart  *)
(* (Apart), so that every refresh token at hand renews unless an answer is *)
(* on its way that replaces it (Current).                                  *)
(*                                                                         *)
(* Steps are proved in classes: those that only end requests (CalmStep),   *)
(* those that send one, loads of the page, the answers of a sign-in, a     *)
(* refresh, a logout and a deletion one by one, and what the service makes *)
(* of a request (Served): its row stays, it moves, or a refresh gets on.   *)
(***************************************************************************)
EXTENDS WebApp, TLAPS

-----------------------------------------------------------------------------
(* The types *)
Rows == [deleted : BOOLEAN, version : Nat, issued : Nat, live : SUBSET Nat, recent : SUBSET Nat]
Taking == {"sent"} \cup Rotating
Calls == [at : {"idle", "waiting", "answered"} \cup Taking, who : Accounts \cup {None},
          jar : Jars \cup {None}, status : {0, 200, 400, 401}, retried : BOOLEAN, late : BOOLEAN]
Orphans == [kind : Changing, at : Taking, who : Accounts \cup {None}, jar : Jars \cup {None}]
Tabs == [path : Paths, user : Accounts \cup {None}, hydrated : BOOLEAN]
Histories == [left : BOOLEAN, crossed : BOOLEAN, over : BOOLEAN, straddled : BOOLEAN,
              overlap : BOOLEAN, lost : BOOLEAN, broken : BOOLEAN]

Retrying == {"logout", "me", "update", "delete"}

(* Whom a request that was sent is for. *)
Addressed(k, w, j) == IF k \in Named THEN w \in Accounts ELSE w = Owner(j)

(* No cookie is newer than the newest refresh token of its owner. *)
Fits(j) == j # None => j.serial <= account[j.who].issued

(* A request at the service, and one that nobody awaits. *)
Underway(k, c) ==
  /\ c.at = "sent" => Addressed(k, c.who, c.jar)
  /\ c.at \in Rotating => k = "refresh" /\ c.jar # None /\ c.who = c.jar.who
Astray(o) == o \in Orphans /\ Underway(o.kind, o) /\ Fits(o.jar)

Shape(k, c) ==
  /\ c.at = "idle" => c = Idle
  /\ Underway(k, c)
  /\ c.at = "waiting" => k \in Retrying /\ c.jar = None
  /\ c.at = "answered" =>
       /\ c.status # 0
       /\ c.status = 200 => c.who \in Accounts /\ (k \in Issuing => c.jar # None)
       /\ c.jar # None => k \in Issuing /\ c.status = 200 /\ c.jar.who = c.who

Accountable ==
  /\ account \in [Accounts -> Rows]
  /\ \A a \in Accounts : account[a].live \subseteq 1..account[a].issued

Carried ==
  /\ jar \in Jars \cup {None} /\ Fits(jar)
  /\ call \in [Kinds -> Calls]
  /\ \A k \in Kinds : Shape(k, call[k]) /\ Fits(call[k].jar)
  /\ \A o \in orphans : Astray(o)

Shown ==
  /\ tab \in Tabs /\ history \in Histories /\ troubles \in Nat
  /\ tab.user # None => tab.hydrated
  /\ tab.hydrated <=> call["hydrate"] = Idle
  /\ ~tab.hydrated => \A k \in Kinds \ {"hydrate"} : call[k] = Idle
  /\ call["refresh"] = Idle => \A k \in Kinds : call[k].at # "waiting"

TypeInv == Accountable /\ Carried /\ Shown

-----------------------------------------------------------------------------
(* Whom the answers are about that tell the tab who is there. *)
Punctual ==
  ~history.crossed =>
    \A k \in Telling : call[k].at \notin {"idle", "waiting"} /\ ~call[k].late => call[k].who = Owner(jar)

(* Once signed out the tab shows nobody and has no cookies, unless an      *)
(* answer crossed.                                                         *)
Bare == history.left /\ ~history.crossed => tab.user = None /\ jar = None

Dead(j) == ~Renews(j)
(* The cookies that a logout may meet. *)
Held == {jar} \cup {call[k].jar : k \in {"logout", "refresh"}}
OneOwner == ~history.over => \A i, j \in Held : i # None /\ j # None => i.who = j.who
Spent ==
  (history.left \/ Answered("logout", 200)) /\ ~history.over /\ ~history.straddled =>
    Dead(jar) /\ Dead(call["refresh"].jar) /\ call["refresh"].at \notin Rotating

-----------------------------------------------------------------------------
(* Nothing of the tab is about account a, but an attempt to get back in. *)
Gone(a) ==
  /\ tab.user # a /\ Owner(jar) # a
  /\ \A k \in Kinds : call[k].who = a => k \in Named /\ ~Answered(k, 200)
Known == orphans # {} => history.lost
Left == ~history.lost => \A a \in Accounts : account[a].deleted => (Answered("delete", 200) /\ call["delete"].who = a) \/ Gone(a)

-----------------------------------------------------------------------------
(* No answer was lost, no refresh broke off, and nothing that revokes ran  *)
(* beside what issues.                                                     *)
Tidy == ~history.lost /\ ~history.overlap /\ ~history.broken
Apart ==
  /\ call["refresh"] # Idle => \A l \in Revoking : ~Sent(l) /\ ~Answered(l, 200)
  /\ call["login"] # Idle => \A l \in Revoking : call[l] = Idle
  /\ call["confirm"] # Idle => \A l \in {"login", "logout", "delete"} : call[l] = Idle
Alive(j) == j # None => Renews(j)
Apiece(i, j) == i # None /\ j # None => i.who # j.who \/ i.serial # j.serial
(* No answer is on its way that replaces or clears the cookies. *)
Settled ==
  /\ \A k \in Revoking \cup {"refresh"} : ~Answered(k, 200)
  /\ call["refresh"].at \notin {"rotated", "signed"}
Current ==
  /\ call["refresh"].at \in {"sent", "found"} => Alive(call["refresh"].jar)
  /\ \A k \in Issuing : Answered(k, 200) => Alive(call[k].jar)
  /\ Settled => Alive(jar)
  /\ Answered("login", 200) => Apiece(call["login"].jar, jar) /\ Apiece(call["login"].jar, call["refresh"].jar)
Quiet == Tidy => Apart /\ Current

Safe == ShowsWhoItActsFor /\ Punctual /\ Bare /\ OneOwner /\ Spent /\ Known /\ Left /\ Quiet
IInv == TypeInv /\ Safe

-----------------------------------------------------------------------------
(* The fields of what the actions build. *)

LEMMA Nobody == \A a \in Accounts : a # None
BY AccountsAssumption

LEMMA IdleFields ==
  /\ Idle \in Calls /\ Idle.at = "idle" /\ Idle.who = None /\ Idle.jar = None /\ Idle.status = 0
  /\ Idle.retried = FALSE /\ Idle.late = FALSE
BY DEF Idle, Calls

LEMMA RequestFields ==
  ASSUME NEW a \in Accounts \cup {None}, NEW j \in Jars \cup {None}
  PROVE  /\ Request(a, j) \in Calls /\ Request(a, j).at = "sent" /\ Request(a, j).who = a
         /\ Request(a, j).jar = j /\ Request(a, j).status = 0 /\ Request(a, j).retried = FALSE
         /\ Request(a, j).late = FALSE
BY DEF Request, Idle, Calls, Taking

LEMMA WaitFields ==
  ASSUME NEW q \in Calls, NEW b \in BOOLEAN
  PROVE  LET r == [q EXCEPT !.at = "waiting", !.retried = b]
         IN r \in Calls /\ r.at = "waiting" /\ r.who = q.who /\ r.jar = q.jar /\ r.status = q.status
<1> DEFINE r == [q EXCEPT !.at = "waiting", !.retried = b]
<1>1. r \in Calls
  <2>1. "waiting" \in {"idle", "waiting", "answered"} \cup Taking
    OBVIOUS
  <2> QED
    BY <2>1 DEF Calls
<1>2. r.at = "waiting" /\ r.who = q.who /\ r.jar = q.jar /\ r.status = q.status
  BY DEF Calls
<1> QED
  BY <1>1, <1>2

AnswerOf(r, q, at, s, p) == r = [q EXCEPT !.at = at, !.status = s, !.jar = p]

LEMMA AnswerFields ==
  ASSUME NEW q \in Calls, NEW at \in {"answered"} \cup Rotating, NEW s \in {0, 200, 400, 401},
         NEW p \in Jars \cup {None}, NEW r, AnswerOf(r, q, at, s, p)
  PROVE  r \in Calls /\ r.at = at /\ r.status = s /\ r.jar = p /\ r.who = q.who /\ r.late = q.late
<1> DEFINE t == [at |-> at, who |-> q.who, jar |-> p, status |-> s, retried |-> q.retried, late |-> q.late]
<1>1. /\ q.who \in Accounts \cup {None} /\ q.retried \in BOOLEAN /\ q.late \in BOOLEAN
      /\ at \in {"idle", "waiting", "answered"} \cup Taking
  BY DEF Calls, Taking
<1>2. t \in Calls
  BY <1>1 DEF Calls
<1>3. r = t
  BY DEF AnswerOf, Calls
<1>4. t.at = at /\ t.status = s /\ t.jar = p /\ t.who = q.who /\ t.late = q.late
  OBVIOUS
<1> HIDE DEF t
<1> QED
  BY <1>2, <1>3, <1>4

LEMMA ResendFields ==
  ASSUME NEW q \in Calls, NEW c \in Calls
  PROVE  LET r == [q EXCEPT !.retried = c.retried]
         IN r \in Calls /\ r.at = q.at /\ r.who = q.who /\ r.jar = q.jar /\ r.status = q.status
            /\ r.late = q.late
<1> DEFINE r == [q EXCEPT !.retried = c.retried]
<1>1. r \in Calls
  BY DEF Calls
<1>2. r.at = q.at /\ r.who = q.who /\ r.jar = q.jar /\ r.status = q.status /\ r.late = q.late
  BY DEF Calls
<1> QED
  BY <1>1, <1>2

LEMMA TabFields ==
  ASSUME NEW t \in Tabs
  PROVE  /\ \A a \in Accounts \cup {None} : /\ SetUser(t, a) \in Tabs /\ SetUser(t, a).user = a
                                            /\ SetUser(t, a).hydrated /\ SetUser(t, a).path = t.path
         /\ ClearAuth(t) \in Tabs /\ ClearAuth(t).user = None /\ ClearAuth(t).hydrated = t.hydrated
         /\ SetHydrated(t) \in Tabs /\ SetHydrated(t).user = t.user /\ SetHydrated(t).hydrated
         /\ \A p \in Paths : /\ Navigate(t, p) \in Tabs /\ Navigate(t, p).user = t.user
                              /\ Navigate(t, p).hydrated = t.hydrated
BY DEF SetUser, ClearAuth, SetHydrated, Navigate, Tabs

LEMMA LoadingFields ==
  ASSUME NEW p \in Paths
  PROVE  Loading(p) \in Tabs /\ Loading(p).user = None /\ ~Loading(p).hydrated
BY DEF Loading, Tabs

LEMMA GuardedFields ==
  ASSUME NEW t \in Tabs
  PROVE  Guarded(t) \in Tabs /\ Guarded(t).user = t.user /\ Guarded(t).hydrated = t.hydrated
<1> DEFINE there == IF ~t.hydrated \/ t.path \notin AppPaths \cup PublicPaths THEN t.path
                    ELSE IF t.user = None THEN IF t.path \in AppPaths THEN "login" ELSE t.path
                    ELSE IF t.user \in Unverified THEN "verify"
                    ELSE IF t.path \in PublicPaths THEN "dashboard" ELSE t.path
<1>1. there \in Paths
  BY DEF Tabs, Paths, AppPaths, PublicPaths
<1>2. Guarded(t) = [t EXCEPT !.path = there]
  BY DEF Guarded
<1> HIDE DEF there
<1> QED
  BY <1>1, <1>2 DEF Tabs

LEMMA OnErrorFields ==
  ASSUME NEW t \in Tabs, NEW k
  PROVE  /\ OnError(t, k) \in Tabs /\ OnError(t, k).user \in {t.user, None}
         /\ t.hydrated => OnError(t, k).hydrated
         /\ k = "hydrate" => OnError(t, k).hydrated
         /\ k \notin {"me", "hydrate"} => OnError(t, k).hydrated = t.hydrated
<1>1. "login" \in Paths
  BY DEF Paths, PublicPaths
<1>2. /\ Navigate(ClearAuth(t), "login") \in Tabs /\ Navigate(ClearAuth(t), "login").user = None
      /\ Navigate(ClearAuth(t), "login").hydrated = t.hydrated
  BY <1>1, TabFields
<1>3. SetHydrated(ClearAuth(t)) \in Tabs /\ SetHydrated(ClearAuth(t)).user = None /\ SetHydrated(ClearAuth(t)).hydrated
  BY TabFields
<1>4. SetHydrated(t) \in Tabs /\ SetHydrated(t).user = t.user /\ SetHydrated(t).hydrated
  BY TabFields
<1> QED
  BY <1>2, <1>3, <1>4 DEF OnError

(* What is left behind: requests that the service has, with their cookies. *)
LEMMA OrphanedFields ==
  ASSUME TypeInv, NEW ks \in SUBSET Kinds
  PROVE  /\ \A o \in Orphaned(ks) : Astray(o)
         /\ Orphaned(ks) # {} => orphans # {} \/ \E k \in ks \cap Changing : AtServer(k)
<1>1. ASSUME NEW k \in ks \cap Changing, AtServer(k)
      PROVE  Astray([kind |-> k, at |-> call[k].at, who |-> call[k].who, jar |-> call[k].jar])
  <2>1. PICK c : c = call[k]
    OBVIOUS
  <2>2. c \in Calls /\ c.at \in Taking /\ Underway(k, c) /\ Fits(c.jar)
    BY <1>1, <2>1 DEF TypeInv, Carried, Shape, AtServer, Taking
  <2>3. PICK o : o = [kind |-> k, at |-> c.at, who |-> c.who, jar |-> c.jar]
    OBVIOUS
  <2>4. o \in Orphans /\ o.kind = k /\ o.at = c.at /\ o.who = c.who /\ o.jar = c.jar
    BY <2>2, <2>3 DEF Calls, Orphans
  <2>5. Astray(o)
    BY <2>2, <2>4 DEF Astray, Underway
  <2> QED
    BY <2>1, <2>3, <2>5
<1> QED
  BY <1>1 DEF TypeInv, Carried, Orphaned

LEMMA PendingIs == \A k \in Kinds : TypeInv => (k \in Pending <=> call[k] # Idle)
BY IdleFields DEF TypeInv, Carried, Shape, Pending

-----------------------------------------------------------------------------
(* A step that ends requests without what they answered is calm: a page    *)
(* is left, a request fails, the access cookie expires.                    *)

(* Rows that differ in nothing the invariant speaks of. *)
SameRows ==
  /\ account' \in [Accounts -> Rows]
  /\ \A a \in Accounts : /\ account'[a].deleted = account[a].deleted /\ account'[a].live = account[a].live
                         /\ account'[a].issued = account[a].issued
SameCookies == jar' = jar \/ (jar # None /\ jar' = [jar EXCEPT !.fresh = FALSE])
Remembered ==
  /\ history' \in Histories /\ (history.lost => history'.lost)
  /\ history'.left = history.left /\ history'.crossed = history.crossed /\ history'.over = history.over
  /\ history'.straddled = history.straddled /\ history'.overlap = history.overlap
  /\ history'.broken = history.broken
CalmTab ==
  /\ tab' \in Tabs /\ tab'.user \in {tab.user, None}
  /\ tab.hydrated => tab'.hydrated
  /\ tab'.hydrated <=> call'["hydrate"] = Idle
(* A refresh that fails after its revocation is not calm while others may  *)
(* take it for one that renewed its cookies.                               *)
CalmStep ==
  /\ SameRows /\ SameCookies /\ Remembered /\ CalmTab /\ troubles' \in Nat
  /\ call' \in [Kinds -> Calls]
  /\ \A k \in Kinds : call'[k] = call[k] \/ (call'[k] = Idle /\ ~Answered(k, 200))
  /\ call["refresh"].at \in {"rotated", "signed"} => call'["refresh"] = call["refresh"] \/ history'.lost
  /\ call'["refresh"] = Idle => \A k \in Kinds : call'[k].at # "waiting"
  /\ orphans' = orphans \/ history'.lost
  /\ \A o \in orphans' : Astray(o)

LEMMA RowsStay ==
  ASSUME TypeInv, SameRows
  PROVE  /\ Accountable'
         /\ \A j \in Jars \cup {None} : (Fits(j)' <=> Fits(j)) /\ (Renews(j)' <=> Renews(j))
BY DEF TypeInv, Accountable, SameRows, Fits, Renews, Jars

LEMMA CalmInvariant ==
  ASSUME IInv, CalmStep
  PROVE  IInv'
<1>0. TypeInv /\ Safe /\ call \in [Kinds -> Calls] /\ {"hydrate", "refresh", "login", "logout", "delete", "confirm"} \subseteq Kinds
  BY DEF IInv, TypeInv, Carried, Kinds
<1>1. /\ SameRows /\ call' \in [Kinds -> Calls] /\ Remembered
      /\ jar \in Jars \cup {None}
  BY <1>0 DEF CalmStep, TypeInv, Carried
<1>2. /\ jar' \in Jars \cup {None} /\ (jar' # None => jar # None /\ jar'.who = jar.who /\ jar'.serial = jar.serial)
      /\ (jar = None <=> jar' = None)
  BY <1>1, NoneAssumption DEF CalmStep, SameCookies, Jars
<1>3. \A k \in Kinds : call'[k] = call[k] \/ (call'[k] = Idle /\ ~Answered(k, 200))
  BY DEF CalmStep
<1>4. \A k \in Kinds : Answered(k, 200)' <=> Answered(k, 200)
  BY <1>3, IdleFields DEF Answered
<1>5. \A k \in Kinds : call'[k].at # "idle" => call'[k] = call[k]
  BY <1>3, IdleFields
<1>6. \A j \in Jars \cup {None} : (Fits(j)' <=> Fits(j)) /\ (Renews(j)' <=> Renews(j))
  BY <1>0, <1>1, RowsStay
<1>7. \A k \in Kinds : call[k].jar \in Jars \cup {None}
  BY <1>0 DEF Calls
<1>8. (Fits(jar') <=> Fits(jar)) /\ (Renews(jar') <=> Renews(jar))
  BY <1>2 DEF Fits, Renews
<1>9. TypeInv'
  <2>1. Accountable'
    BY <1>0, <1>1, RowsStay
  <2>2. Carried'
    <3>1. Fits(jar)'
      BY <1>0, <1>2, <1>6, <1>8 DEF TypeInv, Carried, Fits
    <3>2. \A k \in Kinds : Shape(k, call'[k])
      BY <1>0, <1>3, IdleFields DEF TypeInv, Carried, Shape, Underway, Rotating
    <3>3. \A k \in Kinds : Shape(k, call[k])'
      BY <3>2 DEF Shape, Underway, Addressed
    <3>4. \A k \in Kinds : Fits(call[k].jar)'
      <4>1. \A k \in Kinds : call'[k].jar \in Jars \cup {None} /\ Fits(call'[k].jar)
        BY <1>0, <1>3, <1>7, IdleFields DEF TypeInv, Carried, Fits
      <4> QED
        BY <1>6, <4>1 DEF Fits
    <3>5. \A o \in orphans' : Astray(o)'
      <4>1. \A o \in orphans' : Astray(o) /\ o.jar \in Jars \cup {None}
        BY DEF CalmStep, Astray, Orphans
      <4> QED
        BY <1>6, <4>1 DEF Astray, Fits
    <3> QED
      BY <1>1, <1>2, <3>1, <3>3, <3>4, <3>5 DEF Carried
  <2>3. Shown'
    BY <1>0, <1>1, <1>3, IdleFields DEF TypeInv, Shown, CalmStep, CalmTab, Remembered
  <2> QED
    BY <2>1, <2>2, <2>3 DEF TypeInv
<1>10. ShowsWhoItActsFor' /\ Bare'
  BY <1>0, <1>1, <1>2 DEF Safe, ShowsWhoItActsFor, Bare, CalmStep, CalmTab, Remembered
<1>11. Owner(jar)' = Owner(jar)
  BY <1>1, <1>2 DEF Owner, CalmStep, SameCookies
<1>12. Punctual'
  BY <1>0, <1>1, <1>5, <1>11 DEF Safe, Punctual, Remembered, Telling, Kinds
<1>13. \A k \in Kinds : call'[k].jar # None => call[k].jar # None /\ call'[k].jar = call[k].jar
  BY <1>3, IdleFields
<1>14. OneOwner'
  BY <1>0, <1>1, <1>2, <1>13 DEF Safe, OneOwner, Held, Remembered
<1>15. Spent'
  <2>1. Renews(call["refresh"].jar)' => Renews(call["refresh"].jar)
    <3>1. call'["refresh"].jar \in {None, call["refresh"].jar} /\ call["refresh"].jar \in Jars \cup {None}
      BY <1>0, <1>7, <1>13
    <3> QED
      BY <1>6, <3>1 DEF Renews
  <2>2. Renews(jar)' => Renews(jar)
    BY <1>2, <1>6, <1>8 DEF Renews
  <2>3. call'["refresh"].at \in Rotating => call["refresh"].at \in Rotating
    BY <1>0, <1>5 DEF Rotating
  <2> QED
    BY <1>0, <1>1, <1>4, <2>1, <2>2, <2>3 DEF Safe, Spent, Remembered, Dead
<1>16. Known'
  BY <1>0, <1>1 DEF Safe, Known, CalmStep, Remembered
<1>17. Left'
  <2>1. ASSUME NEW a \in Accounts, Gone(a)
        PROVE  Gone(a)'
    BY <1>2, <1>3, <2>1, Nobody, IdleFields DEF Gone, CalmStep, CalmTab, Owner, Answered
  <2>2. call["delete"].who = call'["delete"].who \/ ~Answered("delete", 200)'
    BY <1>0, <1>3, <1>4
  <2> QED
    BY <1>0, <1>1, <1>4, <2>1, <2>2 DEF Safe, Left, Remembered, SameRows
<1>18. Quiet'
  <2> SUFFICES ASSUME Tidy'
               PROVE  Apart' /\ Current'
    BY DEF Quiet
  <2>1. Apart /\ Current
    BY <1>0, <1>1 DEF Safe, Quiet, Tidy, Remembered
  <2>2. Apart'
    BY <1>0, <1>3, <1>4, <1>5, <2>1, IdleFields DEF Apart, Revoking, Sent
  <2>3. \A j \in Jars \cup {None} : Alive(j)' <=> Alive(j)
    BY <1>6 DEF Alive
  <2>4. Settled' => Settled
    BY <1>0, <1>4 DEF Settled, Revoking, CalmStep, Tidy
  <2>5. Alive(jar)' <=> Alive(jar)
    BY <1>2, <1>6, <1>8 DEF Alive, Renews
  <2>6. \A k \in Issuing : Answered(k, 200)' => Answered(k, 200) /\ call'[k] = call[k]
    BY <1>4, <1>5 DEF Answered, Issuing, Kinds
  <2>7. /\ call'["refresh"].at \in {"sent", "found"} => call'["refresh"] = call["refresh"]
        /\ call'["refresh"].jar \in {None, call["refresh"].jar}
    BY <1>0, <1>5, <1>13
  <2>8. (Answered("login", 200) => Apiece(call["login"].jar, jar) /\ Apiece(call["login"].jar, call["refresh"].jar))'
    BY <1>2, <2>1, <2>6, <2>7 DEF Current, Apiece, Issuing
  <2>9. (call["refresh"].at \in {"sent", "found"} => Alive(call["refresh"].jar))'
    BY <1>0, <1>7, <2>1, <2>3, <2>7 DEF Current, Alive, Renews
  <2>10. (\A k \in Issuing : Answered(k, 200) => Alive(call[k].jar))'
    <3>1. \A k \in Issuing : call[k].jar \in Jars \cup {None}
      BY <1>7 DEF Issuing, Kinds
    <3> QED
      BY <2>1, <2>3, <2>6, <3>1 DEF Current, Alive, Renews
  <2> QED
    BY <2>1, <2>2, <2>4, <2>5, <2>8, <2>9, <2>10 DEF Current
<1> QED
  BY <1>9, <1>10, <1>12, <1>14, <1>15, <1>16, <1>17, <1>18 DEF IInv, Safe

-----------------------------------------------------------------------------
(* Which steps are calm. *)

LEMMA LostFields ==
  ASSUME NEW h \in Histories, NEW b \in BOOLEAN
  PROVE  LET r == [h EXCEPT !.lost = b]
         IN /\ r \in Histories /\ r.left = h.left /\ r.crossed = h.crossed /\ r.over = h.over
            /\ r.straddled = h.straddled /\ r.overlap = h.overlap /\ r.broken = h.broken /\ r.lost = b
<1> DEFINE r == [h EXCEPT !.lost = b]
<1>1. r \in Histories
  BY DEF Histories
<1>2. /\ r.left = h.left /\ r.crossed = h.crossed /\ r.over = h.over
      /\ r.straddled = h.straddled /\ r.overlap = h.overlap /\ r.broken = h.broken
  BY DEF Histories
<1>3. r.lost = b
  BY DEF Histories
<1> QED
  BY <1>1, <1>2, <1>3

LEMMA LosingFields ==
  ASSUME TypeInv, NEW ks \in SUBSET Kinds
  PROVE  /\ Losing(ks) \in BOOLEAN /\ (history.lost => Losing(ks))
         /\ Orphaned(ks) = orphans \/ Losing(ks)
         /\ (\E k \in ks \cap Changing : call[k] # Idle) => Losing(ks)
<1>1. history.lost \in BOOLEAN
  BY DEF TypeInv, Shown, Histories
<1>2. ASSUME NEW k \in ks \cap Changing, call[k] # Idle
      PROVE  Losing(ks)
  BY <1>2, PendingIs DEF Losing
<1>3. ASSUME NEW k \in ks \cap Changing, AtServer(k)
      PROVE  Losing(ks)
  BY <1>2, <1>3, IdleFields DEF AtServer, Rotating
<1> QED
  BY <1>1, <1>2, <1>3 DEF Losing, Orphaned

LEMMA OrphansStay ==
  ASSUME TypeInv
  PROVE  \A o \in orphans : Astray(o)
BY DEF TypeInv, Carried

LEMMA HereFields ==
  ASSUME TypeInv
  PROVE  /\ tab \in Tabs /\ jar \in Jars \cup {None} /\ call \in [Kinds -> Calls] /\ history \in Histories
         /\ troubles \in Nat /\ history.lost \in BOOLEAN
         /\ \A k \in Kinds : call[k] \in Calls /\ (call[k].at = "idle" => call[k] = Idle)
BY DEF TypeInv, Carried, Shown, Shape, Histories

(* A request fails, or is given up: the tab, and the requests. *)
LEMMA FailsCalm ==
  ASSUME IInv, NEW k \in Kinds, k # "refresh", call[k] # Idle, ~Answered(k, 200), Fails(k),
         Remembered, troubles' \in Nat, orphans' = orphans \/ history'.lost,
         \A o \in orphans' : Astray(o)
  PROVE  CalmStep
<1>0. TypeInv /\ {"hydrate", "refresh"} \subseteq Kinds
  BY DEF IInv, Kinds
<1>1. /\ account' = account /\ SameRows /\ jar' = jar /\ call' = [call EXCEPT ![k] = Idle]
      /\ tab' = Guarded(OnError(tab, k))
  BY <1>0 DEF Fails, Heard, SameRows, TypeInv, Accountable
<1>2. call' \in [Kinds -> Calls] /\ \A l \in Kinds : call'[l] = IF l = k THEN Idle ELSE call[l]
  BY <1>0, <1>1, HereFields, IdleFields
<1>3. PICK t : t = OnError(tab, k)
  OBVIOUS
<1>4. /\ t \in Tabs /\ t.user \in {tab.user, None} /\ (tab.hydrated => t.hydrated)
      /\ (k = "hydrate" => t.hydrated) /\ (k \notin {"me", "hydrate"} => t.hydrated = tab.hydrated)
  BY <1>0, <1>3, HereFields, OnErrorFields
<1>5. tab' \in Tabs /\ tab'.user = t.user /\ tab'.hydrated = t.hydrated
  BY <1>1, <1>3, <1>4, GuardedFields
<1>6. k # "hydrate" => tab.hydrated
  BY <1>0 DEF TypeInv, Shown
<1>7. tab.hydrated <=> call["hydrate"] = Idle
  BY <1>0 DEF TypeInv, Shown
<1>8. CalmTab
  BY <1>0, <1>2, <1>4, <1>5, <1>6, <1>7 DEF CalmTab
<1>9. call'["refresh"] = Idle => \A l \in Kinds : call'[l].at # "waiting"
  BY <1>0, <1>2, IdleFields DEF TypeInv, Shown
<1> QED
  BY <1>0, <1>1, <1>2, <1>8, <1>9 DEF CalmStep, SameCookies

LEMMA FailedCalm ==
  ASSUME IInv, NEW k \in Kinds, Failed(k)
  PROVE  CalmStep
<1>0. TypeInv
  BY DEF IInv
<1>1. k # "refresh" /\ call[k] # Idle /\ ~Answered(k, 200) /\ Fails(k)
  BY IdleFields DEF Failed, Answered
<1>2. history' = history /\ orphans' = orphans /\ troubles' = troubles
  BY DEF Failed
<1>3. Remembered
  BY <1>0, <1>2, HereFields DEF Remembered
<1> QED
  BY <1>0, <1>1, <1>2, <1>3, FailsCalm, OrphansStay, HereFields

LEMMA TimeoutCalm ==
  ASSUME IInv, NEW k \in Kinds, Timeout(k)
  PROVE  CalmStep
<1>0. TypeInv /\ {k} \in SUBSET Kinds
  BY DEF IInv
<1>1. k # "refresh" /\ call[k] # Idle /\ ~Answered(k, 200) /\ Fails(k)
  BY IdleFields DEF Timeout, Answered, AtServer, Rotating
<1>2. history' = [history EXCEPT !.lost = Losing({k})] /\ orphans' = Orphaned({k}) /\ troubles' = troubles + 1
  BY DEF Timeout
<1>3. Remembered /\ history'.lost = Losing({k})
  <2>1. PICK b : b = Losing({k})
    OBVIOUS
  <2>2. b \in BOOLEAN /\ (history.lost => b)
    BY <1>0, <2>1, LosingFields
  <2> QED
    BY <1>0, <1>2, <2>1, <2>2, HereFields, LostFields DEF Remembered
<1>4. troubles' \in Nat
  BY <1>0, <1>2, HereFields
<1> QED
  BY <1>0, <1>1, <1>2, <1>3, <1>4, FailsCalm, OrphanedFields, LosingFields

LEMMA ForgetFields ==
  ASSUME NEW r \in Rows
  PROVE  LET s == [r EXCEPT !.recent = {}]
         IN s \in Rows /\ s.deleted = r.deleted /\ s.live = r.live /\ s.issued = r.issued
<1> DEFINE s == [r EXCEPT !.recent = {}]
<1>1. s \in Rows
  BY DEF Rows
<1>2. s.deleted = r.deleted /\ s.live = r.live /\ s.issued = r.issued
  BY DEF Rows
<1> QED
  BY <1>1, <1>2

LEMMA ExpireCalm ==
  ASSUME IInv, Expire
  PROVE  CalmStep
<1>0. TypeInv
  BY DEF IInv
<1>1. /\ UNCHANGED <<tab, call, orphans, history, troubles>>
      /\ jar # None /\ jar' = [jar EXCEPT !.fresh = FALSE]
      /\ account' = [a \in Accounts |-> [account[a] EXCEPT !.recent = {}]]
  BY DEF Expire
<1>2. CalmTab /\ Remembered
  BY <1>0, <1>1 DEF TypeInv, Shown, CalmTab, Remembered
<1>3. call'["refresh"] = Idle => \A l \in Kinds : call'[l].at # "waiting"
  BY <1>0, <1>1 DEF TypeInv, Shown
<1>4. SameRows
  <2>1. \A a \in Accounts : account[a] \in Rows
    BY <1>0 DEF TypeInv, Accountable
  <2>2. \A a \in Accounts : LET s == [account[a] EXCEPT !.recent = {}]
                             IN /\ s \in Rows /\ s.deleted = account[a].deleted /\ s.live = account[a].live
                                /\ s.issued = account[a].issued
    BY <2>1, ForgetFields
  <2> QED
    BY <1>1, <2>2 DEF SameRows
<1> QED
  BY <1>0, <1>1, <1>2, <1>3, <1>4, OrphansStay, HereFields DEF CalmStep, SameCookies

LEMMA RefreshFailsCalm ==
  ASSUME IInv, OnRefreshFailed
  PROVE  CalmStep
<1>0. TypeInv /\ {"hydrate", "refresh"} \subseteq Kinds /\ {"refresh"} \in SUBSET Kinds
  BY DEF IInv, Kinds
<1>1. /\ RefreshFails /\ call["refresh"] # Idle /\ ~Answered("refresh", 200)
  BY IdleFields DEF OnRefreshFailed, Answered, AtServer, Rotating
<1> DEFINE W == Waiting \cup {"refresh"}
<1>2. /\ SameRows /\ jar' = jar
      /\ call' = [k \in Kinds |-> IF k \in W THEN Idle ELSE call[k]]
  BY <1>0, <1>1 DEF RefreshFails, SameRows, TypeInv, Accountable
<1>3. \A k \in W : k \in Kinds /\ ~Answered(k, 200)
  BY <1>0, <1>1 DEF Waiting, Answered
<1>4. \A k \in Kinds : k \notin W => call[k].at # "waiting"
  BY DEF Waiting
<1>5. "hydrate" \notin W
  BY <1>0 DEF TypeInv, Carried, Shape, Waiting, Retrying
<1> HIDE DEF W
<1>6. /\ call' \in [Kinds -> Calls]
      /\ \A k \in Kinds : call'[k] = IF k \in W THEN Idle ELSE call[k]
  BY <1>0, <1>2, HereFields, IdleFields
<1>7. tab.hydrated /\ call["hydrate"] = Idle
  BY <1>0, <1>1 DEF TypeInv, Shown
<1>8. CalmTab
  <2>1. PICK t0 : t0 = ClearAuth(tab)
    OBVIOUS
  <2>2. t0 \in Tabs /\ t0.user = None /\ t0.hydrated
    BY <1>0, <1>7, <2>1, HereFields, TabFields
  <2>3. PICK t1 : t1 = IF "me" \in Waiting THEN OnError(t0, "me") ELSE t0
    OBVIOUS
  <2>4. t1 \in Tabs /\ t1.user = None /\ t1.hydrated
    BY <2>2, <2>3, OnErrorFields
  <2>5. PICK t2 : t2 = IF "logout" \in Waiting THEN OnError(t1, "logout") ELSE t1
    OBVIOUS
  <2>6. t2 \in Tabs /\ t2.user = None /\ t2.hydrated
    BY <2>4, <2>5, OnErrorFields
  <2>7. tab' = Guarded(t2)
    BY <1>1, <2>1, <2>3, <2>5 DEF RefreshFails
  <2>8. tab' \in Tabs /\ tab'.user = None /\ tab'.hydrated
    BY <2>6, <2>7, GuardedFields
  <2> QED
    BY <1>0, <1>5, <1>6, <1>7, <2>8 DEF CalmTab
<1>9. \A k \in Kinds : call'[k].at # "waiting"
  BY <1>4, <1>6, IdleFields
<1>10. /\ Remembered /\ troubles' \in Nat /\ (orphans' = orphans \/ history'.lost)
       /\ \A o \in orphans' : Astray(o)
  <2>1. CASE UNCHANGED <<orphans, history, troubles>>
    BY <1>0, <2>1, OrphansStay, HereFields DEF Remembered
  <2>2. CASE /\ history' = [history EXCEPT !.lost = TRUE] /\ orphans' = Orphaned({"refresh"})
             /\ troubles' = troubles + 1
    <3>1. Remembered /\ history'.lost
      BY <1>0, <2>2, HereFields, LostFields DEF Remembered
    <3>2. troubles' \in Nat
      BY <1>0, <2>2, HereFields
    <3> QED
      BY <1>0, <2>2, <3>1, <3>2, OrphanedFields
  <2> QED
    BY <2>1, <2>2 DEF OnRefreshFailed
<1>11. call["refresh"].at \in {"rotated", "signed"} => history'.lost
  <2>1. CASE call["refresh"].at = "answered"
    BY <2>1
  <2>2. CASE history' = [history EXCEPT !.lost = TRUE]
    BY <1>0, <2>2, HereFields, LostFields
  <2> QED
    BY <2>1, <2>2 DEF OnRefreshFailed
<1> QED
  BY <1>2, <1>3, <1>6, <1>8, <1>9, <1>10, <1>11 DEF CalmStep, SameCookies

-----------------------------------------------------------------------------
(* A page sends a request. *)

SendStep(k, a) ==
  /\ UNCHANGED <<account, jar, orphans, troubles>>
  /\ call[k] = Idle /\ call' = [call EXCEPT ![k] = Request(a, Presented(k))]
  /\ tab.hydrated /\ tab' \in Tabs /\ tab'.user = tab.user /\ tab'.hydrated
  /\ history' \in Histories /\ history'.left = history.left /\ history'.crossed = history.crossed
  /\ history'.over = history.over /\ history'.straddled = history.straddled
  /\ history'.lost = history.lost /\ history'.broken = history.broken
  /\ history.overlap \/ (\E l \in Pending : Clash(k, l)) => history'.overlap

LEMMA SendInvariant ==
  ASSUME IInv, NEW k \in Kinds \ {"hydrate", "refresh"}, NEW a \in Accounts \cup {None},
         Addressed(k, a, jar), SendStep(k, a)
  PROVE  IInv'
<1>0. TypeInv /\ Safe /\ {"hydrate", "refresh", "login", "logout", "delete", "confirm"} \subseteq Kinds
  BY DEF IInv, Kinds
<1>1. /\ account' = account /\ jar' = jar /\ orphans' = orphans /\ troubles' = troubles /\ call[k] = Idle
      /\ jar \in Jars \cup {None} /\ call \in [Kinds -> Calls]
  BY <1>0, HereFields DEF SendStep
<1>2. PICK r : r = Request(a, Presented(k))
  OBVIOUS
<1>3. r \in Calls /\ r.at = "sent" /\ r.who = a /\ r.jar \in {jar, None} /\ (k \notin Named => r.jar = jar) /\ ~r.late
  <2>1. Presented(k) \in {jar, None} /\ (k \notin Named => Presented(k) = jar)
    BY DEF Presented
  <2>2. PICK j : j = Presented(k)
    OBVIOUS
  <2>3. j \in Jars \cup {None} /\ r = Request(a, j)
    BY <1>1, <1>2, <2>1, <2>2
  <2> QED
    BY <2>1, <2>2, <2>3, RequestFields
<1>4. call' \in [Kinds -> Calls] /\ call'[k] = r /\ \A l \in Kinds : l # k => call'[l] = call[l]
  BY <1>1, <1>2, <1>3 DEF SendStep
<1>5. \A l \in Kinds : Answered(l, 200)' <=> Answered(l, 200)
  BY <1>1, <1>3, <1>4, IdleFields DEF Answered
<1>6. /\ history' \in Histories /\ history'.left = history.left /\ history'.crossed = history.crossed
      /\ history'.over = history.over /\ history'.straddled = history.straddled
      /\ history'.lost = history.lost /\ history'.broken = history.broken
      /\ history.overlap \/ (\E l \in Pending : Clash(k, l)) => history'.overlap
  BY DEF SendStep
<1>7. tab.hydrated /\ tab' \in Tabs /\ tab'.user = tab.user /\ tab'.hydrated
  BY DEF SendStep
<1>8. TypeInv'
  <2>1. Accountable'
    BY <1>0, <1>1 DEF TypeInv, Accountable
  <2>2. Carried'
    <3>1. Fits(jar)' /\ \A o \in orphans' : Astray(o)'
      BY <1>0, <1>1 DEF TypeInv, Carried, Astray, Underway, Addressed, Fits
    <3>2. \A l \in Kinds : Shape(l, call[l])' /\ Fits(call[l].jar)'
      BY <1>0, <1>1, <1>3, <1>4, IdleFields DEF TypeInv, Carried, Fits, Shape, Underway, Rotating, Addressed
    <3> QED
      BY <1>0, <1>1, <1>4, <3>1, <3>2 DEF TypeInv, Carried
  <2>3. Shown'
    BY <1>0, <1>1, <1>3, <1>4, <1>6, <1>7, IdleFields DEF TypeInv, Shown
  <2> QED
    BY <2>1, <2>2, <2>3 DEF TypeInv
<1>9. Punctual'
  BY <1>0, <1>1, <1>3, <1>4, <1>6 DEF Safe, Punctual, Telling, Addressed, Named, Kinds
<1>10. ShowsWhoItActsFor' /\ Bare' /\ Known'
  BY <1>0, <1>1, <1>6, <1>7 DEF Safe, ShowsWhoItActsFor, Bare, Known
<1>11. OneOwner'
  <2>1. Held' \subseteq Held \cup {None}
    BY <1>0, <1>1, <1>3, <1>4 DEF Held
  <2> QED
    BY <1>0, <1>6, <2>1 DEF Safe, OneOwner
<1>12. Spent'
  BY <1>0, <1>1, <1>4, <1>5, <1>6 DEF Safe, Spent, Dead, Renews, Rotating
<1>13. Left'
  <2>1. ASSUME NEW b \in Accounts, Gone(b)
        PROVE  Gone(b)'
    BY <1>1, <1>3, <1>4, <1>7, <2>1, Nobody DEF Gone, Answered, Addressed
  <2>2. call["delete"].who = call'["delete"].who \/ ~Answered("delete", 200)'
    BY <1>0, <1>3, <1>4 DEF Answered
  <2> QED
    BY <1>0, <1>1, <1>5, <1>6, <2>1, <2>2 DEF Safe, Left
<1>14. Quiet'
  <2> SUFFICES ASSUME Tidy'
               PROVE  Apart' /\ Current'
    BY DEF Quiet
  <2>1. Apart /\ Current
    BY <1>0, <1>6 DEF Safe, Quiet, Tidy
  <2>2. \A l \in Kinds : call[l] # Idle => ~Clash(k, l)
    BY <1>0, <1>6, PendingIs DEF Tidy
  <2>3. Apart'
    BY <1>0, <1>1, <1>3, <1>4, <1>5, <2>1, <2>2, IdleFields DEF Apart, Clash, Revoking, Issuing, Sent
  <2>4. Current'
    BY <1>0, <1>1, <1>3, <1>4, <1>5, <2>1 DEF Current, Settled, Alive, Apiece, Renews, Revoking, Issuing, Answered
  <2> QED
    BY <2>3, <2>4
<1> QED
  BY <1>8, <1>10, <1>11, <1>12, <1>13, <1>14, <1>9 DEF IInv, Safe

LEMMA HistoryOverlaps ==
  ASSUME TypeInv, NEW b \in BOOLEAN
  PROVE  LET r == [history EXCEPT !.overlap = @ \/ b]
         IN /\ r \in Histories /\ r.left = history.left /\ r.crossed = history.crossed /\ r.over = history.over
            /\ r.straddled = history.straddled /\ r.lost = history.lost /\ r.broken = history.broken
            /\ (r.overlap <=> history.overlap \/ b)
<1> DEFINE c == history.overlap \/ b
           r == [history EXCEPT !.overlap = c]
<1>1. history \in Histories /\ c \in BOOLEAN
  BY DEF TypeInv, Shown, Histories
<1>2. r = [history EXCEPT !.overlap = @ \/ b]
  BY <1>1 DEF Histories
<1> HIDE DEF c
<1>3. r \in Histories
  BY <1>1 DEF Histories
<1>4. /\ r.left = history.left /\ r.crossed = history.crossed /\ r.over = history.over
      /\ r.straddled = history.straddled /\ r.lost = history.lost /\ r.broken = history.broken
  BY <1>1 DEF Histories
<1>5. r.overlap = c
  BY <1>1 DEF Histories
<1> QED
  BY <1>2, <1>3, <1>4, <1>5 DEF c

LEMMA SubmitInvariant ==
  ASSUME IInv, NEW k \in Kinds \ {"hydrate", "refresh"}, NEW a \in Accounts \cup {None},
         Addressed(k, a, jar), Submit(k, a)
  PROVE  IInv'
<1>0. TypeInv
  BY DEF IInv
<1>1. PICK b \in BOOLEAN : b <=> \E l \in Pending : Clash(k, l)
  OBVIOUS
<1>2. history' = [history EXCEPT !.overlap = @ \/ b]
  BY <1>1 DEF Submit
<1>3. SendStep(k, a)
  BY <1>0, <1>1, <1>2, HereFields, HistoryOverlaps DEF Submit, Send, SendStep
<1> QED
  BY <1>3, SendInvariant

LEMMA PersonSubmits ==
  ASSUME IInv,
         \/ \E a \in Accounts : Login(a) \/ handleConfirm(a)
         \/ Logout \/ UpdateProfile \/ DeleteAccount
  PROVE  IInv'
<1>1. Owner(jar) \in Accounts \cup {None}
  BY DEF IInv, TypeInv, Carried, Owner, Jars
<1>2. {"login", "confirm", "logout", "update", "delete"} \subseteq Kinds \ {"hydrate", "refresh"}
  BY DEF Kinds
<1>3. ASSUME NEW a \in Accounts, Login(a) PROVE IInv'
  <2>1. Addressed("login", a, jar) /\ Submit("login", a)
    BY <1>3 DEF Login, Addressed, Named
  <2> QED
    BY <1>2, <2>1, SubmitInvariant
<1>4. ASSUME NEW a \in Accounts, handleConfirm(a) PROVE IInv'
  <2>1. Addressed("confirm", a, jar) /\ Submit("confirm", a)
    BY <1>4 DEF handleConfirm, Addressed, Named
  <2> QED
    BY <1>2, <2>1, SubmitInvariant
<1>5. ASSUME NEW k \in {"logout", "update", "delete"}, Submit(k, Owner(jar)) PROVE IInv'
  <2>1. Addressed(k, Owner(jar), jar)
    BY <1>5 DEF Addressed, Named
  <2> QED
    BY <1>1, <1>2, <1>5, <2>1, SubmitInvariant
<1> QED
  BY <1>3, <1>4, <1>5 DEF Logout, UpdateProfile, DeleteAccount

LEMMA VisitInvariant ==
  ASSUME IInv, NEW p \in Paths, Visit(p)
  PROVE  IInv'
<1>0. TypeInv
  BY DEF IInv
<1>1. PICK t : t = Navigate(tab, p)
  OBVIOUS
<1>2. t \in Tabs /\ t.user = tab.user /\ t.hydrated = tab.hydrated
  BY <1>0, <1>1, HereFields, TabFields
<1>3. tab.hydrated /\ tab' \in Tabs /\ tab'.user = tab.user /\ tab'.hydrated
  BY <1>1, <1>2, GuardedFields DEF Visit
<1>4. UNCHANGED <<account, jar, orphans, history, troubles>>
  BY DEF Visit
<1>5. CASE UNCHANGED call
  <2>1. CalmTab /\ Remembered
    BY <1>0, <1>3, <1>4, <1>5 DEF TypeInv, Shown, CalmTab, Remembered
  <2>2. call'["refresh"] = Idle => \A l \in Kinds : call'[l].at # "waiting"
    BY <1>0, <1>5 DEF TypeInv, Shown
  <2>3. SameRows
    BY <1>0, <1>4 DEF SameRows, TypeInv, Accountable
  <2>4. CalmStep
    BY <1>0, <1>4, <1>5, <2>1, <2>2, <2>3, OrphansStay, HereFields DEF CalmStep, SameCookies
  <2> QED
    BY <2>4, CalmInvariant
<1>6. CASE Send("me", Owner(jar))
  <2>1. Owner(jar) \in Accounts \cup {None} /\ "me" \in Kinds \ {"hydrate", "refresh"}
    BY <1>0 DEF TypeInv, Carried, Owner, Jars, Kinds
  <2>2. Addressed("me", Owner(jar), jar)
    BY DEF Addressed, Named
  <2>3. ~ \E l \in Pending : Clash("me", l)
    BY DEF Clash, Revoking, Issuing
  <2>4. SendStep("me", Owner(jar))
    BY <1>0, <1>3, <1>4, <1>6, <2>3, HereFields DEF SendStep, Send
  <2> QED
    BY <2>1, <2>2, <2>4, SendInvariant
<1> QED
  BY <1>5, <1>6 DEF Visit

-----------------------------------------------------------------------------
(* The answers of the pages. *)

LEMMA IdleStays ==
  ASSUME TypeInv, NEW k \in Kinds, k # "hydrate", call[k] # Idle
  PROVE  tab.hydrated /\ call["hydrate"] = Idle
BY DEF TypeInv, Shown

LEMMA HeardFields ==
  ASSUME TypeInv, NEW k \in Kinds, call' = Heard(k)
  PROVE  call' \in [Kinds -> Calls] /\ \A l \in Kinds : call'[l] = IF l = k THEN Idle ELSE call[l]
BY HereFields, IdleFields DEF Heard

LEMMA LateFields ==
  ASSUME NEW q \in Calls
  PROVE  LET r == [q EXCEPT !.late = TRUE]
         IN r \in Calls /\ r.at = q.at /\ r.who = q.who /\ r.jar = q.jar /\ r.status = q.status /\ r.late
<1> DEFINE r == [q EXCEPT !.late = TRUE]
<1>1. r \in Calls
  BY DEF Calls
<1>2. r.at = q.at /\ r.who = q.who /\ r.jar = q.jar /\ r.status = q.status /\ r.late
  BY DEF Calls
<1> QED
  BY <1>1, <1>2

LEMMA OvertakenFields ==
  ASSUME TypeInv, NEW k \in Kinds, call' = Overtaken(k)
  PROVE  /\ call' \in [Kinds -> Calls] /\ call'[k] = Idle
         /\ \A l \in Kinds \ {k} :
              /\ call'[l].at = call[l].at /\ call'[l].who = call[l].who /\ call'[l].jar = call[l].jar
              /\ call'[l].status = call[l].status /\ (call'[l] = Idle <=> call[l] = Idle)
              /\ l \notin Telling => call'[l] = call[l]
              /\ l \in Telling /\ call'[l].at # "idle" => call'[l].late
<1>1. \A l \in Kinds : LET r == [call[l] EXCEPT !.late = TRUE]
                       IN /\ r \in Calls /\ r.at = call[l].at /\ r.who = call[l].who /\ r.jar = call[l].jar
                          /\ r.status = call[l].status /\ r.late
  BY HereFields, LateFields
<1>2. \A l \in Kinds : call'[l] = IF l = k THEN Idle
                                  ELSE IF l \in Telling \cap Pending THEN [call[l] EXCEPT !.late = TRUE]
                                  ELSE call[l]
  BY DEF Overtaken
<1>3. call' \in [Kinds -> Calls]
  <2>1. \A l \in Kinds : call'[l] \in Calls
    BY <1>1, <1>2, HereFields, IdleFields
  <2> QED
    BY <2>1 DEF Overtaken
<1>4. ASSUME NEW l \in Kinds \ {k}
      PROVE  /\ call'[l].at = call[l].at /\ call'[l].who = call[l].who /\ call'[l].jar = call[l].jar
             /\ call'[l].status = call[l].status /\ (call'[l] = Idle <=> call[l] = Idle)
             /\ l \notin Telling => call'[l] = call[l]
             /\ l \in Telling /\ call'[l].at # "idle" => call'[l].late
  <2>1. CASE l \in Telling \cap Pending
    <3>1. /\ call'[l].at = call[l].at /\ call'[l].who = call[l].who /\ call'[l].jar = call[l].jar
          /\ call'[l].status = call[l].status /\ call'[l].late
      BY <1>1, <1>2, <2>1
    <3>2. call[l] # Idle
      BY <2>1, PendingIs
    <3>3. call'[l] # Idle
      BY <3>1, IdleFields
    <3> QED
      BY <2>1, <3>1, <3>2, <3>3
  <2>2. CASE l \notin Telling \cap Pending
    <3>1. call'[l] = call[l]
      BY <1>2, <2>2
    <3>2. l \in Telling => call[l].at = "idle"
      BY <2>2 DEF Pending
    <3> QED
      BY <3>1, <3>2
  <2> QED
    BY <2>1, <2>2
<1> QED
  BY <1>2, <1>3, <1>4

LEMMA SignedInFields ==
  ASSUME TypeInv
  PROVE  /\ SignedIn \in Histories /\ ~SignedIn.left /\ ~SignedIn.crossed /\ ~SignedIn.straddled
         /\ (SignedIn.over <=> Pending \cap Unsettling # {})
         /\ SignedIn.overlap = history.overlap /\ SignedIn.lost = history.lost /\ SignedIn.broken = history.broken
<1>1. PICK b \in BOOLEAN : b = (Pending \cap Unsettling # {})
  OBVIOUS
<1> DEFINE r == [history EXCEPT !.left = FALSE, !.crossed = FALSE, !.straddled = FALSE, !.over = b]
<1>2. SignedIn = r
  BY <1>1 DEF SignedIn
<1>3. history \in Histories
  BY DEF TypeInv, Shown
<1>4. r \in Histories
  BY <1>3 DEF Histories
<1>5. /\ ~r.left /\ ~r.crossed /\ ~r.straddled
      /\ r.overlap = history.overlap /\ r.lost = history.lost /\ r.broken = history.broken
  BY <1>3 DEF Histories
<1>6. r.over = b
  BY <1>3 DEF Histories
<1> QED
  BY <1>1, <1>2, <1>4, <1>5, <1>6

LEMMA SignedOutFields ==
  ASSUME TypeInv
  PROVE  /\ SignedOut \in Histories /\ SignedOut.left /\ ~SignedOut.crossed
         /\ SignedOut.over = history.over /\ SignedOut.straddled = history.straddled
         /\ SignedOut.overlap = history.overlap /\ SignedOut.lost = history.lost /\ SignedOut.broken = history.broken
<1>1. history \in Histories
  BY DEF TypeInv, Shown
<1>2. SignedOut \in Histories
  BY <1>1 DEF SignedOut, Histories
<1>3. /\ SignedOut.left /\ ~SignedOut.crossed
      /\ SignedOut.over = history.over /\ SignedOut.straddled = history.straddled
      /\ SignedOut.overlap = history.overlap /\ SignedOut.lost = history.lost /\ SignedOut.broken = history.broken
  BY <1>1 DEF SignedOut, Histories
<1> QED
  BY <1>2, <1>3

LEMMA CrossedFields ==
  ASSUME TypeInv, NEW k \in Kinds, history' = [history EXCEPT !.crossed = Crossed(k)]
  PROVE  /\ history' \in Histories /\ (history'.crossed <=> history.crossed \/ call[k].late)
         /\ history'.left = history.left /\ history'.over = history.over /\ history'.straddled = history.straddled
         /\ history'.overlap = history.overlap /\ history'.lost = history.lost /\ history'.broken = history.broken
<1>1. PICK b : b = Crossed(k)
  OBVIOUS
<1>2. b \in BOOLEAN /\ (b <=> history.crossed \/ call[k].late) /\ history \in Histories
  BY <1>1 DEF Crossed, TypeInv, Shown, Histories
<1>3. history' \in Histories
  BY <1>1, <1>2 DEF Histories
<1>4. history'.crossed = b
  BY <1>1, <1>2 DEF Histories
<1>5. /\ history'.left = history.left /\ history'.over = history.over /\ history'.straddled = history.straddled
      /\ history'.overlap = history.overlap /\ history'.lost = history.lost /\ history'.broken = history.broken
  BY <1>1, <1>2 DEF Histories
<1> QED
  BY <1>2, <1>3, <1>4, <1>5

LEMMA OnSignedInInvariant ==
  ASSUME IInv, NEW k \in Kinds, OnSignedIn(k)
  PROVE  IInv'
<1>0. TypeInv /\ Safe /\ {"hydrate", "refresh", "login", "logout", "delete", "confirm"} \subseteq Kinds
  BY DEF IInv, Kinds
<1>1. /\ account' = account /\ orphans' = orphans /\ troubles' = troubles
      /\ k \in {"login", "confirm"} /\ Answered(k, 200) /\ jar' = call[k].jar /\ call[k] # Idle
  BY IdleFields DEF OnSignedIn, Answered
<1>2. /\ call' \in [Kinds -> Calls] /\ call'[k] = Idle
      /\ \A l \in Kinds \ {k} :
           /\ call'[l].at = call[l].at /\ call'[l].who = call[l].who /\ call'[l].jar = call[l].jar
           /\ call'[l].status = call[l].status /\ (call'[l] = Idle <=> call[l] = Idle)
           /\ l \notin Telling => call'[l] = call[l]
           /\ l \in Telling /\ call'[l].at # "idle" => call'[l].late
  BY <1>0, OvertakenFields DEF OnSignedIn
<1>3. PICK w : w = call[k].who
  OBVIOUS
<1>4. w \in Accounts /\ jar' \in Jars \cup {None} /\ (jar' # None => jar'.who = w)
  BY <1>0, <1>1, <1>3, HereFields DEF TypeInv, Carried, Shape, Answered, Calls
<1>5. tab.hydrated /\ call["hydrate"] = Idle
  BY <1>0, <1>1, IdleStays
<1>6. tab' \in Tabs /\ tab'.user = w /\ tab'.hydrated
  <2>1. PICK t : t = SetUser(tab, w)
    OBVIOUS
  <2>2. t \in Tabs /\ t.user = w /\ t.hydrated
    BY <1>0, <1>4, <2>1, HereFields, TabFields
  <2>3. PICK t2 : t2 = Navigate(t, "dashboard")
    OBVIOUS
  <2>4. t2 \in Tabs /\ t2.user = w /\ t2.hydrated
    BY <2>2, <2>3, TabFields DEF Paths, AppPaths
  <2> QED
    BY <1>3, <2>1, <2>3, <2>4, GuardedFields DEF OnSignedIn
<1>7. /\ history' \in Histories /\ ~history'.left /\ ~history'.crossed
      /\ history'.overlap = history.overlap /\ history'.lost = history.lost /\ history'.broken = history.broken
      /\ \A l \in Unsettling : l \in Pending => history'.over
  BY <1>0, SignedInFields DEF OnSignedIn
<1>8. ~history'.over => \A l \in {"logout", "refresh"} : call'[l] = Idle
  BY <1>0, <1>2, <1>7, PendingIs DEF Unsettling
<1>9. TypeInv'
  <2>1. Accountable'
    BY <1>0, <1>1 DEF TypeInv, Accountable
  <2>2. Carried'
    <3>1. Fits(jar)' /\ \A o \in orphans' : Astray(o)'
      BY <1>0, <1>1 DEF TypeInv, Carried, Astray, Underway, Addressed, Fits
    <3>2. \A l \in Kinds : Shape(l, call[l])' /\ Fits(call[l].jar)'
      BY <1>0, <1>1, <1>2, IdleFields DEF TypeInv, Carried, Fits, Shape, Underway, Rotating, Addressed
    <3> QED
      BY <1>0, <1>1, <1>2, <1>4, <3>1, <3>2 DEF TypeInv, Carried
  <2>3. Shown'
    BY <1>0, <1>1, <1>2, <1>5, <1>6, <1>7, IdleFields DEF TypeInv, Shown
  <2> QED
    BY <2>1, <2>2, <2>3 DEF TypeInv
<1>10. ShowsWhoItActsFor' /\ Bare' /\ Known'
  BY <1>0, <1>1, <1>4, <1>6, <1>7 DEF Safe, ShowsWhoItActsFor, Bare, Known
<1>11. Punctual'
  BY <1>1, <1>2, IdleFields DEF Punctual, Telling, Kinds
<1>12. OneOwner'
  BY <1>8, IdleFields DEF OneOwner, Held
<1>13. Spent'
  BY <1>7, <1>8, IdleFields DEF Spent, Answered, Rotating
<1>14. Left'
  <2>1. ASSUME NEW b \in Accounts, Gone(b)
        PROVE  Gone(b)'
    <3>1. b # w
      BY <1>1, <1>3, <2>1 DEF Gone
    <3> QED
      BY <1>1, <1>2, <1>4, <1>6, <2>1, <3>1, Nobody, IdleFields DEF Gone, Answered, Owner
  <2>2. call["delete"] = call'["delete"]
    BY <1>0, <1>1, <1>2 DEF Telling
  <2> QED
    BY <1>0, <1>1, <1>7, <2>1, <2>2 DEF Safe, Left, Answered
<1>15. Quiet'
  <2> SUFFICES ASSUME Tidy'
               PROVE  Apart' /\ Current'
    BY DEF Quiet
  <2>1. Apart /\ Current
    BY <1>0, <1>7 DEF Safe, Quiet, Tidy
  <2>2. Apart'
    BY <1>0, <1>2, <2>1, IdleFields DEF Apart, Revoking, Sent, Answered
  <2>3. Alive(call[k].jar) /\ (k = "confirm" => call["login"] = Idle)
    BY <1>1, <2>1 DEF Current, Apart, Issuing
  <2>4. Current'
    BY <1>0, <1>1, <1>2, <2>1, <2>3, IdleFields DEF Current, Settled, Alive, Apiece, Renews, Revoking, Issuing, Kinds, Answered
  <2> QED
    BY <2>2, <2>4
<1> QED
  BY <1>9, <1>10, <1>12, <1>13, <1>14, <1>15, <1>11 DEF IInv, Safe

LEMMA OnProfileInvariant ==
  ASSUME IInv, NEW k \in Kinds, OnProfile(k)
  PROVE  IInv'
<1>0. TypeInv /\ Safe /\ {"hydrate", "refresh", "login", "logout", "delete", "confirm"} \subseteq Kinds
  BY DEF IInv, Kinds
<1>1. /\ account' = account /\ jar' = jar /\ orphans' = orphans /\ troubles' = troubles
      /\ k \in {"hydrate", "me", "update"} /\ Answered(k, 200) /\ call[k] # Idle
  BY IdleFields DEF OnProfile, Answered
<1>2. call' \in [Kinds -> Calls] /\ \A l \in Kinds : call'[l] = IF l = k THEN Idle ELSE call[l]
  BY <1>0, HeardFields DEF OnProfile
<1>3. PICK w : w = call[k].who
  OBVIOUS
<1>4. w \in Accounts
  BY <1>0, <1>1, <1>3 DEF TypeInv, Carried, Shape, Answered
<1>5. k # "hydrate" => tab.hydrated /\ call["hydrate"] = Idle
  BY <1>0, <1>1, IdleStays
<1>6. tab' \in Tabs /\ tab'.user = w /\ tab'.hydrated
  <2>1. PICK t : t = SetUser(tab, w)
    OBVIOUS
  <2>2. t \in Tabs /\ t.user = w /\ t.hydrated
    BY <1>0, <1>4, <2>1, HereFields, TabFields
  <2> QED
    BY <1>3, <2>1, <2>2, GuardedFields DEF OnProfile
<1>7. /\ history' \in Histories /\ (history'.crossed <=> history.crossed \/ call[k].late)
      /\ history'.left = history.left /\ history'.over = history.over /\ history'.straddled = history.straddled
      /\ history'.overlap = history.overlap /\ history'.lost = history.lost /\ history'.broken = history.broken
  BY <1>0, CrossedFields DEF OnProfile
<1>8. TypeInv'
  <2>1. Accountable'
    BY <1>0, <1>1 DEF TypeInv, Accountable
  <2>2. Carried'
    <3>1. Fits(jar)' /\ \A o \in orphans' : Astray(o)'
      BY <1>0, <1>1 DEF TypeInv, Carried, Astray, Underway, Addressed, Fits
    <3>2. \A l \in Kinds : Shape(l, call[l])' /\ Fits(call[l].jar)'
      BY <1>0, <1>1, <1>2, IdleFields DEF TypeInv, Carried, Fits, Shape, Underway, Rotating, Addressed
    <3> QED
      BY <1>0, <1>1, <1>2, <3>1, <3>2 DEF TypeInv, Carried
  <2>3. Shown'
    BY <1>0, <1>1, <1>2, <1>5, <1>6, <1>7, IdleFields DEF TypeInv, Shown
  <2> QED
    BY <2>1, <2>2, <2>3 DEF TypeInv
<1>9. ~history'.crossed => w = Owner(jar) /\ jar # None /\ w = jar.who
  BY <1>0, <1>1, <1>3, <1>4, <1>7, Nobody DEF Safe, Punctual, Telling, Answered, Owner
<1>10. ShowsWhoItActsFor' /\ Bare' /\ Known'
  BY <1>0, <1>1, <1>4, <1>6, <1>7, <1>9 DEF Safe, ShowsWhoItActsFor, Bare, Known
<1>11. Punctual'
  BY <1>0, <1>1, <1>2, <1>7, IdleFields DEF Safe, Punctual, Telling, Kinds
<1>12. \A l \in {"login", "logout", "refresh", "delete", "confirm"} : call'[l] = call[l]
  BY <1>0, <1>1, <1>2
<1>13. OneOwner'
  <2>1. Held' = Held
    BY <1>1, <1>12 DEF Held
  <2> QED
    BY <1>0, <1>7, <2>1 DEF Safe, OneOwner
<1>14. Spent'
  BY <1>0, <1>1, <1>7, <1>12 DEF Safe, Spent, Answered, Dead, Renews
<1>15. Left'
  <2>1. ASSUME NEW b \in Accounts, Gone(b)
        PROVE  Gone(b)'
    <3>1. b # w
      BY <1>1, <1>3, <2>1 DEF Gone, Named
    <3> QED
      BY <1>1, <1>2, <1>4, <1>6, <2>1, <3>1, Nobody, IdleFields DEF Gone, Answered
  <2> QED
    BY <1>0, <1>1, <1>7, <1>12, <2>1 DEF Safe, Left, Answered
<1>16. Quiet'
  <2> SUFFICES ASSUME Tidy'
               PROVE  Apart' /\ Current'
    BY DEF Quiet
  <2>1. Apart /\ Current
    BY <1>0, <1>7 DEF Safe, Quiet, Tidy
  <2>2. Apart' /\ Current'
    BY <1>1, <1>12, <2>1 DEF Apart, Revoking, Sent, Answered, Current, Settled, Alive, Apiece, Renews, Issuing
  <2> QED
    BY <2>2
<1> QED
  BY <1>8, <1>10, <1>13, <1>14, <1>15, <1>16, <1>11 DEF IInv, Safe

LEMMA OnLogoutInvariant ==
  ASSUME IInv, OnLogout
  PROVE  IInv'
<1>0. TypeInv /\ Safe /\ {"hydrate", "refresh", "login", "logout", "delete", "confirm"} \subseteq Kinds
  BY DEF IInv, Kinds
<1>1. /\ account' = account /\ orphans' = orphans /\ troubles' = troubles
      /\ Answered("logout", 200) /\ jar' = None /\ call["logout"] # Idle
  BY IdleFields DEF OnLogout, Answered
<1>2. /\ call' \in [Kinds -> Calls] /\ call'["logout"] = Idle
      /\ \A l \in Kinds \ {"logout"} :
           /\ call'[l].at = call[l].at /\ call'[l].who = call[l].who /\ call'[l].jar = call[l].jar
           /\ call'[l].status = call[l].status /\ (call'[l] = Idle <=> call[l] = Idle)
           /\ l \notin Telling => call'[l] = call[l]
           /\ l \in Telling /\ call'[l].at # "idle" => call'[l].late
  BY <1>0, OvertakenFields DEF OnLogout
<1>3. tab.hydrated /\ call["hydrate"] = Idle
  BY <1>0, <1>1, IdleStays
<1>4. tab' \in Tabs /\ tab'.user = None /\ tab'.hydrated
  <2>1. PICK t : t = ClearAuth(tab)
    OBVIOUS
  <2>2. t \in Tabs /\ t.user = None /\ t.hydrated
    BY <1>0, <1>3, <2>1, HereFields, TabFields
  <2>3. PICK t2 : t2 = Navigate(t, "login")
    OBVIOUS
  <2>4. t2 \in Tabs /\ t2.user = None /\ t2.hydrated
    BY <2>2, <2>3, TabFields DEF Paths, PublicPaths
  <2> QED
    BY <2>1, <2>3, <2>4, GuardedFields DEF OnLogout
<1>5. /\ history' \in Histories /\ ~history'.crossed
      /\ history'.over = history.over /\ history'.straddled = history.straddled
      /\ history'.overlap = history.overlap /\ history'.lost = history.lost /\ history'.broken = history.broken
  BY <1>0, SignedOutFields DEF OnLogout
<1>6. TypeInv'
  <2>1. Accountable'
    BY <1>0, <1>1 DEF TypeInv, Accountable
  <2>2. Carried'
    <3>1. Fits(jar)' /\ \A o \in orphans' : Astray(o)'
      BY <1>0, <1>1 DEF TypeInv, Carried, Astray, Underway, Addressed, Fits
    <3>2. \A l \in Kinds : Shape(l, call[l])' /\ Fits(call[l].jar)'
      BY <1>0, <1>1, <1>2, IdleFields DEF TypeInv, Carried, Fits, Shape, Underway, Rotating, Addressed
    <3> QED
      BY <1>0, <1>1, <1>2, <3>1, <3>2 DEF TypeInv, Carried
  <2>3. Shown'
    BY <1>0, <1>1, <1>2, <1>3, <1>4, <1>5, IdleFields DEF TypeInv, Shown
  <2> QED
    BY <2>1, <2>2, <2>3 DEF TypeInv
<1>7. ShowsWhoItActsFor' /\ Bare' /\ Known'
  BY <1>0, <1>1, <1>4, <1>5 DEF Safe, ShowsWhoItActsFor, Bare, Known
<1>8. /\ \A l \in {"login", "delete", "confirm"} : call'[l] = call[l]
      /\ call'["refresh"].at = call["refresh"].at /\ call'["refresh"].jar = call["refresh"].jar
      /\ call'["refresh"].status = call["refresh"].status
      /\ call'["refresh"] = Idle <=> call["refresh"] = Idle
      /\ call'["logout"] = Idle
  BY <1>0, <1>2 DEF Telling
<1>9. Punctual'
  BY <1>1, <1>2, IdleFields DEF Punctual, Telling, Kinds
<1>10. OneOwner'
  <2>1. Held' \subseteq Held \cup {None}
    BY <1>1, <1>8, IdleFields DEF Held
  <2> QED
    BY <1>0, <1>5, <2>1 DEF Safe, OneOwner
<1>11. Spent'
  BY <1>0, <1>1, <1>5, <1>8 DEF Safe, Spent, Dead, Renews
<1>12. Left'
  <2>1. ASSUME NEW b \in Accounts, Gone(b)
        PROVE  Gone(b)'
    BY <1>1, <1>2, <1>4, <2>1, Nobody, IdleFields DEF Gone, Answered, Owner
  <2> QED
    BY <1>0, <1>1, <1>5, <1>8, <2>1 DEF Safe, Left, Answered
<1>13. Quiet'
  <2> SUFFICES ASSUME Tidy'
               PROVE  Apart' /\ Current'
    BY DEF Quiet
  <2>1. Apart /\ Current
    BY <1>0, <1>5 DEF Safe, Quiet, Tidy
  <2>2. Apart'
    BY <1>8, <2>1, IdleFields DEF Apart, Revoking, Sent, Answered
  <2>3. Current'
    BY <1>1, <1>8, <2>1 DEF Revoking, Sent, Answered, Current, Settled, Alive, Apiece, Renews, Issuing
  <2> QED
    BY <2>2, <2>3
<1> QED
  BY <1>6, <1>7, <1>10, <1>11, <1>12, <1>13, <1>9 DEF IInv, Safe

-----------------------------------------------------------------------------
(* The document is loaded: with the cookies there are, or with none. *)

LEMMA LoadedHistory ==
  ASSUME NEW h \in Histories, NEW l \in BOOLEAN, NEW b \in BOOLEAN
  PROVE  LET r == [h EXCEPT !.left = l, !.crossed = FALSE, !.over = FALSE, !.straddled = FALSE, !.lost = b]
         IN /\ r \in Histories /\ (r.left <=> l) /\ ~r.crossed /\ ~r.over /\ ~r.straddled
            /\ r.overlap = h.overlap /\ r.broken = h.broken /\ (r.lost <=> b)
<1> DEFINE r == [h EXCEPT !.left = l, !.crossed = FALSE, !.over = FALSE, !.straddled = FALSE, !.lost = b]
<1>1. r \in Histories
  BY DEF Histories
<1>2. ~r.crossed /\ ~r.over /\ ~r.straddled /\ r.overlap = h.overlap /\ r.broken = h.broken
  BY DEF Histories
<1>3. r.left = l /\ r.lost = b
  BY DEF Histories
<1> QED
  BY <1>1, <1>2, <1>3

LEMMA LoadInvariant ==
  ASSUME IInv, NEW p \in Paths, NEW j \in {jar, None}, account' = account, troubles' \in Nat,
         jar' = j, tab' = Loading(p), call' = Hydrating(j),
         history' \in Histories, ~history'.over,
         history'.left => j = None,
         history'.lost \/ (/\ ~history.lost /\ orphans' = orphans /\ history'.overlap = history.overlap
                           /\ history'.broken = history.broken
                           /\ \A k \in Changing : j = None \/ call[k] = Idle),
         \A o \in orphans' : Astray(o)
  PROVE  IInv'
<1>0. TypeInv /\ Safe /\ {"hydrate", "refresh", "login", "logout", "delete", "confirm"} \subseteq Kinds
  BY DEF IInv, Kinds
<1>1. j \in Jars \cup {None} /\ Owner(j) \in Accounts \cup {None}
  BY <1>0, HereFields DEF Owner, Jars
<1>2. PICK r : r = Request(Owner(j), j)
  OBVIOUS
<1>3. r \in Calls /\ r.at = "sent" /\ r.who = Owner(j) /\ r.jar = j
  BY <1>1, <1>2, RequestFields
<1>4. call' \in [Kinds -> Calls] /\ \A k \in Kinds : call'[k] = IF k = "hydrate" THEN r ELSE Idle
  BY <1>2, <1>3, IdleFields DEF Hydrating
<1>5. tab' \in Tabs /\ tab'.user = None /\ ~tab'.hydrated
  BY LoadingFields
<1>6. TypeInv'
  <2>1. Accountable'
    BY <1>0 DEF TypeInv, Accountable
  <2>2. Carried'
    <3>1. Fits(jar)' /\ \A o \in orphans' : Astray(o)'
      BY <1>0 DEF TypeInv, Carried, Astray, Underway, Addressed, Fits
    <3>2. \A l \in Kinds : Shape(l, call[l])' /\ Fits(call[l].jar)'
      BY <1>0, <1>3, <1>4, <3>1, IdleFields DEF Fits, Shape, Underway, Rotating, Addressed, Named
    <3> QED
      BY <1>1, <1>4, <3>1, <3>2 DEF Carried
  <2>3. Shown'
    BY <1>0, <1>3, <1>4, <1>5, IdleFields DEF Shown
  <2> QED
    BY <2>1, <2>2, <2>3 DEF TypeInv
<1>7. ShowsWhoItActsFor' /\ Bare'
  BY <1>5 DEF ShowsWhoItActsFor, Bare
<1>8. Punctual'
  BY <1>3, <1>4, IdleFields DEF Punctual, Telling, Kinds, Owner
<1>9. Known'
  BY <1>0 DEF Safe, Known
<1>10. \A l \in {"login", "logout", "refresh", "delete", "confirm"} : call'[l] = Idle
  BY <1>0, <1>4
<1>11. OneOwner'
  BY <1>10, IdleFields DEF OneOwner, Held
<1>12. Spent'
  BY <1>10, IdleFields DEF Spent, Answered, Dead, Renews, Rotating
<1>13. Left'
  <2>1. ASSUME NEW b \in Accounts, account[b].deleted, ~history'.lost
        PROVE  Gone(b)'
    <3>1. Owner(j) # b
      <4>1. CASE j = None
        BY <4>1, Nobody DEF Owner
      <4>2. CASE j # None
        <5>1. ~Answered("delete", 200) /\ ~history.lost
          BY <2>1, <4>2, IdleFields DEF Changing, Revoking, Answered
        <5> QED
          BY <1>0, <2>1, <4>2, <5>1 DEF Safe, Left, Gone
      <4> QED
        BY <4>1, <4>2
    <3> QED
      BY <1>3, <1>4, <1>5, <2>1, <3>1, Nobody, IdleFields DEF Gone
  <2> QED
    BY <2>1 DEF Left
<1>14. Quiet'
  <2> SUFFICES ASSUME Tidy'
               PROVE  Apart' /\ Current'
    BY DEF Quiet
  <2>1. Apart'
    BY <1>10 DEF Apart, Revoking
  <2>2. j # None => Renews(j)
    <3> SUFFICES ASSUME j # None
                 PROVE  Renews(j)
      OBVIOUS
    <3>1. Current
      BY <1>0 DEF Safe, Quiet, Tidy
    <3>2. Settled
      BY IdleFields DEF Settled, Tidy, Changing, Issuing, Answered
    <3> QED
      BY <3>1, <3>2 DEF Current, Alive
  <2>3. Current'
    BY <1>10, <2>2, IdleFields DEF Current, Issuing, Answered, Alive, Renews
  <2> QED
    BY <2>1, <2>3
<1> QED
  BY <1>6, <1>7, <1>9, <1>11, <1>12, <1>13, <1>14, <1>8 DEF IInv, Safe

LEMMA ReloadInvariant ==
  ASSUME IInv, NEW p \in Paths, Reload(p)
  PROVE  IInv'
<1>0. TypeInv
  BY DEF IInv
<1>1. /\ account' = account /\ jar' = jar /\ tab' = Loading(p) /\ call' = Hydrating(jar)
      /\ orphans' = Orphaned(Kinds) /\ troubles' = troubles + 1
  BY DEF Reload
<1>2. PICK b : b = Losing(Kinds)
  OBVIOUS
<1>3. /\ b \in BOOLEAN /\ (history.lost => b) /\ (Orphaned(Kinds) = orphans \/ b)
      /\ ((\E k \in Kinds \cap Changing : call[k] # Idle) => b)
  BY <1>0, <1>2, LosingFields
<1>4. PICK l \in BOOLEAN : l = (history.left /\ ~history.crossed)
  OBVIOUS
<1>5. /\ history' \in Histories /\ ~history'.over /\ (history'.left <=> l)
      /\ history'.overlap = history.overlap /\ history'.broken = history.broken /\ (history'.lost <=> b)
  <2>1. history' = [history EXCEPT !.left = l, !.crossed = FALSE, !.over = FALSE, !.straddled = FALSE, !.lost = b]
    BY <1>2, <1>4 DEF Reload
  <2> QED
    BY <1>0, <1>3, <2>1, HereFields, LoadedHistory
<1>6. history'.left => jar = None
  BY <1>4, <1>5 DEF IInv, Safe, Bare
<1>7. troubles' \in Nat
  BY <1>0, <1>1, HereFields
<1>8. \A o \in orphans' : Astray(o)
  BY <1>0, <1>1, OrphanedFields
<1>9. Changing \subseteq Kinds
  BY DEF Changing, Issuing, Revoking, Kinds
<1> QED
  BY <1>1, <1>3, <1>5, <1>7, <1>8, <1>9, <1>6, LoadInvariant

LEMMA OnDeletedInvariant ==
  ASSUME IInv, OnDeleted
  PROVE  IInv'
<1>0. TypeInv
  BY DEF IInv
<1>1. /\ account' = account /\ jar' = None /\ tab' = Loading("login") /\ call' = Hydrating(None)
      /\ orphans' = Orphaned(Kinds) /\ troubles' = troubles /\ Answered("delete", 200)
  BY DEF OnDeleted
<1> DEFINE others == Kinds \ {"delete"}
<1>2. PICK b : b = Losing(others)
  OBVIOUS
<1>3. /\ b \in BOOLEAN /\ (history.lost => b)
      /\ ((\E k \in others \cap Changing : call[k] # Idle) => b)
  BY <1>0, <1>2, LosingFields
<1>4. history' = [history EXCEPT !.left = TRUE, !.crossed = FALSE, !.over = FALSE, !.straddled = FALSE, !.lost = b]
  BY <1>0, <1>2, HereFields DEF OnDeleted, SignedOut, Histories
<1>5. /\ history' \in Histories /\ ~history'.over /\ history'.overlap = history.overlap
      /\ history'.broken = history.broken /\ (history'.lost <=> b)
  BY <1>0, <1>3, <1>4, HereFields, LoadedHistory
<1>6. \A o \in orphans' : Astray(o)
  BY <1>0, <1>1, OrphanedFields
<1>7. ~b => orphans' = orphans
  BY <1>1, <1>3, IdleFields DEF Orphaned, AtServer, Rotating, Answered
<1>8. "login" \in Paths /\ troubles' \in Nat
  BY <1>0, <1>1, HereFields DEF Paths, PublicPaths
<1> QED
  BY <1>1, <1>3, <1>5, <1>6, <1>7, <1>8, LoadInvariant

-----------------------------------------------------------------------------
(* The interceptor. *)

LEMMA OnRefreshedInvariant ==
  ASSUME IInv, OnRefreshed
  PROVE  IInv'
<1>0. TypeInv /\ Safe /\ {"hydrate", "refresh", "login", "logout", "delete", "confirm"} \subseteq Kinds
  BY DEF IInv, Kinds
<1>1. /\ account' = account /\ tab' = tab /\ orphans' = orphans /\ troubles' = troubles
      /\ Answered("refresh", 200) /\ jar' = call["refresh"].jar /\ call["refresh"] # Idle
  BY IdleFields DEF OnRefreshed, Answered
<1>2. PICK w : w = call["refresh"].who
  OBVIOUS
<1>3. w \in Accounts /\ jar' \in Jars \cup {None} /\ jar' # None /\ jar'.who = w
  BY <1>0, <1>1, <1>2, HereFields DEF TypeInv, Carried, Shape, Answered, Calls, Issuing
<1>4. tab.hydrated /\ call["hydrate"] = Idle
  BY <1>0, <1>1, IdleStays
<1>5. PICK q : q = Request(Owner(jar'), jar')
  OBVIOUS
<1>6. q \in Calls /\ q.at = "sent" /\ q.who = Owner(jar') /\ q.jar = jar' /\ q.status = 0
  BY <1>3, <1>5, RequestFields DEF Owner
<1>7. \A k \in Waiting : k \in Kinds /\ call[k].at = "waiting" /\ k \in Retrying /\ k # "refresh" /\ k # "hydrate"
  BY <1>0 DEF Waiting, TypeInv, Carried, Shape, Retrying
<1>8. /\ call' \in [Kinds -> Calls] /\ call'["refresh"] = Idle
      /\ \A k \in Kinds \ {"refresh"} :
           IF k \in Waiting
             THEN call'[k].at = "sent" /\ call'[k].who = Owner(jar') /\ call'[k].jar = jar' /\ call'[k].status = 0
             ELSE call'[k] = call[k]
  <2>1. call' = [k \in Kinds |-> IF k = "refresh" THEN Idle
                                 ELSE IF k \in Waiting THEN [q EXCEPT !.retried = call[k].retried]
                                 ELSE call[k]]
    BY <1>5 DEF OnRefreshed
  <2>2. \A k \in Kinds : LET r == [q EXCEPT !.retried = call[k].retried]
                         IN /\ r \in Calls /\ r.at = q.at /\ r.who = q.who /\ r.jar = q.jar /\ r.status = q.status
                            /\ r.late = q.late
    BY <1>0, <1>6, HereFields, ResendFields
  <2>3. call' \in [Kinds -> Calls]
    BY <1>0, <2>1, <2>2, HereFields, IdleFields
  <2> QED
    BY <1>0, <1>6, <2>1, <2>2, <2>3
<1>9. /\ history' \in Histories /\ (history'.crossed <=> history.crossed \/ call["refresh"].late)
      /\ history'.left = history.left /\ history'.over = history.over /\ history'.straddled = history.straddled
      /\ history'.overlap = history.overlap /\ history'.lost = history.lost /\ history'.broken = history.broken
  BY <1>0, CrossedFields DEF OnRefreshed
<1>10. TypeInv'
  <2>1. Accountable'
    BY <1>0, <1>1 DEF TypeInv, Accountable
  <2>2. Carried'
    <3>1. Fits(jar)' /\ \A o \in orphans' : Astray(o)'
      BY <1>0, <1>1 DEF TypeInv, Carried, Astray, Underway, Addressed, Fits
    <3>2. \A l \in Kinds : Shape(l, call[l])' /\ Fits(call[l].jar)'
      BY <1>0, <1>1, <1>7, <1>8, <3>1, IdleFields DEF TypeInv, Carried, Fits, Shape, Underway, Rotating, Addressed, Named, Retrying
    <3> QED
      BY <1>0, <1>1, <1>3, <1>8, <3>1, <3>2 DEF TypeInv, Carried
  <2>3. Shown'
    <3>1. call'["hydrate"] = Idle
      BY <1>0, <1>4, <1>7, <1>8
    <3>2. \A k \in Kinds : call'[k].at # "waiting"
      BY <1>8, IdleFields DEF Waiting
    <3> QED
      BY <1>0, <1>1, <1>4, <1>9, <3>1, <3>2 DEF TypeInv, Shown
  <2> QED
    BY <2>1, <2>2, <2>3 DEF TypeInv
<1>11. ~history'.crossed => ~history.crossed /\ w = Owner(jar) /\ jar # None /\ w = jar.who
  BY <1>0, <1>1, <1>2, <1>3, <1>9, Nobody DEF Safe, Punctual, Telling, Answered, Owner
<1>12. ShowsWhoItActsFor' /\ Bare' /\ Known'
  BY <1>0, <1>1, <1>3, <1>9, <1>11 DEF Safe, ShowsWhoItActsFor, Bare, Known
<1>13. Punctual'
  <2>1. ~history'.crossed => Owner(jar') = Owner(jar)
    BY <1>3, <1>11 DEF Owner
  <2>2. Telling \subseteq Kinds
    BY DEF Telling, Kinds
  <2> SUFFICES ASSUME ~history'.crossed, NEW k \in Telling, call'[k].at \notin {"idle", "waiting"}, ~call'[k].late
               PROVE  call'[k].who = Owner(jar')
    BY DEF Punctual, Owner
  <2>3. k # "refresh"
    BY <1>8, IdleFields
  <2>4. CASE k \in Waiting
    BY <1>8, <2>2, <2>3, <2>4
  <2>5. CASE k \notin Waiting
    BY <1>0, <1>8, <1>11, <2>1, <2>2, <2>3, <2>5 DEF Safe, Punctual
  <2> QED
    BY <2>4, <2>5
<1>14. \A l \in {"login", "confirm"} : call'[l] = call[l]
  BY <1>0, <1>7, <1>8 DEF Retrying
<1>15. OneOwner'
  <2>1. Held' \subseteq Held \cup {None}
    BY <1>0, <1>1, <1>8, IdleFields DEF Held
  <2> QED
    BY <1>0, <1>9, <2>1 DEF Safe, OneOwner
<1>16. \A l \in {"logout", "delete"} :
          Answered(l, 200)' => Answered(l, 200) /\ call'[l] = call[l]
  BY <1>0, <1>8 DEF Answered
<1>17. \A l \in {"logout", "delete"} : Answered(l, 200) => Answered(l, 200)' /\ call'[l] = call[l]
  BY <1>0, <1>7, <1>8 DEF Answered
<1>18. Spent'
  BY <1>0, <1>1, <1>8, <1>9, <1>16, IdleFields DEF Safe, Spent, Dead, Renews, Rotating
<1>19. Left'
  <2>1. ASSUME NEW b \in Accounts, Gone(b)
        PROVE  Gone(b)'
    <3>1. b # w
      BY <1>0, <1>2, <2>1 DEF Gone, Named
    <3>2. Owner(jar') # b
      BY <1>3, <3>1, Nobody DEF Owner
    <3>3. \A k \in Kinds : call'[k].who = b => call'[k] = call[k]
      BY <1>8, <3>2, Nobody, IdleFields
    <3> QED
      BY <1>1, <2>1, <3>2, <3>3 DEF Gone, Answered, Owner
  <2> QED
    BY <1>0, <1>1, <1>9, <1>17, <2>1 DEF Safe, Left
<1>20. Quiet'
  <2> SUFFICES ASSUME Tidy'
               PROVE  Apart' /\ Current'
    BY DEF Quiet
  <2>1. Apart /\ Current
    BY <1>0, <1>9 DEF Safe, Quiet, Tidy
  <2>2. \A k \in Kinds : call[k] = Idle => call'[k] = Idle
    BY <1>7, <1>8, IdleFields
  <2>3. Apart'
    BY <1>0, <1>8, <1>14, <2>1, <2>2 DEF Apart, Revoking
  <2>4. Alive(call["refresh"].jar) /\ Alive(jar)'
    BY <1>1, <2>1 DEF Current, Issuing, Alive, Renews
  <2>5. Current'
    BY <1>1, <1>8, <1>14, <2>1, <2>4, IdleFields DEF Answered, Current, Alive, Apiece, Renews, Issuing
  <2> QED
    BY <2>3, <2>5
<1> QED
  BY <1>10, <1>12, <1>15, <1>18, <1>19, <1>20, <1>13 DEF IInv, Safe

LEMMA UnauthorizedInvariant ==
  ASSUME IInv, NEW k \in Kinds, Unauthorized(k)
  PROVE  IInv'
<1>0. TypeInv /\ Safe /\ {"hydrate", "refresh", "login", "logout", "delete", "confirm"} \subseteq Kinds
  BY DEF IInv, Kinds
<1>1. /\ account' = account /\ jar' = jar /\ tab' = tab /\ orphans' = orphans /\ troubles' = troubles
      /\ k \in Retrying /\ Answered(k, 401) /\ call[k] # Idle
  BY IdleFields DEF Unauthorized, Answered, Retrying
<1>2. tab.hydrated /\ call["hydrate"] = Idle /\ k # "refresh" /\ k # "hydrate"
  BY <1>0, <1>1, IdleStays DEF Retrying
<1>3. PICK f \in BOOLEAN : f = (call["refresh"] = Idle) /\ (f <=> call["refresh"] = Idle)
  OBVIOUS
<1>4. PICK q : q = Request(call[k].who, None)
  OBVIOUS
<1>5. PICK s : s = IF f THEN Request(Owner(jar), jar) ELSE call["refresh"]
  OBVIOUS
<1>6. PICK r : r = [q EXCEPT !.at = "waiting", !.retried = f]
  OBVIOUS
<1>7. call[k].who \in Accounts \cup {None} /\ jar \in Jars \cup {None} /\ Owner(jar) \in Accounts \cup {None}
  BY <1>0, HereFields DEF Calls, Owner, Jars
<1>8. r \in Calls /\ r.at = "waiting" /\ r.who = call[k].who /\ r.jar = None
  <2>1. q \in Calls /\ q.who = call[k].who /\ q.jar = None
    BY <1>4, <1>7, RequestFields
  <2>2. LET e == [q EXCEPT !.at = "waiting", !.retried = f]
        IN e \in Calls /\ e.at = "waiting" /\ e.who = q.who /\ e.jar = q.jar /\ e.status = q.status
    BY <2>1, WaitFields
  <2> QED
    BY <1>6, <2>1, <2>2
<1>9. /\ s \in Calls /\ s.at # "idle" /\ s # Idle
      /\ (f => s.at = "sent" /\ s.who = Owner(jar) /\ s.jar = jar)
      /\ (~f => s = call["refresh"])
  BY <1>0, <1>3, <1>5, <1>7, HereFields, RequestFields, IdleFields
<1>10. call' = [call EXCEPT ![k] = r, !["refresh"] = s]
  BY <1>2, <1>3, <1>4, <1>5, <1>6 DEF Unauthorized
<1>11. /\ call' \in [Kinds -> Calls] /\ call'[k] = r /\ call'["refresh"] = s
       /\ \A l \in Kinds \ {k, "refresh"} : call'[l] = call[l]
  BY <1>0, <1>2, <1>8, <1>9, <1>10, HereFields
<1>12. /\ history' \in Histories /\ history'.left = history.left /\ history'.crossed = history.crossed
       /\ history'.over = history.over /\ history'.straddled = history.straddled
       /\ history'.lost = history.lost /\ history'.broken = history.broken
       /\ (history.overlap => history'.overlap)
       /\ ((\E l \in Pending : Clash("refresh", l) /\ (Sent(l) \/ Answered(l, 200))) => history'.overlap)
  <2>1. PICK b \in BOOLEAN : b = (\E l \in Pending : Clash("refresh", l) /\ (Sent(l) \/ Answered(l, 200)))
    OBVIOUS
  <2>2. history' = [history EXCEPT !.overlap = @ \/ b]
    BY <2>1 DEF Unauthorized
  <2> QED
    BY <1>0, <2>1, <2>2, HistoryOverlaps
<1>13. TypeInv'
  <2>1. Accountable'
    BY <1>0, <1>1 DEF TypeInv, Accountable
  <2>2. Carried'
    <3>1. Fits(jar)' /\ \A o \in orphans' : Astray(o)'
      BY <1>0, <1>1 DEF TypeInv, Carried, Astray, Underway, Addressed, Fits
    <3>2. Shape(k, r) /\ (r.jar = None)
      BY <1>1, <1>8 DEF Shape, Underway, Rotating
    <3>3. Shape("refresh", s) /\ Fits(s.jar)
      BY <1>0, <1>9 DEF TypeInv, Carried, Fits, Shape, Underway, Rotating, Addressed, Named
    <3>4. \A l \in Kinds : Shape(l, call[l])' /\ Fits(call[l].jar)'
      BY <1>0, <1>1, <1>11, <3>2, <3>3 DEF TypeInv, Carried, Fits, Shape, Underway, Addressed
    <3> QED
      BY <1>0, <1>1, <1>7, <1>11, <3>1, <3>4 DEF TypeInv, Carried
  <2>3. Shown'
    BY <1>0, <1>1, <1>2, <1>9, <1>11, <1>12 DEF TypeInv, Shown
  <2> QED
    BY <2>1, <2>2, <2>3 DEF TypeInv
<1>14. ShowsWhoItActsFor' /\ Bare' /\ Known'
  BY <1>0, <1>1, <1>12 DEF Safe, ShowsWhoItActsFor, Bare, Known
<1>15. Punctual'
  <2>1. \A l \in Telling : l = k \/ (l = "refresh" /\ f) \/ call'[l] = call[l]
    BY <1>9, <1>11 DEF Telling, Kinds
  <2> QED
    BY <1>0, <1>1, <1>8, <1>9, <1>11, <1>12, <2>1 DEF Safe, Punctual
<1>16. OneOwner'
  <2>1. Held' \subseteq Held \cup {None}
    BY <1>0, <1>1, <1>8, <1>9, <1>11, IdleFields DEF Held
  <2> QED
    BY <1>0, <1>12, <2>1 DEF Safe, OneOwner
<1>17. \A l \in Kinds : Answered(l, 200)' <=> Answered(l, 200)
  BY <1>0, <1>1, <1>3, <1>8, <1>9, <1>11, IdleFields DEF Answered
<1>18. Spent'
  <2>1. Answered("logout", 200)' <=> Answered("logout", 200)
    BY <1>0, <1>17
  <2>2. call'["refresh"].jar \in {jar, call["refresh"].jar}
    BY <1>9, <1>11
  <2> QED
    BY <1>0, <1>1, <1>9, <1>11, <1>12, <2>1, <2>2 DEF Safe, Spent, Dead, Renews, Rotating
<1>19. Left'
  <2>1. ASSUME NEW b \in Accounts, Gone(b)
        PROVE  Gone(b)'
    BY <1>0, <1>1, <1>8, <1>9, <1>11, <1>17, <2>1 DEF Gone, Owner, Named, Retrying
  <2>2. Answered("delete", 200) => call'["delete"] = call["delete"]
    BY <1>0, <1>1, <1>11 DEF Answered
  <2> QED
    BY <1>0, <1>1, <1>12, <1>17, <2>1, <2>2 DEF Safe, Left
<1>20. Quiet'
  <2> SUFFICES ASSUME Tidy'
               PROVE  Apart' /\ Current'
    BY DEF Quiet
  <2>1. Apart /\ Current
    BY <1>0, <1>12 DEF Safe, Quiet, Tidy
  <2>2. \A l \in Revoking : ~Sent(l) /\ ~Answered(l, 200)
    <3>1. \A l \in Revoking : l \in Kinds /\ Clash("refresh", l)
      BY DEF Revoking, Kinds, Clash, Issuing
    <3>2. \A l \in Revoking : Sent(l) \/ Answered(l, 200) => call[l] # Idle
      BY IdleFields DEF Sent, Answered
    <3> QED
      BY <1>0, <1>12, <3>1, <3>2, PendingIs DEF Tidy
  <2>3. \A l \in Revoking : ~Sent(l)' /\ ~Answered(l, 200)'
    BY <1>0, <1>8, <1>11, <2>2 DEF Sent, Answered, Revoking
  <2>4. \A l \in Kinds \ {"refresh"} : call'[l] = Idle <=> call[l] = Idle
    BY <1>1, <1>8, <1>11, IdleFields
  <2>5. Apart'
    BY <1>0, <2>1, <2>3, <2>4 DEF Apart, Revoking
  <2>6. \A l \in {"login", "confirm"} : call'[l] = call[l]
    BY <1>0, <1>1, <1>11 DEF Retrying
  <2>7. f => Alive(jar)
    BY <1>3, <2>1, <2>2, IdleFields DEF Current, Settled, Answered
  <2>8. (call["refresh"].at \in {"sent", "found"} => Alive(call["refresh"].jar))'
    BY <1>1, <1>9, <1>11, <2>1, <2>7 DEF Current, Alive, Renews
  <2>9. (\A l \in Issuing : Answered(l, 200) => Alive(call[l].jar))'
    BY <1>1, <1>9, <1>11, <2>1, <2>6 DEF Current, Answered, Alive, Renews, Issuing
  <2>10. (Settled => Alive(jar))'
    BY <1>0, <1>1, <1>3, <1>9, <1>11, <1>17, <2>1, <2>7 DEF Current, Settled, Alive, Renews, Revoking
  <2>11. (Answered("login", 200) => Apiece(call["login"].jar, jar) /\ Apiece(call["login"].jar, call["refresh"].jar))'
    BY <1>1, <1>9, <1>11, <2>1, <2>6 DEF Current, Answered, Apiece
  <2> QED
    BY <2>5, <2>8, <2>9, <2>10, <2>11 DEF Current
<1> QED
  BY <1>13, <1>14, <1>16, <1>18, <1>19, <1>20, <1>15 DEF IInv, Safe

-----------------------------------------------------------------------------
(* The routes: which middleware a request passed, and what a refusal says. *)

LEMMA LeastOf ==
  ASSUME NEW S, S \subseteq 1..4, S # {}
  PROVE  Min(S) \in S
<1>1. \E x \in S : \A y \in S : x <= y
  <2>1. CASE 1 \in S
    BY <2>1
  <2>2. CASE 1 \notin S /\ 2 \in S
    BY <2>2
  <2>3. CASE 1 \notin S /\ 2 \notin S /\ 3 \in S
    BY <2>3
  <2>4. CASE 1 \notin S /\ 2 \notin S /\ 3 \notin S
    <3>1. \A y \in S : y = 4
      BY <2>4
    <3>2. PICK x : x \in S
      OBVIOUS
    <3>3. x = 4
      BY <3>1, <3>2
    <3> QED
      BY <3>1, <3>2, <3>3
  <2> QED
    BY <2>1, <2>2, <2>3, <2>4
<1> QED
  BY <1>1 DEF Min

LEMMA Routes ==
  /\ Route["login"] = <<"global", "auth", "body">>
  /\ Route["confirm"] = <<"global", "sensitive", "body">>
  /\ Route["refresh"] = <<"global", "standard", "csrf">>
  /\ Route["logout"] = <<"global", "standard", "csrf", "authenticate">>
  /\ Route["me"] = <<"global", "authenticate">>
  /\ Route["update"] = <<"global", "authenticate", "csrf", "body">>
  /\ Route["delete"] = <<"global", "authenticate", "csrf">>
BY DEF Route

LEMMA Guards ==
  ASSUME NEW k \in Kinds, NEW csrf \in BOOLEAN, NEW authentic \in BOOLEAN, NEW refusing
  PROVE  /\ Reached(RouteOf(k), csrf, authentic, refusing) =>
              /\ k \in {"refresh", "logout", "update", "delete"} => csrf
              /\ k \in {"logout", "me", "hydrate", "update", "delete"} => authentic
         /\ ~Reached(RouteOf(k), csrf, authentic, refusing) =>
              /\ Refusal(RouteOf(k), csrf, authentic, refusing) \in {400, 401, 403, 429}
              /\ k \in Issuing => Refusal(RouteOf(k), csrf, authentic, refusing) # 401
<1> DEFINE g == RouteOf(k)
           S == Stops(g, csrf, authentic, refusing)
<1>1. g \in {"login", "confirm", "refresh", "logout", "me", "update", "delete"}
      /\ (k = "hydrate" => g = "me") /\ (k # "hydrate" => g = k)
  BY DEF RouteOf, Kinds
<1>2. /\ DOMAIN Route[g] \subseteq 1..4
      /\ \A i \in DOMAIN Route[g] : Route[g][i] \in {"global", "auth", "sensitive", "standard", "body", "csrf", "authenticate"}
      /\ g \in {"login", "confirm", "refresh"} => \A i \in DOMAIN Route[g] : Route[g][i] # "authenticate"
      /\ g \in {"refresh", "logout", "update", "delete"} => \E i \in DOMAIN Route[g] : Route[g][i] = "csrf"
      /\ g \in {"logout", "me", "update", "delete"} => \E i \in DOMAIN Route[g] : Route[g][i] = "authenticate"
  <2>1. CASE g = "login"
    BY <2>1, Routes
  <2>2. CASE g = "confirm"
    BY <2>2, Routes
  <2>3. CASE g = "refresh"
    <3>1. DOMAIN Route[g] = 1..3 /\ Route[g][3] = "csrf"
      BY <2>3, Routes
    <3> QED
      BY <2>3, <3>1, Routes
  <2>4. CASE g = "logout"
    <3>1. DOMAIN Route[g] = 1..4 /\ Route[g][3] = "csrf" /\ Route[g][4] = "authenticate"
      BY <2>4, Routes
    <3> QED
      BY <2>4, <3>1, Routes
  <2>5. CASE g = "me"
    <3>1. DOMAIN Route[g] = 1..2 /\ Route[g][2] = "authenticate"
      BY <2>5, Routes
    <3> QED
      BY <2>5, <3>1, Routes
  <2>6. CASE g = "update"
    <3>1. DOMAIN Route[g] = 1..4 /\ Route[g][2] = "authenticate" /\ Route[g][3] = "csrf"
      BY <2>6, Routes
    <3> QED
      BY <2>6, <3>1, Routes
  <2>7. CASE g = "delete"
    <3>1. DOMAIN Route[g] = 1..3 /\ Route[g][2] = "authenticate" /\ Route[g][3] = "csrf"
      BY <2>7, Routes
    <3> QED
      BY <2>7, <3>1, Routes
  <2> QED
    BY <1>1, <2>1, <2>2, <2>3, <2>4, <2>5, <2>6, <2>7
<1> HIDE DEF g
<1>3. S = {i \in DOMAIN Route[g] : \/ Route[g][i] \in refusing
                                   \/ Route[g][i] = "csrf" /\ ~csrf
                                   \/ Route[g][i] = "authenticate" /\ ~authentic}
  BY DEF Stops
<1>4. ASSUME S = {}
      PROVE  /\ k \in {"refresh", "logout", "update", "delete"} => csrf
             /\ k \in {"logout", "me", "hydrate", "update", "delete"} => authentic
  BY <1>1, <1>2, <1>3, <1>4
<1>5. ASSUME S # {}
      PROVE  StatusOf(Route[g][Min(S)]) \in {400, 401, 403, 429} /\ (k \in Issuing => StatusOf(Route[g][Min(S)]) # 401)
  <2>1. Min(S) \in DOMAIN Route[g]
    <3>1. S \subseteq DOMAIN Route[g]
      BY <1>3
    <3> HIDE DEF S
    <3> QED
      BY <1>2, <1>5, <3>1, LeastOf
  <2>2. PICK x : x = Route[g][Min(S)]
    OBVIOUS
  <2>3. x \in {"global", "auth", "sensitive", "standard", "body", "csrf", "authenticate"} /\ (k \in Issuing => x # "authenticate")
    BY <1>1, <1>2, <2>1, <2>2 DEF Issuing
  <2>4. StatusOf(x) \in {400, 401, 403, 429} /\ (x # "authenticate" => StatusOf(x) # 401)
    BY <2>3 DEF StatusOf, Limiters
  <2> QED
    BY <2>2, <2>3, <2>4
<1> QED
  BY <1>4, <1>5 DEF Reached, Refusal, g

-----------------------------------------------------------------------------
(* The service: what a handler does to the row of an account. *)

LEMMA RowFields ==
  ASSUME NEW r \in Rows, NEW v \in Nat
  PROVE  /\ Issued(r, v) \in Rows /\ Issued(r, v).deleted = r.deleted /\ Issued(r, v).issued = r.issued + 1
         /\ Issued(r, v).live = r.live \cup {r.issued + 1}
<1> DEFINE n == r.issued + 1
           L == r.live \cup {n}
           S == r.recent \cup {v}
<1>1. n \in Nat /\ L \in SUBSET Nat /\ S \in SUBSET Nat
  BY DEF Rows
<1>2. Issued(r, v) = [r EXCEPT !.issued = n, !.live = L, !.recent = S]
  BY DEF Issued
<1>3. L = r.live \cup {r.issued + 1} /\ n = r.issued + 1
  OBVIOUS
<1> HIDE DEF n, L, S
<1>4. Issued(r, v) \in Rows
  BY <1>1, <1>2 DEF Rows
<1>5. Issued(r, v).deleted = r.deleted /\ Issued(r, v).issued = n /\ Issued(r, v).live = L
  BY <1>2 DEF Rows
<1> QED
  BY <1>3, <1>4, <1>5

LEMMA BumpedFields ==
  ASSUME NEW r \in Rows
  PROVE  Bumped(r) \in Rows /\ Bumped(r).deleted = r.deleted /\ Bumped(r).issued = r.issued /\ Bumped(r).live = {}
<1>1. Bumped(r) \in Rows
  <2> DEFINE v == r.version + 1
             L == {}
  <2>1. v \in Nat /\ L \in SUBSET Nat
    BY DEF Rows
  <2>2. Bumped(r) = [r EXCEPT !.version = v, !.live = L]
    BY DEF Bumped
  <2> HIDE DEF v, L
  <2> QED
    BY <2>1, <2>2 DEF Rows
<1>2. Bumped(r).deleted = r.deleted /\ Bumped(r).issued = r.issued /\ Bumped(r).live = {}
  BY DEF Bumped, Rows
<1> QED
  BY <1>1, <1>2

LEMMA JarFields ==
  ASSUME NEW a \in Accounts, NEW v \in Nat, NEW n \in Nat
  PROVE  Jar(a, v, n) \in Jars /\ Jar(a, v, n).who = a /\ Jar(a, v, n).serial = n
BY DEF Jar, Jars

LEMMA LiveFields ==
  ASSUME NEW r \in Rows, NEW L \in SUBSET Nat
  PROVE  /\ [r EXCEPT !.live = L] \in Rows /\ [r EXCEPT !.live = L].deleted = r.deleted
         /\ [r EXCEPT !.live = L].issued = r.issued /\ [r EXCEPT !.live = L].live = L
<1>1. [r EXCEPT !.live = L] \in Rows
  BY DEF Rows
<1>2. /\ [r EXCEPT !.live = L].deleted = r.deleted
      /\ [r EXCEPT !.live = L].issued = r.issued /\ [r EXCEPT !.live = L].live = L
  BY DEF Rows
<1> QED
  BY <1>1, <1>2

LEMMA DeletedFields ==
  ASSUME NEW r \in Rows
  PROVE  /\ [r EXCEPT !.deleted = TRUE] \in Rows /\ [r EXCEPT !.deleted = FALSE] \in Rows
         /\ [r EXCEPT !.deleted = TRUE].deleted /\ ~[r EXCEPT !.deleted = FALSE].deleted
         /\ [r EXCEPT !.deleted = TRUE].issued = r.issued /\ [r EXCEPT !.deleted = FALSE].issued = r.issued
         /\ [r EXCEPT !.deleted = TRUE].live = r.live /\ [r EXCEPT !.deleted = FALSE].live = r.live
<1>1. [r EXCEPT !.deleted = TRUE] \in Rows /\ [r EXCEPT !.deleted = FALSE] \in Rows
  BY DEF Rows
<1>2. /\ [r EXCEPT !.deleted = TRUE].deleted /\ ~[r EXCEPT !.deleted = FALSE].deleted
      /\ [r EXCEPT !.deleted = TRUE].issued = r.issued /\ [r EXCEPT !.deleted = FALSE].issued = r.issued
      /\ [r EXCEPT !.deleted = TRUE].live = r.live /\ [r EXCEPT !.deleted = FALSE].live = r.live
  BY DEF Rows
<1> QED
  BY <1>1, <1>2

(* What comes of request c, of kind k: its row stays and it is answered;   *)
(* it is answered and its row moves; a refresh gets on.                    *)
Unmoved(k, c, out) ==
  /\ account' = account /\ out.at = "answered" /\ out.jar = None
  /\ \/ out.status \in {400, 401, 403, 410, 429, 500} /\ (k \in Issuing /\ c.at = "sent" => out.status # 401)
     \/ out.status = 200 /\ k \in {"me", "hydrate", "update"} /\ c.who \in Accounts
RowStep(k, c, r, t, out) ==
  /\ t \in Rows /\ out.at = "answered"
  /\ \/ /\ k = "login" /\ c.at = "sent" /\ out.status = 200
        /\ ~r.deleted /\ ~t.deleted /\ t.issued = r.issued + 1 /\ t.live = r.live \cup {r.issued + 1}
     \/ /\ k = "confirm" /\ c.at = "sent" /\ out.status = 200
        /\ ~t.deleted /\ t.issued = r.issued + 1 /\ t.live = {r.issued + 1}
     \/ /\ k = "refresh" /\ c.at = "signed" /\ out.status = 200
        /\ t.deleted = r.deleted /\ t.issued = r.issued + 1 /\ t.live = r.live \cup {r.issued + 1}
     \/ /\ k = "refresh" /\ c.at = "sent" /\ out.status = 401 /\ c.jar.serial \notin r.live
        /\ t.deleted = r.deleted /\ t.issued = r.issued /\ t.live = {}
     \/ /\ k = "logout" /\ c.at = "sent" /\ out.status = 200
        /\ t.deleted = r.deleted /\ t.issued = r.issued /\ t.live = {}
     \/ /\ k = "delete" /\ c.at = "sent" /\ out.status = 200
        /\ t.deleted /\ t.issued = r.issued /\ t.live = {}
  /\ IF k \in Issuing /\ out.status = 200
       THEN out.jar \in Jars /\ out.jar.who = c.who /\ out.jar.serial = r.issued + 1 ELSE out.jar = None
RefreshStep(c, r, t, out) ==
  /\ t \in Rows /\ t.deleted = r.deleted /\ t.issued = r.issued
  /\ out.status = 0 /\ out.jar \in Jars /\ out.jar.who = c.who
  /\ \/ c.at = "sent" /\ out.at = "found" /\ out.jar = c.jar /\ c.jar.serial \in r.live /\ t.live = r.live
     \/ c.at = "found" /\ out.at = "rotated" /\ out.jar = c.jar /\ t.live = r.live \ {c.jar.serial}
     \/ c.at = "rotated" /\ out.at = "signed" /\ out.jar.serial = 0 /\ t.live = r.live
Stepping(k, c, out) ==
  /\ c.who \in Accounts /\ (k \notin Named => c.jar # None /\ c.jar.who = c.who)
  /\ account' = [account EXCEPT ![c.who] = out.row]
Moved(k, c, out) == Stepping(k, c, out) /\ RowStep(k, c, account[c.who], out.row, out)
Advanced(k, c, out) == k = "refresh" /\ Stepping(k, c, out) /\ RefreshStep(c, account[c.who], out.row, out)

LEMMA OutcomeFields ==
  ASSUME NEW r, NEW at, NEW j, NEW s
  PROVE  LET o == Outcome(r, at, j, s) IN o.row = r /\ o.at = at /\ o.jar = j /\ o.status = s
BY DEF Outcome

LEMMA StoredFields ==
  ASSUME TypeInv, NEW c, NEW out, c.who \in Accounts \cup {None}, Stored(c, out)
  PROVE  /\ c.who \in Accounts => account' = [account EXCEPT ![c.who] = out.row]
         /\ (c.who \in Accounts => out.row = account[c.who]) => account' = account
<1>1. account \in [Accounts -> Rows]
  BY DEF TypeInv, Accountable
<1>2. account' = [a \in Accounts |-> IF a = c.who THEN out.row ELSE account[a]]
  BY DEF Stored
<1> QED
  BY <1>1, <1>2, Nobody

(* The handlers, one by one. *)
LEMMA LoginHandled ==
  ASSUME NEW r \in Rows, NEW c, c.at = "sent", c.who \in Accounts, NEW out \in login(r, c.who)
  PROVE  \/ out.row = r /\ out.at = "answered" /\ out.jar = None /\ out.status \in {403, 500}
         \/ RowStep("login", c, r, out.row, out)
<1>1. PICK a : a = c.who
  OBVIOUS
<1>2. r.version \in Nat /\ r.issued + 1 \in Nat
  BY DEF Rows
<1>3. PICK v : v = r.version
  OBVIOUS
<1>4. out \in {Answer(r, 403)} \/ (out \in {Paired(r, a, v), Answer(r, 500)} /\ ~r.deleted)
  BY <1>1, <1>3 DEF login, Inserts
<1>5. CASE out \in {Answer(r, 403), Answer(r, 500)}
  BY <1>5, OutcomeFields DEF Answer
<1>6. CASE out = Paired(r, a, v) /\ ~r.deleted
  <2>1. out.row = Issued(r, v) /\ out.at = "answered" /\ out.jar = Jar(a, v, r.issued + 1) /\ out.status = 200
    BY <1>6, OutcomeFields DEF Paired
  <2>2. out.jar \in Jars /\ out.jar.who = a /\ out.jar.serial = r.issued + 1
    BY <1>1, <1>2, <1>3, <2>1, JarFields
  <2>3. PICK t : t = Issued(r, v)
    OBVIOUS
  <2>4. /\ t \in Rows /\ t.deleted = r.deleted /\ t.issued = r.issued + 1
        /\ t.live = r.live \cup {r.issued + 1}
    BY <1>2, <1>3, <2>3, RowFields
  <2> QED
    BY <1>1, <1>6, <2>1, <2>2, <2>3, <2>4 DEF RowStep, Issuing
<1> QED
  BY <1>4, <1>5, <1>6

LEMMA ConfirmHandled ==
  ASSUME NEW r \in Rows, NEW c, c.at = "sent", c.who \in Accounts, NEW out \in confirmRestore(r, c.who)
  PROVE  RowStep("confirm", c, r, out.row, out)
<1>1. PICK a, v : a = c.who /\ v = r.version + 1
  OBVIOUS
<1>2. v \in Nat /\ r.issued + 1 \in Nat
  BY <1>1 DEF Rows
<1>3. PICK b : b = Bumped(r)
  OBVIOUS
<1>4. PICK d : d = [b EXCEPT !.deleted = FALSE]
  OBVIOUS
<1>5. out = Paired(d, a, v)
  BY <1>1, <1>3, <1>4 DEF confirmRestore
<1>6. b \in Rows /\ b.issued = r.issued /\ b.live = {}
  BY <1>3, BumpedFields
<1>7. d \in Rows /\ d.issued = r.issued /\ d.live = {} /\ ~d.deleted
  BY <1>4, <1>6, DeletedFields
<1>8. out.row = Issued(d, v) /\ out.at = "answered" /\ out.jar = Jar(a, v, r.issued + 1) /\ out.status = 200
  BY <1>5, <1>7, OutcomeFields DEF Paired
<1>9. out.jar \in Jars /\ out.jar.who = a /\ out.jar.serial = r.issued + 1
  BY <1>1, <1>2, <1>8, JarFields
<1>10. PICK t : t = Issued(d, v)
  OBVIOUS
<1>11. t \in Rows /\ t.deleted = d.deleted /\ t.issued = r.issued + 1 /\ t.live = {r.issued + 1}
  <2>1. /\ t \in Rows /\ t.deleted = d.deleted /\ t.issued = d.issued + 1
        /\ t.live = d.live \cup {d.issued + 1}
    BY <1>2, <1>7, <1>10, RowFields
  <2> QED
    BY <1>7, <2>1
<1> QED
  BY <1>1, <1>7, <1>8, <1>9, <1>10, <1>11 DEF RowStep, Issuing

LEMMA RevokingHandled ==
  ASSUME NEW r \in Rows, NEW c, c.at = "sent", NEW k \in {"logout", "delete"}, NEW out,
         out \in IF k = "logout" THEN logout(r) ELSE deleteMe(r)
  PROVE  RowStep(k, c, r, out.row, out)
<1>1. CASE k = "logout"
  <2>1. PICK L : L = {}
    OBVIOUS
  <2>2. PICK t : t = [r EXCEPT !.live = L]
    OBVIOUS
  <2>3. t \in Rows /\ t.deleted = r.deleted /\ t.issued = r.issued /\ t.live = L
    <3>1. L \in SUBSET Nat
      BY <2>1
    <3> QED
      BY <2>2, <3>1, LiveFields
  <2>4. out = Answer(t, 200)
    BY <1>1, <2>1, <2>2 DEF logout
  <2>5. out.row = t /\ out.at = "answered" /\ out.jar = None /\ out.status = 200
    BY <2>4, OutcomeFields DEF Answer
  <2> QED
    BY <1>1, <2>1, <2>3, <2>5 DEF RowStep, Issuing
<1>2. CASE k = "delete"
  <2>1. PICK b : b = Bumped(r)
    OBVIOUS
  <2>2. b \in Rows /\ b.issued = r.issued /\ b.live = {}
    BY <2>1, BumpedFields
  <2>3. out.row = [b EXCEPT !.deleted = TRUE] /\ out.at = "answered" /\ out.jar = None /\ out.status = 200
    BY <1>2, <2>1, OutcomeFields DEF deleteMe, Answer
  <2>4. PICK t : t = [b EXCEPT !.deleted = TRUE]
    OBVIOUS
  <2>5. t \in Rows /\ t.deleted /\ t.issued = b.issued /\ t.live = b.live
    BY <2>2, <2>4, DeletedFields
  <2> QED
    BY <1>2, <2>2, <2>3, <2>4, <2>5 DEF RowStep, Issuing
<1> QED
  BY <1>1, <1>2

LEMMA RefreshHandled ==
  ASSUME NEW r \in Rows, NEW c, c.at \in Taking, c.who \in Accounts, c.jar \in Jars, c.jar.who = c.who,
         NEW out \in refresh(r, c)
  PROVE  \/ /\ out.row = r /\ out.at = "answered" /\ out.jar = None /\ out.status \in {401, 500}
            /\ c.at # "sent"
         \/ RowStep("refresh", c, r, out.row, out)
         \/ RefreshStep(c, r, out.row, out)
<1>1. PICK a, j : a = c.who /\ j = c.jar
  OBVIOUS
<1>2. PICK v, n : v = j.version /\ n = r.issued + 1
  OBVIOUS
<1>3. j \in Jars /\ v \in Nat /\ n \in Nat /\ r.live \in SUBSET Nat /\ r.version \in Nat
  BY <1>1, <1>2 DEF Jars, Rows
<1>4. CASE c.at = "sent"
  <2>1. out = IF j.serial \in r.live THEN Outcome(r, "found", j, 0) ELSE Answer(Bumped(r), 401)
    BY <1>1, <1>4 DEF refresh, refreshFind
  <2>2. CASE j.serial \in r.live
    <3>1. out.row = r /\ out.at = "found" /\ out.jar = j /\ out.status = 0
      BY <2>1, <2>2, OutcomeFields
    <3> QED
      BY <1>1, <1>3, <1>4, <2>2, <3>1 DEF RefreshStep
  <2>3. CASE j.serial \notin r.live
    <3>1. out.row = Bumped(r) /\ out.at = "answered" /\ out.jar = None /\ out.status = 401
      BY <2>1, <2>3, OutcomeFields DEF Answer
    <3> QED
      BY <1>1, <1>4, <2>3, <3>1, BumpedFields DEF RowStep, Issuing
  <2> QED
    BY <2>2, <2>3
<1>5. CASE c.at = "found"
  <2>1. PICK L : L = r.live \ {j.serial}
    OBVIOUS
  <2>2. L \in SUBSET Nat
    BY <1>3, <2>1
  <2>3. PICK t : t = [r EXCEPT !.live = L]
    OBVIOUS
  <2>4. out = Outcome(t, "rotated", j, 0)
    BY <1>1, <1>5, <2>1, <2>3 DEF refresh, refreshRevoke
  <2>5. out.row = t /\ out.at = "rotated" /\ out.jar = j /\ out.status = 0
    BY <2>4, OutcomeFields
  <2>6. t \in Rows /\ t.deleted = r.deleted /\ t.issued = r.issued /\ t.live = L
    BY <2>2, <2>3, LiveFields
  <2> QED
    BY <1>1, <1>3, <1>5, <2>1, <2>5, <2>6 DEF RefreshStep
<1>6. CASE c.at = "rotated"
  <2>1. out = IF r.deleted THEN Answer(r, 401) ELSE Outcome(r, "signed", Jar(a, r.version, 0), 0)
    BY <1>1, <1>6 DEF refresh, refreshSign
  <2>2. CASE r.deleted
    BY <1>6, <2>1, <2>2, OutcomeFields DEF Answer
  <2>3. CASE ~r.deleted
    <3>1. out.row = r /\ out.at = "signed" /\ out.jar = Jar(a, r.version, 0) /\ out.status = 0
      BY <2>1, <2>3, OutcomeFields
    <3>2. out.jar \in Jars /\ out.jar.who = a /\ out.jar.serial = 0
      BY <1>1, <1>3, <3>1, JarFields
    <3> QED
      BY <1>1, <1>6, <3>1, <3>2 DEF RefreshStep
  <2> QED
    BY <2>2, <2>3
<1>7. CASE c.at = "signed"
  <2>1. out \in {Paired(r, a, v), Answer(r, 500)}
    BY <1>1, <1>2, <1>7 DEF refresh, refreshInsert, Inserts
  <2>2. CASE out = Answer(r, 500)
    BY <1>7, <2>2, OutcomeFields DEF Answer
  <2>3. CASE out = Paired(r, a, v)
    <3>1. out.row = Issued(r, v) /\ out.at = "answered" /\ out.jar = Jar(a, v, n) /\ out.status = 200
      BY <1>2, <2>3, OutcomeFields DEF Paired
    <3>2. out.jar \in Jars /\ out.jar.who = a /\ out.jar.serial = n
      BY <1>1, <1>3, <3>1, JarFields
    <3>3. PICK t : t = Issued(r, v)
      OBVIOUS
    <3>4. /\ t \in Rows /\ t.deleted = r.deleted /\ t.issued = r.issued + 1
          /\ t.live = r.live \cup {r.issued + 1}
      BY <1>3, <3>3, RowFields
    <3> QED
      BY <1>1, <1>2, <1>7, <3>1, <3>2, <3>3, <3>4 DEF RowStep, Issuing
  <2> QED
    BY <2>1, <2>2, <2>3
<1> QED
  BY <1>4, <1>5, <1>6, <1>7 DEF Taking, Rotating

LEMMA Served ==
  ASSUME TypeInv, NEW k \in Kinds, NEW c, NEW refusing, NEW out, c.at \in Taking, c.who \in Accounts \cup {None},
         c.jar \in Jars \cup {None}, Underway(k, c), out \in Outcomes(k, c, refusing), Stored(c, out)
  PROVE  Unmoved(k, c, out) \/ Moved(k, c, out) \/ Advanced(k, c, out)
<1>1. PICK csrf \in BOOLEAN, authentic \in BOOLEAN :
         /\ csrf = (c.jar # None) /\ authentic = Authentic(c.jar)
         /\ (csrf <=> c.jar # None) /\ (authentic <=> Authentic(c.jar))
  BY DEF Authentic
<1> DEFINE R == Reached(RouteOf(k), csrf, authentic, refusing)
<1>2. Passes(k, c, refusing) <=> c.at \in Rotating \/ R
  BY <1>1 DEF Passes
<1>3. CASE ~Passes(k, c, refusing)
  <2>1. PICK s : s = Refusal(RouteOf(k), csrf, authentic, refusing)
    OBVIOUS
  <2>2. out = Answer(Row(c.who), s)
    BY <1>1, <1>3, <2>1 DEF Outcomes, Refused
  <2>3. out.row = Row(c.who) /\ out.at = "answered" /\ out.jar = None /\ out.status = s
    BY <2>2, OutcomeFields DEF Answer
  <2>4. s \in {400, 401, 403, 429} /\ (k \in Issuing => s # 401)
    BY <1>2, <1>3, <2>1, Guards
  <2>5. account' = account
    BY <2>3, StoredFields, Nobody DEF Row
  <2> QED
    BY <2>3, <2>4, <2>5 DEF Unmoved
<1>4. CASE Passes(k, c, refusing)
  <2>1. /\ k \in {"refresh", "logout", "update", "delete"} => c.jar # None
        /\ k \in {"logout", "me", "hydrate", "update", "delete"} => c.jar # None
    <3>1. CASE c.at \in Rotating
      BY <3>1 DEF Underway
    <3>2. CASE R
      <4>1. /\ k \in {"refresh", "logout", "update", "delete"} => csrf
            /\ k \in {"logout", "me", "hydrate", "update", "delete"} => authentic
        BY <3>2, Guards
      <4>2. authentic => c.jar # None
        BY <1>1 DEF Authentic
      <4> QED
        BY <1>1, <4>1, <4>2
    <3> QED
      BY <1>2, <1>4, <3>1, <3>2
  <2>2. c.at = "sent" \/ (k = "refresh" /\ c.at \in Rotating)
    BY DEF Underway, Taking
  <2>3. k \notin Named => c.jar # None /\ c.jar.who = c.who
    BY <2>1, <2>2 DEF Underway, Addressed, Owner, Named, Kinds
  <2>4. c.who \in Accounts
    BY <2>2, <2>3 DEF Underway, Addressed, Named, Jars
  <2>5. PICK r : r = account[c.who]
    OBVIOUS
  <2>6. r \in Rows
    BY <2>4, <2>5 DEF TypeInv, Accountable
  <2>7. out \in Handled(k, r, c)
    BY <1>4, <2>5 DEF Outcomes
  <2>8. ASSUME out.row = r PROVE account' = account
    BY <2>5, <2>8, StoredFields
  <2>9. Stepping(k, c, out)
    BY <2>3, <2>4, StoredFields DEF Stepping
  <2>10. ASSUME RowStep(k, c, r, out.row, out) PROVE Moved(k, c, out)
    BY <2>5, <2>9, <2>10 DEF Moved
  <2>11. CASE k = "login"
    <3>1. out \in login(r, c.who)
      BY <2>7, <2>11 DEF Handled
    <3>2. /\ c.at = "sent"
      BY <2>2, <2>11
    <3>3. \/ out.row = r /\ out.at = "answered" /\ out.jar = None /\ out.status \in {403, 500}
          \/ RowStep("login", c, r, out.row, out)
      BY <2>4, <2>6, <3>1, <3>2, LoginHandled
    <3> QED
      BY <2>8, <2>10, <2>11, <3>3 DEF Unmoved
  <2>12. CASE k \in {"logout", "delete"}
    <3>1. out \in IF k = "logout" THEN logout(r) ELSE deleteMe(r)
      BY <2>7, <2>12 DEF Handled
    <3>2. c.at = "sent"
      BY <2>2, <2>12
    <3> QED
      BY <2>6, <2>10, <2>12, <3>1, <3>2, RevokingHandled
  <2>13. CASE k \in {"me", "hydrate", "update"}
    <3>1. out \in {Answer(r, 200), Answer(r, 410)}
      <4>1. CASE k \in {"me", "hydrate"}
        BY <2>7, <4>1 DEF Handled, getMe
      <4>2. CASE k = "update"
        BY <2>7, <4>2 DEF Handled, updateMe
      <4> QED
        BY <2>13, <4>1, <4>2
    <3>2. out.row = r /\ out.at = "answered" /\ out.jar = None /\ out.status \in {200, 410}
      BY <3>1, OutcomeFields DEF Answer
    <3> QED
      BY <2>4, <2>8, <2>13, <3>2 DEF Unmoved, Issuing
  <2>14. CASE k = "confirm"
    <3>1. out \in confirmRestore(r, c.who)
      BY <2>7, <2>14 DEF Handled
    <3>2. c.at = "sent"
      BY <2>2, <2>14
    <3> QED
      BY <2>4, <2>6, <2>10, <2>14, <3>1, <3>2, ConfirmHandled
  <2>15. CASE k = "refresh"
    <3>1. out \in refresh(r, c)
      BY <2>7, <2>15 DEF Handled
    <3>2. c.jar \in Jars /\ c.jar.who = c.who
      BY <2>3, <2>15 DEF Named
    <3>3. \/ /\ out.row = r /\ out.at = "answered" /\ out.jar = None /\ out.status \in {401, 500}
             /\ c.at # "sent"
          \/ RowStep("refresh", c, r, out.row, out)
          \/ RefreshStep(c, r, out.row, out)
      BY <2>4, <2>6, <3>1, <3>2, RefreshHandled
    <3> QED
      BY <2>5, <2>8, <2>9, <2>10, <2>15, <3>3 DEF Unmoved, Advanced
  <2> QED
    BY <2>11, <2>12, <2>13, <2>14, <2>15 DEF Kinds
<1> QED
  BY <1>3, <1>4

-----------------------------------------------------------------------------
(* A row moved: what stays dead, what fits, and the types. *)

LEMMA GrownRows ==
  ASSUME TypeInv, NEW w \in Accounts, NEW t \in Rows, account' = [account EXCEPT ![w] = t],
         t.live \subseteq 1..t.issued, account[w].issued <= t.issued,
         t.live \subseteq account[w].live \cup {account[w].issued + 1}
  PROVE  /\ Accountable'
         /\ \A a \in Accounts : account'[a] = IF a = w THEN t ELSE account[a]
         /\ \A j \in Jars \cup {None} : Fits(j) => Fits(j)' /\ (Dead(j) => Dead(j)')
<1>1. account \in [Accounts -> Rows] /\ account[w] \in Rows
  BY DEF TypeInv, Accountable
<1>2. \A a \in Accounts : account'[a] = IF a = w THEN t ELSE account[a]
  BY <1>1
<1>3. account' \in [Accounts -> Rows]
  BY <1>1
<1>4. PICK r : r = account[w]
  OBVIOUS
<1>5. r \in Rows /\ r.issued \in Nat /\ t.issued \in Nat
  BY <1>1, <1>4 DEF Rows
<1>6. r.issued <= t.issued /\ t.live \subseteq r.live \cup {r.issued + 1}
  BY <1>4
<1>7. Accountable'
  BY <1>2, <1>3 DEF TypeInv, Accountable
<1>8. ASSUME NEW j \in Jars, Fits(j)
      PROVE  Fits(j)' /\ (Dead(j) => Dead(j)')
  <2>1. j.who \in Accounts /\ j.serial \in Nat /\ j # None
    BY NoneAssumption DEF Jars
  <2>2. j.who # w => account'[j.who] = account[j.who]
    BY <1>2, <2>1
  <2>3. j.who = w => account'[j.who] = t /\ account[j.who] = r
    BY <1>2, <1>4
  <2>4. j.serial <= account[j.who].issued
    BY <1>8, <2>1 DEF Fits
  <2>5. Fits(j)'
    BY <1>5, <1>6, <2>1, <2>2, <2>3, <2>4 DEF Fits
  <2>6. Dead(j) => Dead(j)'
    BY <1>5, <1>6, <2>1, <2>2, <2>3, <2>4 DEF Dead, Renews
  <2> QED
    BY <2>5, <2>6
<1> QED
  BY <1>2, <1>7, <1>8 DEF Fits, Dead, Renews

LEMMA SteppedRows ==
  ASSUME TypeInv, NEW k \in Kinds, NEW c, NEW out, Moved(k, c, out) \/ Advanced(k, c, out)
  PROVE  /\ Accountable'
         /\ \A a \in Accounts : account'[a] = IF a = c.who THEN out.row ELSE account[a]
         /\ \A i \in Jars \cup {None} : Fits(i) => Fits(i)' /\ (Dead(i) => Dead(i)')
<1>1. PICK w, t : w = c.who /\ t = out.row
  OBVIOUS
<1>2. PICK r : r = account[w]
  OBVIOUS
<1>3. /\ w \in Accounts /\ account' = [account EXCEPT ![w] = t]
      /\ RowStep(k, c, r, t, out) \/ RefreshStep(c, r, t, out)
  BY <1>1, <1>2 DEF Moved, Advanced, Stepping
<1>4. r \in Rows /\ r.live \subseteq 1..r.issued /\ r.issued \in Nat
  BY <1>2, <1>3 DEF TypeInv, Accountable, Rows
<1>5. /\ t \in Rows /\ t.issued \in {r.issued, r.issued + 1}
      /\ \/ t.live \subseteq r.live
         \/ t.issued = r.issued + 1 /\ t.live \subseteq r.live \cup {r.issued + 1}
  BY <1>3 DEF RowStep, RefreshStep
<1>6. t.live \subseteq 1..t.issued /\ r.issued <= t.issued /\ t.live \subseteq r.live \cup {r.issued + 1}
  BY <1>4, <1>5
<1> QED
  BY <1>1, <1>2, <1>3, <1>5, <1>6, GrownRows


LEMMA AdvancedFields ==
  ASSUME TypeInv, NEW k \in Kinds, NEW c, NEW out, c.jar \in Jars \cup {None}, Fits(c.jar), Advanced(k, c, out)
  PROVE  /\ out.at \in Rotating /\ out.status = 0 /\ out.jar \in Jars /\ out.jar.who = c.who /\ out.jar # None
         /\ Fits(out.jar)'
<1>1. PICK i, w : i = out.jar /\ w = c.who
  OBVIOUS
<1>2. /\ out.at \in Rotating /\ out.status = 0 /\ i \in Jars /\ i.who = w /\ w \in Accounts
      /\ i = c.jar \/ i.serial = 0
  BY <1>1 DEF Advanced, Stepping, RefreshStep, Rotating
<1>3. Accountable' /\ (Fits(c.jar) => Fits(c.jar)')
  BY SteppedRows
<1>4. account'[w].issued \in Nat
  BY <1>2, <1>3 DEF Accountable, Rows
<1>5. Fits(i)'
  <2>1. CASE i = c.jar
    BY <1>3, <2>1 DEF Fits
  <2>2. CASE i.serial = 0
    BY <1>2, <1>4, <2>2 DEF Fits
  <2> QED
    BY <1>2, <2>1, <2>2
<1> QED
  BY <1>1, <1>2, <1>5, NoneAssumption DEF Fits

-----------------------------------------------------------------------------
(* A request that nobody awaits is taken. *)

(* What the service adds to the history. *)
Grown ==
  /\ history' \in Histories /\ (history.straddled => history'.straddled) /\ (history.broken => history'.broken)
  /\ history'.left = history.left /\ history'.crossed = history.crossed /\ history'.over = history.over
  /\ history'.overlap = history.overlap /\ history'.lost = history.lost

GrownTo(g, h, b, d) ==
  \/ g = [h EXCEPT !.straddled = b, !.broken = d]
  \/ g = [h EXCEPT !.straddled = b] /\ d = h.broken
  \/ g = [h EXCEPT !.broken = d] /\ b = h.straddled

LEMMA GrownFields ==
  ASSUME NEW h \in Histories, NEW b \in BOOLEAN, NEW d \in BOOLEAN, NEW g, GrownTo(g, h, b, d)
  PROVE  /\ g \in Histories /\ g.straddled = b /\ g.broken = d
         /\ g.left = h.left /\ g.crossed = h.crossed /\ g.over = h.over
         /\ g.overlap = h.overlap /\ g.lost = h.lost
<1> DEFINE t == [left |-> h.left, crossed |-> h.crossed, over |-> h.over, straddled |-> b,
                 overlap |-> h.overlap, lost |-> h.lost, broken |-> d]
<1>1. /\ h.left \in BOOLEAN /\ h.crossed \in BOOLEAN /\ h.over \in BOOLEAN
      /\ h.overlap \in BOOLEAN /\ h.lost \in BOOLEAN
  BY DEF Histories
<1>2. t \in Histories
  BY <1>1 DEF Histories
<1>3. g = t
  BY DEF GrownTo, Histories
<1>4. /\ t.straddled = b /\ t.broken = d /\ t.left = h.left /\ t.crossed = h.crossed /\ t.over = h.over
      /\ t.overlap = h.overlap /\ t.lost = h.lost
  OBVIOUS
<1> HIDE DEF t
<1> QED
  BY <1>2, <1>3, <1>4

OrphanAt(q, o, at, i) == q = [o EXCEPT !.at = at, !.jar = i]

LEMMA OrphanFields ==
  ASSUME NEW o \in Orphans, NEW at \in Taking, NEW i \in Jars, NEW q, OrphanAt(q, o, at, i)
  PROVE  q \in Orphans /\ q.kind = o.kind /\ q.at = at /\ q.who = o.who /\ q.jar = i
<1> DEFINE t == [kind |-> o.kind, at |-> at, who |-> o.who, jar |-> i]
<1>1. o.kind \in Changing /\ o.who \in Accounts \cup {None}
  BY DEF Orphans
<1>2. t \in Orphans
  BY <1>1 DEF Orphans
<1>3. q = t
  BY DEF OrphanAt, Orphans
<1>4. t.kind = o.kind /\ t.at = at /\ t.who = o.who /\ t.jar = i
  OBVIOUS
<1> HIDE DEF t
<1> QED
  BY <1>2, <1>3, <1>4

LEMMA TakeOrphanInvariant ==
  ASSUME IInv, NEW o \in orphans, TakeOrphan(o)
  PROVE  IInv'
<1>0. TypeInv /\ Safe /\ {"hydrate", "refresh", "login", "logout", "delete", "confirm"} \subseteq Kinds
  BY DEF IInv, Kinds
<1>1. UNCHANGED <<jar, tab, call, troubles>>
  BY DEF TakeOrphan
<1>2. /\ o \in Orphans /\ o.kind \in Kinds /\ o.at \in Taking /\ o.who \in Accounts \cup {None}
      /\ o.jar \in Jars \cup {None} /\ Underway(o.kind, o) /\ Fits(o.jar)
  BY <1>0 DEF TypeInv, Carried, Astray, Orphans, Changing, Issuing, Revoking, Kinds
<1>3. PICK out \in Outcomes(o.kind, o, {}) :
        /\ Stored(o, out)
        /\ orphans' = (orphans \ {o}) \cup IF out.at \in Rotating THEN {[o EXCEPT !.at = out.at, !.jar = out.jar]} ELSE {}
        /\ history' = [history EXCEPT !.straddled = @ \/ Straddles(o.kind, o, out)]
  BY Zenon DEF TakeOrphan
<1>4. Unmoved(o.kind, o, out) \/ Moved(o.kind, o, out) \/ Advanced(o.kind, o, out)
  BY <1>0, <1>2, <1>3, Served
<1>5. /\ Accountable'
      /\ \A j \in Jars \cup {None} : Fits(j) => Fits(j)' /\ (Dead(j) => Dead(j)')
  <2>1. CASE Unmoved(o.kind, o, out)
    BY <1>0, <2>1 DEF Unmoved, TypeInv, Accountable, Fits, Dead, Renews
  <2>2. CASE Moved(o.kind, o, out) \/ Advanced(o.kind, o, out)
    BY <1>0, <1>2, <2>2, SteppedRows
  <2> QED
    BY <1>4, <2>1, <2>2
<1>6. Grown
  <2>1. PICK b : b = (history.straddled \/ Straddles(o.kind, o, out))
    OBVIOUS
  <2>2. b \in BOOLEAN /\ (history.straddled => b)
    BY <2>1
  <2>3. PICK h, g, d : h = history /\ g = history' /\ d = history.broken
    OBVIOUS
  <2>4. GrownTo(g, h, b, d)
    BY <1>3, <2>1, <2>3 DEF GrownTo
  <2>5. h \in Histories /\ d \in BOOLEAN /\ d = h.broken
    BY <1>0, <2>3, HereFields DEF Histories
  <2>6. /\ g \in Histories /\ g.straddled = b /\ g.broken = d
        /\ g.left = h.left /\ g.crossed = h.crossed /\ g.over = h.over
        /\ g.overlap = h.overlap /\ g.lost = h.lost
    BY <2>2, <2>4, <2>5, GrownFields
  <2> QED
    BY <2>2, <2>3, <2>6 DEF Grown
<1>7. \A q \in orphans' : Astray(q)'
  <2>1. ASSUME NEW q \in orphans
        PROVE  Astray(q)'
    <3>1. Astray(q) /\ q.jar \in Jars \cup {None}
      BY <1>0 DEF TypeInv, Carried, Astray, Orphans
    <3> QED
      BY <1>5, <3>1 DEF Astray
  <2>2. ASSUME out.at \in Rotating, NEW q, q = [o EXCEPT !.at = out.at, !.jar = out.jar]
        PROVE  Astray(q)'
    <3>1. Advanced(o.kind, o, out)
      BY <1>4, <2>2 DEF Unmoved, Moved, RowStep, Rotating
    <3>2. PICK at, i : at = out.at /\ i = out.jar
      OBVIOUS
    <3>3. at \in Rotating /\ i \in Jars /\ i.who = o.who /\ i # None /\ Fits(i)'
      BY <1>0, <1>2, <3>1, <3>2, AdvancedFields DEF Fits
    <3>4. at \in Taking /\ OrphanAt(q, o, at, i)
      BY <2>2, <3>2, <3>3 DEF Taking, OrphanAt
    <3>5. q \in Orphans /\ q.kind = o.kind /\ q.at = at /\ q.who = o.who /\ q.jar = i
      <4>1. o \in Orphans /\ i \in Jars
        BY <1>2, <3>3
      <4> QED
        BY <3>4, <4>1, OrphanFields
    <3>6. o.kind = "refresh"
      BY <3>1 DEF Advanced
    <3> QED
      BY <3>3, <3>5, <3>6 DEF Astray, Underway, Rotating, Fits
  <2> QED
    BY <1>3, <2>1, <2>2
<1>8. history.lost
  BY <1>0 DEF Safe, Known
<1>9. TypeInv'
  <2>1. jar \in Jars \cup {None} /\ \A k \in Kinds : call[k].jar \in Jars \cup {None}
    BY <1>0, HereFields DEF Calls
  <2>2. Fits(jar)'
    BY <1>0, <1>1, <1>5, <2>1 DEF TypeInv, Carried, Fits
  <2>3. \A k \in Kinds : Fits(call[k].jar)'
    BY <1>0, <1>1, <1>5, <2>1 DEF TypeInv, Carried, Fits
  <2>4. \A k \in Kinds : Shape(k, call[k])'
    BY <1>0, <1>1 DEF TypeInv, Carried, Shape, Underway
  <2>5. Carried'
    BY <1>0, <1>1, <1>7, <2>2, <2>3, <2>4 DEF TypeInv, Carried
  <2>6. Shown'
    BY <1>0, <1>1, <1>6 DEF TypeInv, Shown, Grown
  <2> QED
    BY <1>5, <2>5, <2>6 DEF TypeInv
<1>10. ShowsWhoItActsFor' /\ Punctual' /\ Bare' /\ OneOwner' /\ Known'
  BY <1>0, <1>1, <1>6, <1>8 DEF Safe, ShowsWhoItActsFor, Punctual, Bare, OneOwner, Held, Known, Grown
<1>11. Spent'
  <2>1. jar \in Jars \cup {None} /\ Fits(jar)
    BY <1>0 DEF TypeInv, Carried
  <2>2. call["refresh"].jar \in Jars \cup {None} /\ Fits(call["refresh"].jar)
    BY <1>0, HereFields DEF TypeInv, Carried, Calls
  <2>3. (Dead(jar) => Dead(jar)') /\ (Dead(call["refresh"].jar) => Dead(call["refresh"].jar)')
    BY <1>1, <1>5, <2>1, <2>2 DEF Dead, Renews
  <2> QED
    BY <1>0, <1>1, <1>6, <2>3 DEF Safe, Spent, Answered, Grown
<1>12. Left' /\ Quiet'
  BY <1>6, <1>8 DEF Left, Quiet, Tidy, Grown
<1> QED
  BY <1>9, <1>10, <1>11, <1>12 DEF IInv, Safe

-----------------------------------------------------------------------------
(* A request of the tab is taken, or gets on. *)

TakenStep(k, out) ==
  /\ jar' = jar /\ tab' = tab /\ orphans' = orphans /\ troubles' \in Nat /\ Grown
  /\ AtServer(k) /\ call' \in [Kinds -> Calls] /\ \A l \in Kinds \ {k} : call'[l] = call[l]
  /\ call'[k].at = out.at /\ call'[k].who = call[k].who /\ call'[k].late = call[k].late
  /\ call'[k].status = Seen(out.status) /\ call'[k].jar = out.jar
  /\ Breaks(call[k], out.status) => history'.broken
  /\ Straddles(k, call[k], out) => history'.straddled

TakenAs(k, out) ==
  /\ AtServer(k) /\ UNCHANGED <<jar, tab, orphans>>
  /\ call' = [call EXCEPT ![k] = [call[k] EXCEPT !.at = out.at, !.status = Seen(out.status), !.jar = out.jar]]

LEMMA TakenFields ==
  ASSUME IInv, NEW k \in Kinds, NEW out, TakenAs(k, out), troubles' \in Nat,
         out.at \in {"answered"} \cup Rotating, out.jar \in Jars \cup {None},
         NEW b \in BOOLEAN, NEW d \in BOOLEAN, GrownTo(history', history, b, d),
         history.straddled \/ Straddles(k, call[k], out) => b, history.broken \/ Breaks(call[k], out.status) => d
  PROVE  TakenStep(k, out)
<1>0. TypeInv
  BY DEF IInv
<1>1. PICK c, at, s, p : c = call[k] /\ at = out.at /\ s = Seen(out.status) /\ p = out.jar
  OBVIOUS
<1>2. /\ c \in Calls /\ at \in {"answered"} \cup Rotating /\ s \in {0, 200, 400, 401}
      /\ p \in Jars \cup {None}
  BY <1>0, <1>1, HereFields DEF Seen
<1>3. PICK q : q = [c EXCEPT !.at = at, !.status = s, !.jar = p]
  OBVIOUS
<1>4. q \in Calls /\ q.at = at /\ q.status = s /\ q.jar = p /\ q.who = c.who /\ q.late = c.late
  <2>1. AnswerOf(q, c, at, s, p)
    BY <1>3 DEF AnswerOf
  <2> QED
    BY <1>2, <2>1, AnswerFields
<1>5. call' = [call EXCEPT ![k] = q]
  BY <1>1, <1>3 DEF TakenAs
<1>6. call' \in [Kinds -> Calls] /\ call'[k] = q /\ \A l \in Kinds \ {k} : call'[l] = call[l]
  BY <1>0, <1>4, <1>5, HereFields
<1>7. Grown /\ history'.straddled = b /\ history'.broken = d
  <2>1. PICK h, g : h = history /\ g = history'
    OBVIOUS
  <2>2. h \in Histories /\ GrownTo(g, h, b, d)
    BY <1>0, <2>1, HereFields
  <2>3. /\ g \in Histories /\ g.straddled = b /\ g.broken = d
        /\ g.left = h.left /\ g.crossed = h.crossed /\ g.over = h.over
        /\ g.overlap = h.overlap /\ g.lost = h.lost
    BY <2>2, GrownFields
  <2> QED
    BY <2>1, <2>3 DEF Grown
<1> QED
  BY <1>1, <1>4, <1>6, <1>7 DEF TakenStep, TakenAs

LEMMA TakeFields ==
  ASSUME IInv, NEW k \in Kinds, Take(k)
  PROVE  \E out : /\ TakenStep(k, out)
                  /\ Unmoved(k, call[k], out) \/ Moved(k, call[k], out) \/ Advanced(k, call[k], out)
<1>0. TypeInv
  BY DEF IInv
<1>1. PICK c : c = call[k]
  OBVIOUS
<1>2. /\ c \in Calls /\ c.at \in Taking /\ AtServer(k) /\ Underway(k, c) /\ Fits(c.jar)
      /\ c.who \in Accounts \cup {None} /\ c.jar \in Jars \cup {None}
  BY <1>0, <1>1, HereFields DEF Take, AtServer, TypeInv, Carried, Shape, Taking, Calls
<1>3. PICK refusing, out :
        /\ out \in Outcomes(k, call[k], refusing) /\ Stored(call[k], out)
        /\ call' = [call EXCEPT ![k] = [call[k] EXCEPT !.at = out.at, !.status = Seen(out.status), !.jar = out.jar]]
        /\ history' = [history EXCEPT !.straddled = @ \/ Straddles(k, call[k], out),
                                      !.broken = @ \/ Breaks(call[k], out.status)]
  BY Zenon DEF Take
<1>4. Unmoved(k, c, out) \/ Moved(k, c, out) \/ Advanced(k, c, out)
  <2>1. out \in Outcomes(k, c, refusing) /\ Stored(c, out)
    BY <1>1, <1>3
  <2> QED
    BY <1>0, <1>2, <2>1, Served
<1>5. out.at \in {"answered"} \cup Rotating /\ out.jar \in Jars \cup {None}
  <2>1. CASE Unmoved(k, c, out) \/ Moved(k, c, out)
    BY <2>1 DEF Unmoved, Moved, RowStep
  <2>2. CASE Advanced(k, c, out)
    BY <2>2 DEF Advanced, RefreshStep, Rotating
  <2> QED
    BY <1>4, <2>1, <2>2
<1>6. PICK b, d : /\ b = (history.straddled \/ Straddles(k, call[k], out))
                  /\ d = (history.broken \/ Breaks(call[k], out.status))
  OBVIOUS
<1>7. b \in BOOLEAN /\ d \in BOOLEAN /\ GrownTo(history', history, b, d)
  BY <1>3, <1>6 DEF GrownTo
<1>8. TakenAs(k, out) /\ troubles' \in Nat
  BY <1>0, <1>2, <1>3, HereFields DEF Take, TakenAs
<1>9. TakenStep(k, out)
  BY <1>5, <1>6, <1>7, <1>8, TakenFields
<1> QED
  BY <1>1, <1>4, <1>9

LEMMA ThrowFields ==
  ASSUME IInv, Throw
  PROVE  \E out : TakenStep("refresh", out) /\ Unmoved("refresh", call["refresh"], out)
<1>0. TypeInv /\ "refresh" \in Kinds /\ AtServer("refresh")
  BY DEF IInv, Kinds, Throw, AtServer
<1>1. PICK out : out = Outcome(None, "answered", None, 500)
  OBVIOUS
<1>2. out.at = "answered" /\ out.jar = None /\ out.status = 500
  BY <1>1, OutcomeFields
<1>3. PICK b, d : b = history.straddled /\ d = (history.broken \/ Breaks(call["refresh"], out.status))
  OBVIOUS
<1>4. b \in BOOLEAN /\ d \in BOOLEAN
  BY <1>0, <1>3, HereFields DEF Histories
<1>5. GrownTo(history', history, b, d)
  BY <1>2, <1>3 DEF Throw, GrownTo
<1>6. TakenAs("refresh", out)
  BY <1>0, <1>2 DEF Throw, TakenAs
<1>7. troubles' \in Nat /\ account' = account /\ call["refresh"].at \in Rotating
  BY <1>0, HereFields DEF Throw
<1>8. ~Straddles("refresh", call["refresh"], out)
  BY DEF Straddles, Revoking
<1>9. TakenStep("refresh", out)
  <2>1. /\ history.straddled \/ Straddles("refresh", call["refresh"], out) => b
        /\ history.broken \/ Breaks(call["refresh"], out.status) => d
    BY <1>3, <1>8
  <2>2. out.at \in {"answered"} \cup Rotating /\ out.jar \in Jars \cup {None}
    BY <1>2
  <2> QED
    BY <1>0, <1>4, <1>5, <1>6, <1>7, <2>1, <2>2, TakenFields
<1>10. Unmoved("refresh", call["refresh"], out)
  BY <1>2, <1>7 DEF Unmoved, Rotating
<1> QED
  BY <1>9, <1>10

(* The parts that do not look at the rows. *)
LEMMA TakenShown ==
  ASSUME IInv, NEW k \in Kinds, NEW out, TakenStep(k, out), out.at \in {"answered"} \cup Rotating
  PROVE  Shown' /\ Bare' /\ Known' /\ ShowsWhoItActsFor' /\ Punctual'
<1>1. TypeInv /\ Safe /\ {"hydrate", "refresh"} \subseteq Kinds
  BY DEF IInv, Kinds
<1>2. call[k].at \in Taking /\ call'[k].at \in {"answered"} \cup Rotating
  BY DEF TakenStep, AtServer, Taking
<1>3. call[k] # Idle /\ call'[k] # Idle /\ call'[k].at # "waiting" /\ call[k].at \notin {"idle", "waiting"}
  BY <1>2, IdleFields DEF Taking, Rotating
<1>4. \A l \in Kinds \ {k} : call'[l] = call[l]
  BY DEF TakenStep
<1>5. Shown'
  BY <1>1, <1>3, <1>4 DEF TakenStep, Grown, TypeInv, Shown
<1>6. Punctual'
  <2>1. \A l \in Kinds : call'[l].who = call[l].who /\ call'[l].late = call[l].late
                         /\ (call'[l].at \notin {"idle", "waiting"} => call[l].at \notin {"idle", "waiting"})
    BY <1>3, <1>4 DEF TakenStep
  <2>2. Telling \subseteq Kinds
    BY DEF Telling, Kinds
  <2>3. Owner(jar)' = Owner(jar) /\ history'.crossed = history.crossed
    BY DEF TakenStep, Grown, Owner
  <2> QED
    BY <1>1, <2>1, <2>2, <2>3 DEF Safe, Punctual
<1> QED
  BY <1>1, <1>5, <1>6 DEF TakenStep, Grown, Safe, Bare, Known, ShowsWhoItActsFor

LEMMA UnmovedInvariant ==
  ASSUME IInv, NEW k \in Kinds, NEW out, TakenStep(k, out), Unmoved(k, call[k], out)
  PROVE  IInv'
<1>0. /\ TypeInv /\ Safe /\ {"hydrate", "refresh", "login", "logout", "delete", "confirm"} \subseteq Kinds
      /\ Issuing \cup Revoking \subseteq Kinds
  BY DEF IInv, Kinds, Issuing, Revoking
<1>1. /\ account' = account /\ jar' = jar /\ tab' = tab /\ orphans' = orphans /\ Grown
      /\ AtServer(k) /\ call' \in [Kinds -> Calls] /\ \A l \in Kinds \ {k} : call'[l] = call[l]
      /\ call'[k].at = "answered" /\ call'[k].who = call[k].who /\ call'[k].status = Seen(out.status)
  BY DEF TakenStep, Unmoved
<1>2. call'[k].jar = None /\ call'[k].status # 0
      /\ (call'[k].status = 200 => k \in {"me", "hydrate", "update"} /\ call[k].who \in Accounts)
  BY <1>1 DEF TakenStep, Unmoved, Seen
<1>3. call'[k] # Idle /\ call[k] # Idle /\ ~Answered(k, 200)
  BY <1>1, IdleFields DEF AtServer, Answered, Rotating
<1>4. TypeInv'
  <2>1. Accountable'
    BY <1>0, <1>1 DEF TypeInv, Accountable
  <2>2. Carried'
    <3>1. Fits(jar)' /\ \A o \in orphans' : Astray(o)'
      BY <1>0, <1>1 DEF TypeInv, Carried, Fits, Astray
    <3>2. Shape(k, call'[k])
      BY <1>1, <1>2 DEF Shape, Underway, Rotating, Issuing
    <3>3. \A l \in Kinds : Shape(l, call[l])' /\ Fits(call[l].jar)'
      BY <1>0, <1>1, <1>2, <3>2 DEF TypeInv, Carried, Fits, Shape, Underway, Addressed
    <3> QED
      BY <1>0, <1>1, <3>1, <3>3 DEF TypeInv, Carried
  <2>3. Shown'
    BY TakenShown DEF Unmoved
  <2> QED
    BY <2>1, <2>2, <2>3 DEF TypeInv
<1>5. OneOwner'
  <2>1. Held' \subseteq Held \cup {None}
    BY <1>0, <1>1, <1>2 DEF Held
  <2> QED
    BY <1>0, <1>1, <2>1 DEF Safe, OneOwner, Grown
<1>6. Spent'
  <2>1. Answered("logout", 200)' => Answered("logout", 200)
    BY <1>0, <1>1, <1>2 DEF Answered
  <2>2. call'["refresh"].jar \in {None, call["refresh"].jar}
    BY <1>0, <1>1, <1>2
  <2>3. call'["refresh"].at \in Rotating => call["refresh"].at \in Rotating
    BY <1>0, <1>1 DEF Rotating
  <2> QED
    BY <1>0, <1>1, <2>1, <2>2, <2>3 DEF Safe, Spent, Dead, Renews, Grown
<1>7. Left'
  <2>1. ASSUME NEW a \in Accounts, Gone(a)
        PROVE  Gone(a)'
    BY <1>1, <1>2, <2>1 DEF Gone, Answered, Named, Owner
  <2>2. Answered("delete", 200) => Answered("delete", 200)' /\ call'["delete"].who = call["delete"].who
    BY <1>0, <1>1, <1>3 DEF Answered
  <2> QED
    BY <1>0, <1>1, <2>1, <2>2 DEF Safe, Left, Grown
<1>8. Quiet'
  <2> SUFFICES ASSUME Tidy'
               PROVE  Apart' /\ Current'
    BY DEF Quiet
  <2>1. Apart /\ Current /\ ~history'.broken
    BY <1>0, <1>1 DEF Safe, Quiet, Tidy, Grown
  <2>2. \A l \in Kinds : call'[l] = Idle <=> call[l] = Idle
    BY <1>1, <1>3
  <2>3. \A l \in Issuing \cup Revoking : Answered(l, 200)' <=> Answered(l, 200)
    BY <1>0, <1>1, <1>2, <1>3 DEF Answered, Issuing, Revoking
  <2>4. \A l \in Kinds : Sent(l)' => Sent(l) /\ call'[l] = call[l]
    BY <1>1 DEF Sent
  <2>5. call'["refresh"].at \in {"sent", "found"} => call'["refresh"] = call["refresh"]
    BY <1>0, <1>1
  <2>6. Apart'
    BY <1>0, <2>1, <2>2, <2>3, <2>4 DEF Apart, Revoking, Issuing
  <2>7. (call["refresh"].at \in {"sent", "found"} => Alive(call["refresh"].jar))'
    BY <1>0, <1>1, <2>1, <2>5 DEF Current, Alive, Renews
  <2>8. (\A l \in Issuing : Answered(l, 200) => Alive(call[l].jar))'
    <3>1. \A l \in Issuing : Answered(l, 200)' => l \in Kinds \ {k} /\ call'[l] = call[l]
      BY <1>0, <1>1, <1>3, <2>3 DEF Issuing
    <3> QED
      BY <1>1, <2>1, <2>3, <3>1 DEF Current, Alive, Renews
  <2>9. (Settled => Alive(jar))'
    <3>1. call["refresh"].at \in {"rotated", "signed"} => k # "refresh"
      <4>1. out.status \in {400, 401, 403, 410, 429, 500} \/ k # "refresh"
        BY DEF Unmoved
      <4> QED
        BY <2>1, <4>1 DEF TakenStep, Breaks
    <3>2. Settled' => Settled
      BY <1>0, <1>1, <2>3, <3>1 DEF Settled, Issuing, Revoking
    <3> QED
      BY <1>1, <2>1, <3>2 DEF Current, Alive, Renews
  <2>10. call'["login"].jar \in {None, call["login"].jar} /\ call'["refresh"].jar \in {None, call["refresh"].jar}
    BY <1>0, <1>1, <1>2
  <2>11. (Answered("login", 200) => Apiece(call["login"].jar, jar) /\ Apiece(call["login"].jar, call["refresh"].jar))'
    BY <1>1, <2>1, <2>3, <2>10 DEF Current, Apiece, Issuing
  <2> QED
    BY <2>6, <2>7, <2>8, <2>9, <2>11 DEF Current
<1>9. Bare' /\ Known' /\ ShowsWhoItActsFor' /\ Punctual'
  BY TakenShown DEF Unmoved
<1> QED
  BY <1>4, <1>5, <1>6, <1>7, <1>8, <1>9 DEF IInv, Safe

LEMMA MovedInvariant ==
  ASSUME IInv, NEW k \in Kinds, NEW out, TakenStep(k, out), Moved(k, call[k], out)
  PROVE  IInv'
<1>0. /\ TypeInv /\ Safe
      /\ {"hydrate", "refresh", "login", "logout", "delete", "confirm"} \subseteq Kinds
      /\ Issuing \cup Revoking \subseteq Kinds
  BY DEF IInv, Kinds, Issuing, Revoking
<1>1. PICK c, w, j, t, p : c = call[k] /\ w = c.who /\ j = c.jar /\ t = out.row /\ p = out.jar
  OBVIOUS
<1>2. w \in Accounts /\ j \in Jars \cup {None} /\ (k \notin Named => j # None /\ j.who = w)
  BY <1>0, <1>1, HereFields DEF Moved, Stepping, Calls
<1>3. PICK r : r = account[w]
  OBVIOUS
<1>4. RowStep(k, c, r, t, out) /\ r \in Rows /\ t \in Rows /\ r.issued \in Nat
  BY <1>0, <1>1, <1>2, <1>3 DEF Moved, TypeInv, Accountable, RowStep, Rows
<1>5. /\ Accountable'
      /\ \A a \in Accounts : account'[a] = IF a = w THEN t ELSE account[a]
      /\ \A i \in Jars \cup {None} : Fits(i) => Fits(i)' /\ (Dead(i) => Dead(i)')
  BY <1>0, <1>1, SteppedRows
<1>6. /\ k \in {"login", "confirm", "refresh", "logout", "delete"} /\ out.at = "answered"
      /\ out.status = 200 \/ (out.status = 401 /\ k = "refresh" /\ c.at = "sent" /\ j.serial \notin r.live)
      /\ c.at = "sent" \/ (k = "refresh" /\ c.at = "signed")
  BY <1>1, <1>4 DEF RowStep
<1>7. /\ jar' = jar /\ tab' = tab /\ orphans' = orphans /\ Grown
      /\ AtServer(k) /\ call' \in [Kinds -> Calls] /\ \A l \in Kinds \ {k} : call'[l] = call[l]
      /\ call'[k].at = "answered" /\ call'[k].who = w /\ call'[k].status = out.status /\ call'[k].jar = p
  BY <1>1, <1>6 DEF TakenStep, Seen
<1>8. IF k \in Issuing /\ out.status = 200
        THEN /\ p \in Jars /\ p # None /\ p.who = w /\ p.serial = r.issued + 1
             /\ t.issued = r.issued + 1 /\ p.serial \in t.live
        ELSE p = None
  BY <1>1, <1>4, NoneAssumption DEF RowStep, Issuing
<1>9. /\ jar \in Jars \cup {None} /\ Fits(jar)
      /\ \A l \in Kinds : call[l].jar \in Jars \cup {None} /\ Fits(call[l].jar)
      /\ \A o \in orphans : o.jar \in Jars \cup {None} /\ Fits(o.jar)
  BY <1>0, HereFields DEF TypeInv, Carried, Calls, Astray, Orphans
<1>10. call[k] # Idle /\ call'[k] # Idle /\ ~Answered(k, 200)
  BY <1>7, IdleFields DEF AtServer, Rotating, Answered
<1>11. TypeInv'
  <2>1. Carried'
    <3>1. Fits(jar)'
      BY <1>5, <1>7, <1>9 DEF Fits
    <3>2. \A o \in orphans' : Astray(o)'
      BY <1>0, <1>5, <1>7, <1>9 DEF TypeInv, Carried, Astray
    <3>3. Shape(k, call'[k])
      BY <1>2, <1>6, <1>7, <1>8 DEF Shape, Underway, Rotating
    <3>4. Fits(p)'
      BY <1>2, <1>4, <1>5, <1>8 DEF Fits, Rows
    <3>5. \A l \in Kinds \ {k} : Fits(call[l].jar)'
      BY <1>5, <1>7, <1>9 DEF Fits
    <3>6. \A l \in Kinds : Shape(l, call[l])' /\ Fits(call[l].jar)'
      BY <1>0, <1>7, <3>3, <3>4, <3>5 DEF TypeInv, Carried, Fits, Shape, Underway
    <3> QED
      BY <1>0, <1>7, <3>1, <3>2, <3>6 DEF TypeInv, Carried
  <2>2. Shown'
    BY <1>6, TakenShown
  <2> QED
    BY <1>5, <2>1, <2>2 DEF TypeInv
<1>12. OneOwner'
  <2>1. \A i \in Held' : i # None => \E h \in Held : h # None /\ h.who = i.who
    <3>1. \A l \in {"logout", "refresh"} : call'[l].jar # None =>
            \/ l # k /\ call'[l].jar = call[l].jar
            \/ l = k /\ j # None /\ j.who = call'[l].jar.who
      BY <1>0, <1>2, <1>7, <1>8 DEF Named
    <3> QED
      BY <1>1, <1>7, <3>1 DEF Held
  <2>2. \A i, h \in Held : ~history.over /\ i # None /\ h # None => i.who = h.who
    BY <1>0 DEF Safe, OneOwner
  <2> QED
    BY <1>7, <2>1, <2>2 DEF OneOwner, Grown
<1>13. Spent'
  <2> SUFFICES ASSUME (history.left \/ Answered("logout", 200)') /\ ~history.over /\ ~history'.straddled
               PROVE  Dead(jar)' /\ Dead(call["refresh"].jar)' /\ call'["refresh"].at \notin Rotating
    BY <1>7 DEF Spent, Grown
  <2>1. CASE k = "logout"
    <3>1. t.live = {} /\ j # None /\ j.who = w /\ out.status = 200
      BY <1>2, <1>4, <2>1 DEF RowStep, Named
    <3>2. \A h \in Held : h # None => h.who = w
      BY <1>0, <1>1, <2>1, <3>1 DEF Safe, OneOwner, Held
    <3>3. jar \in Held /\ call["refresh"].jar \in Held /\ call'["refresh"] = call["refresh"]
      BY <1>0, <1>7, <2>1 DEF Held
    <3>4. call["refresh"].at \notin Rotating
      <4>1. ASSUME call["refresh"].at \in Rotating PROVE call["refresh"].jar # None /\ call["refresh"].who = call["refresh"].jar.who
        BY <1>0, <4>1 DEF TypeInv, Carried, Shape, Underway
      <4>2. ASSUME call["refresh"].at \in Rotating PROVE Straddles(k, call[k], out)
        BY <1>1, <2>1, <3>1, <3>2, <3>3, <4>1, <4>2 DEF Straddles, Revoking
      <4> QED
        BY <4>2 DEF TakenStep
    <3> QED
      BY <1>2, <1>5, <1>7, <3>1, <3>2, <3>3, <3>4 DEF Dead, Renews
  <2>2. CASE k # "logout"
    <3>1. Answered("logout", 200)' => Answered("logout", 200)
      BY <1>0, <1>7, <2>2 DEF Answered
    <3>2. Dead(jar) /\ Dead(call["refresh"].jar) /\ call["refresh"].at \notin Rotating
      BY <1>0, <1>7, <3>1 DEF Safe, Spent, Grown
    <3>3. Dead(jar)'
      BY <1>5, <1>7, <1>9, <3>2 DEF Dead, Renews
    <3>4. CASE k # "refresh"
      <4>1. call'["refresh"] = call["refresh"]
        BY <1>0, <1>7, <3>4
      <4> QED
        BY <1>0, <1>5, <1>9, <3>2, <3>3, <4>1 DEF Dead, Renews
    <3>5. CASE k = "refresh"
      <4>1. p = None
        BY <1>1, <1>4, <1>8, <3>2, <3>5 DEF RowStep, Rotating, Dead, Renews
      <4> QED
        BY <1>7, <3>3, <3>5, <4>1 DEF Dead, Renews, Rotating
    <3> QED
      BY <3>4, <3>5
  <2> QED
    BY <2>1, <2>2
<1>14. Left'
  <2> SUFFICES ASSUME ~history.lost, NEW a \in Accounts, account'[a].deleted
               PROVE  (Answered("delete", 200)' /\ call'["delete"].who = a) \/ Gone(a)'
    BY <1>7 DEF Left, Grown
  <2>1. CASE k = "delete" /\ a = w
    BY <1>6, <1>7, <2>1 DEF Answered
  <2>2. CASE ~(k = "delete" /\ a = w)
    <3>1. account[a].deleted /\ (k \in Named => a # w)
      BY <1>3, <1>4, <1>5, <2>2 DEF RowStep, Named
    <3>2. CASE Answered("delete", 200) /\ call["delete"].who = a
      <4>1. k # "delete"
        BY <1>10, <3>2
      <4> QED
        BY <1>0, <1>7, <3>2, <4>1 DEF Answered
    <3>3. CASE Gone(a)
      <4>1. w # a
        BY <1>1, <3>1, <3>3 DEF Gone
      <4> QED
        BY <1>7, <3>3, <4>1 DEF Gone, Answered, Owner
    <3> QED
      BY <1>0, <3>1, <3>2, <3>3 DEF Safe, Left
  <2> QED
    BY <2>1, <2>2
<1>15. Quiet'
  <2> SUFFICES ASSUME Tidy'
               PROVE  Apart' /\ Current'
    BY DEF Quiet
  <2>1. Apart /\ Current
    BY <1>0, <1>7 DEF Safe, Quiet, Tidy, Grown
  <2>2. \A l \in Kinds : call'[l] = Idle <=> call[l] = Idle
    BY <1>7, <1>10
  <2>3. \A l \in Kinds \ {k} : Answered(l, 200)' <=> Answered(l, 200)
    BY <1>7 DEF Answered
  <2>4. \A l \in Kinds : Sent(l)' => l # k /\ Sent(l) /\ call'[l] = call[l]
    BY <1>7 DEF Sent
  <2>5. k = "refresh" => out.status = 200
    BY <1>1, <1>2, <1>3, <1>6, <2>1 DEF Current, Alive, Renews, Named
  <2>6. call["refresh"] # Idle => k \notin Revoking
    <3>1. k \in Revoking => Sent(k)
      BY <1>1, <1>6 DEF Revoking, Sent
    <3> QED
      BY <2>1, <3>1 DEF Apart
  <2>7. /\ call["login"] # Idle => k \notin Revoking
        /\ call["confirm"] # Idle => k \notin {"login", "logout", "delete"}
    BY <1>10, <2>1 DEF Apart
  <2>8. Apart'
    <3>1. call'["refresh"] # Idle => \A l \in Revoking : ~Sent(l)' /\ ~Answered(l, 200)'
      BY <1>0, <2>1, <2>2, <2>3, <2>4, <2>6 DEF Apart
    <3>2. call'["login"] # Idle => \A l \in Revoking : call'[l] = Idle
      BY <1>0, <2>1, <2>2 DEF Apart
    <3>3. call'["confirm"] # Idle => \A l \in {"login", "logout", "delete"} : call'[l] = Idle
      BY <1>0, <2>1, <2>2 DEF Apart
    <3> QED
      BY <3>1, <3>2, <3>3 DEF Apart
  <2>9. k \notin Revoking => k \in {"login", "refresh"} /\ t.live = r.live \cup {r.issued + 1}
    BY <1>4, <1>6, <2>5 DEF RowStep, Revoking
  <2>10. ASSUME NEW i \in Jars \cup {None}, Alive(i), k \notin Revoking
         PROVE  Alive(i)'
    <3>1. i # None => i.who \in Accounts
      BY <2>10 DEF Jars
    <3> QED
      BY <1>3, <1>5, <2>9, <2>10, <3>1 DEF Alive, Renews
  <2>11. (call["refresh"].at \in {"sent", "found"} => Alive(call["refresh"].jar))'
    <3> SUFFICES ASSUME call'["refresh"].at \in {"sent", "found"}
                 PROVE  Alive(call["refresh"].jar)'
      OBVIOUS
    <3>1. k # "refresh" /\ call'["refresh"] = call["refresh"]
      BY <1>0, <1>7
    <3>2. call["refresh"] # Idle
      BY <3>1, IdleFields
    <3>3. PICK i : i = call["refresh"].jar
      OBVIOUS
    <3>4. i \in Jars \cup {None} /\ Alive(i)
      BY <1>0, <1>9, <2>1, <3>1, <3>3 DEF Current
    <3>5. Alive(i)'
      BY <2>6, <2>10, <3>2, <3>4
    <3> QED
      BY <3>1, <3>3, <3>5 DEF Alive, Renews
  <2>12. (\A l \in Issuing : Answered(l, 200) => Alive(call[l].jar))'
    <3> SUFFICES ASSUME NEW l \in Issuing, Answered(l, 200)'
                 PROVE  Alive(call[l].jar)'
      OBVIOUS
    <3>1. CASE l = k
      <4>1. out.status = 200 /\ call'[l].jar = p
        BY <1>7, <3>1 DEF Answered
      <4> QED
        BY <1>2, <1>5, <1>8, <3>1, <4>1 DEF Alive, Renews
    <3>2. CASE l # k
      <4>1. call'[l] = call[l] /\ Answered(l, 200) /\ call[l] # Idle
        BY <1>0, <1>7, <2>3, <3>2, IdleFields DEF Answered
      <4>2. k \notin Revoking
        BY <2>6, <2>7, <3>2, <4>1 DEF Issuing, Revoking
      <4>3. PICK i : i = call[l].jar
        OBVIOUS
      <4>4. i \in Jars \cup {None} /\ Alive(i)
        BY <1>0, <1>9, <2>1, <4>1, <4>3 DEF Current
      <4>5. Alive(i)'
        BY <2>10, <4>2, <4>4
      <4> QED
        BY <4>1, <4>3, <4>5 DEF Alive, Renews
    <3> QED
      BY <3>1, <3>2
  <2>13. (Settled => Alive(jar))'
    <3> SUFFICES ASSUME Settled'
                 PROVE  Alive(jar)'
      OBVIOUS
    <3>1. k \notin Revoking \cup {"refresh"}
      <4>1. k \in Revoking \cup {"refresh"} => out.status = 200
        BY <1>6, <2>5 DEF Revoking
      <4>2. ~Answered(k, 200)' \/ k \notin Revoking \cup {"refresh"}
        BY DEF Settled
      <4> QED
        BY <1>7, <4>1, <4>2 DEF Answered
    <3>2. call'["refresh"] = call["refresh"]
      BY <1>0, <1>7, <3>1
    <3>3. Settled
      BY <1>0, <2>3, <3>1, <3>2 DEF Settled
    <3>4. PICK i : i = jar
      OBVIOUS
    <3>5. Alive(i)'
      BY <1>9, <2>1, <2>10, <3>1, <3>3, <3>4 DEF Current
    <3> QED
      BY <1>7, <3>4, <3>5 DEF Alive, Renews
  <2>14. (Answered("login", 200) => Apiece(call["login"].jar, jar) /\ Apiece(call["login"].jar, call["refresh"].jar))'
    <3>1. ASSUME NEW i \in Jars \cup {None}, Fits(i)
          PROVE  Apiece(p, i) /\ Apiece(i, p)
      BY <1>3, <1>4, <1>8, <3>1 DEF Apiece, Fits, Jars
    <3>2. CASE k = "login"
      <4>1. call'["login"].jar = p /\ call'["refresh"] = call["refresh"] /\ jar' = jar
        BY <1>0, <1>7, <3>2
      <4> QED
        BY <1>0, <1>9, <3>1, <4>1
    <3>3. CASE k = "refresh"
      <4>1. call'["refresh"].jar = p /\ call'["login"] = call["login"] /\ jar' = jar
        BY <1>0, <1>7, <3>3
      <4> QED
        BY <1>0, <1>9, <2>1, <3>1, <4>1 DEF Current, Answered
    <3>4. CASE k \notin {"login", "refresh"}
      <4>1. call'["refresh"] = call["refresh"] /\ call'["login"] = call["login"] /\ jar' = jar
        BY <1>0, <1>7, <3>4
      <4> QED
        BY <2>1, <4>1 DEF Current, Answered
    <3> QED
      BY <3>2, <3>3, <3>4
  <2> QED
    BY <2>8, <2>11, <2>12, <2>13, <2>14 DEF Current
<1>16. Bare' /\ Known' /\ ShowsWhoItActsFor' /\ Punctual'
  BY <1>6, TakenShown
<1> QED
  BY <1>11, <1>12, <1>13, <1>14, <1>15, <1>16 DEF IInv, Safe

LEMMA AdvancedInvariant ==
  ASSUME IInv, NEW k \in Kinds, NEW out, TakenStep(k, out), Advanced(k, call[k], out)
  PROVE  IInv'
<1>0. /\ TypeInv /\ Safe /\ k = "refresh"
      /\ {"hydrate", "refresh", "login", "logout", "delete", "confirm"} \subseteq Kinds
      /\ Issuing \cup Revoking \subseteq Kinds
  BY DEF IInv, Kinds, Issuing, Revoking, Advanced
<1>1. PICK c, w, j, t, p : c = call["refresh"] /\ w = c.who /\ j = c.jar /\ t = out.row /\ p = out.jar
  OBVIOUS
<1>2. w \in Accounts /\ j \in Jars /\ j # None /\ j.who = w /\ Fits(j)
  BY <1>0, <1>1, HereFields DEF Advanced, Stepping, Named, Calls, TypeInv, Carried
<1>3. PICK r : r = account[w]
  OBVIOUS
<1>4. /\ RefreshStep(c, r, t, out) /\ r \in Rows /\ t \in Rows /\ t.deleted = r.deleted
      /\ \/ c.at = "sent" /\ out.at = "found" /\ p = j /\ j.serial \in r.live /\ t.live = r.live
         \/ c.at = "found" /\ out.at = "rotated" /\ p = j /\ t.live = r.live \ {j.serial}
         \/ c.at = "rotated" /\ out.at = "signed" /\ p.serial = 0 /\ t.live = r.live
  BY <1>0, <1>1, <1>2, <1>3 DEF Advanced, TypeInv, Accountable, RefreshStep
<1>5. /\ Accountable'
      /\ \A a \in Accounts : account'[a] = IF a = w THEN t ELSE account[a]
      /\ \A i \in Jars \cup {None} : Fits(i) => Fits(i)' /\ (Dead(i) => Dead(i)')
  BY <1>0, <1>1, SteppedRows
<1>6. /\ out.at \in Rotating /\ out.status = 0 /\ p \in Jars /\ p.who = w /\ p # None /\ Fits(p)'
  <2>1. Advanced("refresh", c, out) /\ c.jar \in Jars \cup {None} /\ Fits(c.jar) /\ "refresh" \in Kinds
    BY <1>0, <1>1, <1>2 DEF Fits
  <2>2. /\ out.at \in Rotating /\ out.status = 0 /\ out.jar \in Jars /\ out.jar.who = c.who /\ out.jar # None
        /\ Fits(out.jar)'
    BY <1>0, <2>1, AdvancedFields
  <2> QED
    BY <1>1, <2>2 DEF Fits
<1>7. /\ jar' = jar /\ tab' = tab /\ orphans' = orphans /\ Grown
      /\ call' \in [Kinds -> Calls] /\ \A l \in Kinds \ {"refresh"} : call'[l] = call[l]
      /\ call'["refresh"].at = out.at /\ call'["refresh"].who = w /\ call'["refresh"].jar = p
      /\ call["refresh"].at \in {"sent"} \cup Rotating
  BY <1>0, <1>1 DEF TakenStep, AtServer
<1>8. /\ jar \in Jars \cup {None} /\ Fits(jar)
      /\ \A l \in Kinds : call[l].jar \in Jars \cup {None} /\ Fits(call[l].jar)
      /\ \A o \in orphans : o.jar \in Jars \cup {None} /\ Fits(o.jar)
  BY <1>0, HereFields DEF TypeInv, Carried, Calls, Astray, Orphans
<1>9. call["refresh"] # Idle /\ call'["refresh"] # Idle /\ ~Answered("refresh", 200)
  BY <1>6, <1>7, IdleFields DEF Rotating, Answered
<1>10. TypeInv'
  <2>1. Carried'
    <3>1. Fits(jar)'
      BY <1>5, <1>7, <1>8 DEF Fits
    <3>2. \A o \in orphans' : Astray(o)'
      BY <1>0, <1>5, <1>7, <1>8 DEF TypeInv, Carried, Astray
    <3>3. Shape("refresh", call'["refresh"])
      BY <1>6, <1>7 DEF Shape, Underway, Rotating
    <3>4. \A l \in Kinds \ {"refresh"} : Fits(call[l].jar)'
      BY <1>5, <1>7, <1>8 DEF Fits
    <3>5. \A l \in Kinds : Shape(l, call[l])' /\ Fits(call[l].jar)'
      BY <1>0, <1>6, <1>7, <3>3, <3>4 DEF TypeInv, Carried, Fits, Shape, Underway
    <3> QED
      BY <1>0, <1>7, <3>1, <3>2, <3>5 DEF TypeInv, Carried
  <2>2. Shown'
    BY <1>6, TakenShown
  <2> QED
    BY <1>5, <2>1, <2>2 DEF TypeInv
<1>11. OneOwner'
  <2>1. \A i \in Held' : i # None => \E h \in Held : h # None /\ h.who = i.who
    BY <1>0, <1>1, <1>2, <1>6, <1>7 DEF Held
  <2>2. \A i, h \in Held : ~history.over /\ i # None /\ h # None => i.who = h.who
    BY <1>0 DEF Safe, OneOwner
  <2> QED
    BY <1>7, <2>1, <2>2 DEF OneOwner, Grown
<1>12. Spent'
  <2>1. Dead(j) => ~(c.at = "sent")
    BY <1>2, <1>3, <1>4 DEF Dead, Renews
  <2>2. c.at = "sent" \/ c.at \in Rotating
    BY <1>1, <1>7
  <2>3. Answered("logout", 200)' <=> Answered("logout", 200)
    BY <1>0, <1>7 DEF Answered
  <2> QED
    BY <1>0, <1>1, <1>7, <2>1, <2>2, <2>3 DEF Safe, Spent, Grown
<1>13. Left'
  <2> SUFFICES ASSUME ~history.lost, NEW a \in Accounts, account'[a].deleted
               PROVE  (Answered("delete", 200)' /\ call'["delete"].who = a) \/ Gone(a)'
    BY <1>7 DEF Left, Grown
  <2>1. account[a].deleted
    BY <1>3, <1>4, <1>5
  <2>2. CASE Answered("delete", 200) /\ call["delete"].who = a
    BY <1>0, <1>7, <2>2 DEF Answered
  <2>3. CASE Gone(a)
    <3>1. w # a
      BY <1>0, <1>1, <2>3 DEF Gone, Named
    <3> QED
      BY <1>7, <2>3, <3>1 DEF Gone, Answered, Owner
  <2> QED
    BY <1>0, <2>1, <2>2, <2>3 DEF Safe, Left
<1>14. Quiet'
  <2> SUFFICES ASSUME Tidy'
               PROVE  Apart' /\ Current'
    BY DEF Quiet
  <2>1. Apart /\ Current
    BY <1>0, <1>7 DEF Safe, Quiet, Tidy, Grown
  <2>2. \A l \in Kinds : call'[l] = Idle <=> call[l] = Idle
    BY <1>7, <1>9
  <2>3. \A l \in Kinds \ {"refresh"} : call'[l] = call[l]
    BY <1>7
  <2>4. ~Answered("refresh", 200) /\ ~Answered("refresh", 200)'
    BY <1>6, <1>7, <1>9 DEF Answered, Rotating
  <2>5. Apart'
    BY <1>0, <2>1, <2>2, <2>3 DEF Apart, Revoking, Sent, Answered
  <2>6. ASSUME NEW i \in Jars \cup {None}, Alive(i), c.at = "found" => Apiece(i, j)
        PROVE  Alive(i)'
    <3>1. i # None => i.who \in Accounts
      BY <2>6 DEF Jars
    <3>2. i # None /\ i.who = w => i.serial \in t.live
      BY <1>2, <1>3, <1>4, <2>6 DEF Alive, Renews, Apiece
    <3> QED
      BY <1>5, <2>6, <3>1, <3>2 DEF Alive, Renews
  <2>7. (call["refresh"].at \in {"sent", "found"} => Alive(call["refresh"].jar))'
    <3> SUFFICES ASSUME out.at = "found"
                 PROVE  Alive(p)'
      BY <1>6, <1>7 DEF Rotating, Alive, Renews
    <3>1. p = j /\ j.serial \in t.live
      BY <1>4
    <3> QED
      BY <1>2, <1>5, <3>1 DEF Alive, Renews
  <2>8. \A l \in Issuing : Answered(l, 200)' => l = "login" /\ Answered("login", 200)
    BY <1>0, <1>9, <2>1, <2>3, <2>4 DEF Apart, Issuing, Revoking, Answered
  <2>9. (\A l \in Issuing : Answered(l, 200) => Alive(call[l].jar))'
    <3> SUFFICES ASSUME Answered("login", 200)
                 PROVE  Alive(call["login"].jar)'
      BY <2>8
    <3>1. PICK i : i = call["login"].jar
      OBVIOUS
    <3>2. i \in Jars \cup {None} /\ Alive(i) /\ Apiece(i, j)
      BY <1>0, <1>1, <1>8, <2>1, <3>1 DEF Current, Issuing
    <3>3. Alive(i)'
      BY <2>6, <3>2
    <3> QED
      BY <1>0, <2>3, <3>1, <3>3 DEF Alive, Renews
  <2>10. (Settled => Alive(jar))'
    <3> SUFFICES ASSUME Settled'
                 PROVE  Alive(jar)'
      OBVIOUS
    <3>1. c.at = "sent"
      BY <1>4, <1>7 DEF Settled
    <3>2. Settled
      BY <1>0, <1>1, <2>3, <2>4, <3>1 DEF Settled, Revoking, Answered
    <3>3. PICK i : i = jar
      OBVIOUS
    <3>4. Alive(i)'
      BY <1>8, <2>1, <2>6, <3>1, <3>2, <3>3 DEF Current
    <3> QED
      BY <1>7, <3>3, <3>4 DEF Alive, Renews
  <2>11. (Answered("login", 200) => Apiece(call["login"].jar, jar) /\ Apiece(call["login"].jar, call["refresh"].jar))'
    <3> SUFFICES ASSUME Answered("login", 200)
                 PROVE  Apiece(call["login"].jar, jar) /\ Apiece(call["login"].jar, p)
      BY <1>0, <1>7, <2>3 DEF Answered, Apiece
    <3>1. PICK i : i = call["login"].jar
      OBVIOUS
    <3>2. Apiece(i, jar) /\ Apiece(i, j) /\ Alive(i) /\ i \in Jars \cup {None}
      BY <1>0, <1>1, <1>8, <2>1, <3>1 DEF Current, Issuing
    <3>3. i # None => i.serial # 0
      <4>1. i # None => i.who \in Accounts /\ i.serial \in account[i.who].live
        BY <3>2 DEF Alive, Renews, Jars
      <4> QED
        BY <1>0, <4>1 DEF TypeInv, Accountable
    <3>4. Apiece(i, p)
      BY <1>4, <3>2, <3>3 DEF Apiece
    <3> QED
      BY <3>1, <3>2, <3>4
  <2> QED
    BY <2>5, <2>7, <2>9, <2>10, <2>11 DEF Current
<1>15. Bare' /\ Known' /\ ShowsWhoItActsFor' /\ Punctual'
  BY <1>6, TakenShown
<1> QED
  BY <1>10, <1>11, <1>12, <1>13, <1>14, <1>15 DEF IInv, Safe

LEMMA TakeInvariant ==
  ASSUME IInv, NEW k \in Kinds, Take(k)
  PROVE  IInv'
BY TakeFields, UnmovedInvariant, MovedInvariant, AdvancedInvariant

LEMMA ThrowInvariant ==
  ASSUME IInv, Throw
  PROVE  IInv'
<1>1. "refresh" \in Kinds
  BY DEF Kinds
<1> QED
  BY <1>1, ThrowFields, UnmovedInvariant

-----------------------------------------------------------------------------

LEMMA InitInvariant ==
  ASSUME Init
  PROVE  IInv
<1>0. {"hydrate", "refresh", "login", "logout", "delete", "confirm"} \subseteq Kinds /\ "login" \in Paths
  BY DEF Kinds, Paths, PublicPaths
<1>1. /\ jar = None /\ tab = Loading("login") /\ call = Hydrating(None) /\ orphans = {} /\ troubles = 0
      /\ account = [a \in Accounts |-> [deleted |-> FALSE, version |-> 0, issued |-> 0, live |-> {}, recent |-> {}]]
      /\ history = [left |-> FALSE, crossed |-> FALSE, over |-> FALSE, straddled |-> FALSE,
                    overlap |-> FALSE, lost |-> FALSE, broken |-> FALSE]
  BY DEF Init
<1>2. PICK r : r = Request(Owner(None), None)
  OBVIOUS
<1>3. r \in Calls /\ r.at = "sent" /\ r.who = None /\ r.jar = None
  <2>1. Owner(None) = None
    BY DEF Owner
  <2>2. PICK a, j : a = None /\ j = None
    OBVIOUS
  <2>3. r = Request(a, j) /\ a \in Accounts \cup {None} /\ j \in Jars \cup {None}
    BY <1>2, <2>1, <2>2
  <2> QED
    BY <2>2, <2>3, RequestFields
<1>4. call \in [Kinds -> Calls] /\ \A k \in Kinds : call[k] = IF k = "hydrate" THEN r ELSE Idle
  BY <1>1, <1>2, <1>3, IdleFields DEF Hydrating
<1>5. tab \in Tabs /\ tab.user = None /\ ~tab.hydrated
  BY <1>0, <1>1, LoadingFields
<1>6. Accountable
  <2>1. \A a \in Accounts : account[a] \in Rows /\ account[a].live = {} /\ ~account[a].deleted
    BY <1>1 DEF Rows
  <2> QED
    BY <1>1, <2>1 DEF Accountable
<1>7. history \in Histories /\ ~history.left
  BY <1>1 DEF Histories
<1>8. Carried
  BY <1>1, <1>3, <1>4, IdleFields DEF Carried, Fits, Shape, Underway, Rotating, Addressed, Named, Owner
<1>9. Shown
  BY <1>0, <1>1, <1>3, <1>4, <1>5, <1>7, IdleFields DEF Shown
<1>10. \A l \in {"login", "logout", "refresh", "delete", "confirm"} : call[l] = Idle
  BY <1>0, <1>4
<1>11. ShowsWhoItActsFor /\ Punctual /\ Bare /\ Known
  BY <1>1, <1>3, <1>4, <1>5, <1>7, IdleFields DEF ShowsWhoItActsFor, Punctual, Telling, Kinds, Owner, Bare, Known
<1>12. OneOwner /\ Spent
  BY <1>1, <1>10, IdleFields DEF OneOwner, Held, Spent, Rotating, Dead, Renews
<1>13. Left
  BY <1>1 DEF Left
<1>14. Quiet
  BY <1>1, <1>10, IdleFields DEF Quiet, Apart, Revoking, Current, Settled, Issuing, Sent, Answered, Alive
<1> QED
  BY <1>6, <1>8, <1>9, <1>11, <1>12, <1>13, <1>14 DEF IInv, Safe, TypeInv

LEMMA NextInvariant ==
  ASSUME IInv, [Next]_vars
  PROVE  IInv'
<1>1. CASE UNCHANGED vars
  BY <1>1 DEF vars, IInv, TypeInv, Accountable, Carried, Shown, Shape, Underway, Astray, Fits, Safe,
              ShowsWhoItActsFor, Punctual, Bare, OneOwner, Held, Spent, Answered, Dead, Renews, Known, Left, Gone,
              Quiet, Tidy, Apart, Current, Settled, Sent, Alive
<1>2. CASE Person
  <2>1. ASSUME NEW p \in Paths, Visit(p) PROVE IInv'
    BY <2>1, VisitInvariant
  <2>2. ASSUME NEW p \in Paths, Reload(p) PROVE IInv'
    BY <2>2, ReloadInvariant
  <2> QED
    BY <1>2, <2>1, <2>2, PersonSubmits DEF Person
<1>3. CASE Expire
  BY <1>3, ExpireCalm, CalmInvariant
<1>4. ASSUME NEW k \in Kinds, Take(k) \/ Hears(k) PROVE IInv'
  <2>1. CASE Take(k)
    BY <2>1, TakeInvariant
  <2>2. CASE OnSignedIn(k)
    BY <2>2, OnSignedInInvariant
  <2>3. CASE OnProfile(k)
    BY <2>3, OnProfileInvariant
  <2>4. CASE Failed(k)
    BY <2>4, FailedCalm, CalmInvariant
  <2>5. CASE Timeout(k)
    BY <2>5, TimeoutCalm, CalmInvariant
  <2>6. CASE Unauthorized(k)
    BY <2>6, UnauthorizedInvariant
  <2> QED
    BY <1>4, <2>1, <2>2, <2>3, <2>4, <2>5, <2>6 DEF Hears
<1>5. CASE OnLogout \/ OnDeleted \/ OnRefreshed
  BY <1>5, OnLogoutInvariant, OnDeletedInvariant, OnRefreshedInvariant
<1>6. CASE OnRefreshFailed
  BY <1>6, RefreshFailsCalm, CalmInvariant
<1>7. CASE Throw
  BY <1>7, ThrowInvariant
<1>8. ASSUME NEW o \in orphans, TakeOrphan(o) PROVE IInv'
  BY <1>8, TakeOrphanInvariant
<1> QED
  BY <1>1, <1>2, <1>3, <1>4, <1>5, <1>6, <1>7, <1>8 DEF Next

(* The invariant of the tab, its requests and the service holds throughout.*)
THEOREM Invariance == Spec => []IInv
<1>1. Init => IInv
  BY InitInvariant
<1>2. IInv /\ [Next]_vars => IInv'
  BY NextInvariant
<1> QED
  BY <1>1, <1>2, PTL DEF Spec

(* The store, the requests and the rows have their types: a tab that shows *)
(* somebody is hydrated, and no request waits for a refresh that is not on *)
(* its way (ApiClient's queue never keeps a request for nothing).          *)
THEOREM TypeCorrect == Spec => []TypeOK
<1>1. IInv => TypeOK
  <2> SUFFICES ASSUME IInv
               PROVE  TypeOK
    OBVIOUS
  <2>1. TypeInv /\ {"hydrate", "refresh"} \subseteq Kinds
    BY DEF IInv, Kinds
  <2>2. "hydrate" \in Pending <=> ~tab.hydrated
    BY <2>1, PendingIs DEF TypeInv, Shown
  <2>3. Waiting # {} => call["refresh"].at # "idle"
    BY <2>1, HereFields DEF TypeInv, Shown, Waiting
  <2> QED
    BY <2>1, <2>2, <2>3 DEF TypeOK, TypeInv, Shown, Accountable, Tabs
<1> QED
  BY <1>1, Invariance, PTL

(* The tab shows whoever its cookies act for, whatever order answers come  *)
(* in, unless an answer crossed a later sign-in.                           *)
THEOREM OneIdentity == Spec => []ShowsWhoItActsFor
<1>1. IInv => ShowsWhoItActsFor
  BY DEF IInv, Safe
<1> QED
  BY <1>1, Invariance, PTL

(* Once a logout or a deletion was answered, nobody is shown and no cookies*)
(* are left until the answer comes to a request that was in flight then;   *)
(* and those of a refresh get no new ones, unless the sessions were revoked*)
(* between its lookup and its insert or somebody signed in over a request  *)
(* that sets or clears cookies.                                            *)
THEOREM LogoutHolds == Spec => []SignedOutForGood
<1>1. IInv => SignedOutForGood
  <2> SUFFICES ASSUME IInv, history.left
               PROVE  /\ tab.user # None \/ Revives(jar) => history.crossed
                      /\ Renews(jar) => history.straddled \/ history.over
    BY DEF SignedOutForGood
  <2>1. Bare /\ Spent
    BY DEF IInv, Safe
  <2> QED
    BY <2>1 DEF Bare, Spent, Dead, Revives
<1> QED
  BY <1>1, Invariance, PTL

(* A deleted account is shown only until the answer to its deletion.       *)
THEOREM DeletionShows == Spec => []DeletedIsLeft
<1>1. IInv => DeletedIsLeft
  <2> SUFFICES ASSUME IInv, tab.user # None, account[tab.user].deleted, ~history.lost
               PROVE  call["delete"].at # "idle"
    BY DEF DeletedIsLeft
  <2>1. tab.user \in Accounts
    BY DEF IInv, TypeInv, Shown, Tabs
  <2>2. ~Gone(tab.user)
    BY DEF Gone
  <2> QED
    BY <2>1, <2>2 DEF IInv, Safe, Left, Answered
<1> QED
  BY <1>1, Invariance, PTL

(* Only the service answers a refresh. *)
LEMMA RefreshAnswered ==
  ASSUME IInv, Next, Sent("refresh"), call'["refresh"].at = "answered"
  PROVE  Take("refresh")
<1>0. TypeInv /\ "refresh" \in Kinds /\ call["refresh"].at = "sent" /\ call \in [Kinds -> Calls]
  BY HereFields DEF IInv, Kinds, Sent
<1>1. ASSUME call'["refresh"] \in {call["refresh"], Idle}
      PROVE  FALSE
  BY <1>0, <1>1, IdleFields
<1>2. ASSUME NEW k \in Kinds, k # "refresh", NEW c, call' = [call EXCEPT ![k] = c]
      PROVE  FALSE
  BY <1>0, <1>1, <1>2
<1>3. ASSUME NEW k \in Kinds, k # "refresh", NEW a, Send(k, a)
      PROVE  FALSE
  BY <1>2, <1>3 DEF Send
<1>4. {"me", "login", "confirm", "logout", "update", "delete", "hydrate"} \subseteq Kinds \ {"refresh"}
  BY DEF Kinds
<1>5. ASSUME NEW j, call' = Hydrating(j)
      PROVE  FALSE
  BY <1>0, <1>1, <1>5 DEF Hydrating
<1>6. ~Person
  <2>1. ASSUME NEW p \in Paths, Visit(p) PROVE FALSE
    BY <1>1, <1>3, <1>4, <2>1 DEF Visit
  <2>2. ASSUME NEW p \in Paths, Reload(p) PROVE FALSE
    BY <1>5, <2>2 DEF Reload
  <2>3. ASSUME NEW k \in {"login", "confirm", "logout", "update", "delete"}, NEW a, Submit(k, a) PROVE FALSE
    BY <1>3, <1>4, <2>3 DEF Submit
  <2> QED
    BY <2>1, <2>2, <2>3 DEF Person, Login, handleConfirm, Logout, UpdateProfile, DeleteAccount
<1>7. ~Expire
  BY <1>1 DEF Expire
<1>8. ASSUME NEW k \in Kinds, k # "refresh", Take(k) PROVE FALSE
  <2>1. call'["refresh"] = call["refresh"]
    BY <1>0, <1>8, TakeFields DEF TakenStep
  <2> QED
    BY <1>1, <2>1
<1>9. ASSUME NEW k \in Kinds, k # "refresh", call' = Overtaken(k) PROVE FALSE
  <2>1. call'["refresh"] \in {call["refresh"], [call["refresh"] EXCEPT !.late = TRUE]}
    BY <1>0, <1>9 DEF Overtaken
  <2>2. call["refresh"] \in Calls
    BY <1>0
  <2> QED
    BY <1>0, <2>1, <2>2 DEF Calls
<1>10. ASSUME NEW k \in Kinds, Hears(k) PROVE FALSE
  <2>1. ASSUME k # "refresh", call' = Heard(k) PROVE FALSE
    BY <1>2, <2>1 DEF Heard
  <2>2. CASE OnProfile(k) \/ Failed(k) \/ Timeout(k)
    BY <2>1, <2>2 DEF OnProfile, Failed, Timeout, Fails
  <2>3. CASE OnSignedIn(k)
    BY <1>9, <2>3 DEF OnSignedIn
  <2>4. CASE Unauthorized(k)
    <3>1. call["refresh"] # Idle /\ k # "refresh"
      BY <1>0, <2>4, IdleFields DEF Unauthorized
    <3>2. PICK c : call' = [call EXCEPT ![k] = c, !["refresh"] = call["refresh"]]
      BY <2>4, <3>1 DEF Unauthorized
    <3> QED
      BY <1>0, <1>1, <3>1, <3>2
  <2> QED
    BY <1>10, <2>2, <2>4, <2>3 DEF Hears
<1>11. ~OnLogout
  BY <1>4, <1>9 DEF OnLogout
<1>12. ~OnDeleted
  BY <1>5 DEF OnDeleted
<1>13. ~OnRefreshed
  BY <1>0 DEF OnRefreshed, Answered
<1>14. ~OnRefreshFailed
  BY <1>0, <1>1 DEF OnRefreshFailed, RefreshFails
<1>15. \A o \in orphans : ~TakeOrphan(o)
  BY <1>1 DEF TakeOrphan
<1>16. ~Throw
  BY <1>0 DEF Throw, Rotating
<1> QED
  BY <1>6, <1>7, <1>8, <1>10, <1>11, <1>12, <1>13, <1>14, <1>15, <1>16 DEF Next

(* A refresh token is called stolen, and every session of its owner ended, *)
(* only if an answer was lost, if a refresh broke off after it had revoked *)
(* its session (a query threw, or a pair like it was stored that second),  *)
(* or if a refresh met what revokes sessions.                              *)
THEOREM AlarmsAreExplained == Spec => NoFalseAlarm
<1>1. IInv /\ [Next]_vars => [Alarms => history.lost \/ history.broken \/ history.overlap]_vars
  <2> SUFFICES ASSUME IInv, Next, Alarms, Tidy
               PROVE  FALSE
    BY DEF Tidy
  <2>1. /\ Sent("refresh") /\ call["refresh"].jar # None /\ call["refresh"].at = "sent"
        /\ call'["refresh"].at = "answered" /\ call'["refresh"].status = 401
    BY DEF Alarms, Sent
  <2>2. TypeInv /\ Current /\ "refresh" \in Kinds
    BY DEF IInv, Safe, Quiet, Kinds
  <2>3. PICK out : /\ TakenStep("refresh", out)
                   /\ \/ Unmoved("refresh", call["refresh"], out)
                      \/ Moved("refresh", call["refresh"], out)
                      \/ Advanced("refresh", call["refresh"], out)
    BY <2>1, <2>2, RefreshAnswered, TakeFields
  <2>4. out.status = 401 /\ out.at = "answered"
    BY <2>1, <2>3 DEF TakenStep, Seen
  <2>5. Moved("refresh", call["refresh"], out)
    BY <2>1, <2>3, <2>4 DEF Unmoved, Issuing, Advanced, RefreshStep
  <2>6. call["refresh"].jar.who = call["refresh"].who
    BY <2>5 DEF Moved, Stepping, Named
  <2>7. call["refresh"].jar.serial \notin account[call["refresh"].who].live
    BY <2>4, <2>5 DEF Moved, RowStep
  <2> QED
    BY <2>1, <2>2, <2>6, <2>7 DEF Current, Alive, Renews
<1> QED
  BY <1>1, Invariance, PTL DEF Spec, NoFalseAlarm
=============================================================================
