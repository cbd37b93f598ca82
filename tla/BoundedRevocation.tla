-------------------------- MODULE BoundedRevocation --------------------------
(***************************************************************************)
(* What the revocation of access tokens promises, whatever is cached       *)
(* where: a user's tokens carry the version they were issued under, a      *)
(* revocation raises the current version by one, and a request is let      *)
(* through with a superseded version only within Window ticks of the       *)
(* revocation that superseded it.  TokenVersion implements this with a     *)
(* Redis cache in front of the users table.                                *)
(***************************************************************************)
EXTENDS Integers

CONSTANTS
  Users,        \* the accounts
  Requests,     \* slots for HTTP requests in flight
  MaxVersion,   \* bound on the number of revocations of one account
  Window        \* for how many ticks a superseded version may be honoured

NotServing == [on |-> FALSE, version |-> 0]

VARIABLES
  tokenVersion, \* the current version of each account
  lag,          \* lag[u][v]: ticks since v was superseded, up to Window + 1
  serving       \* the token version a request was let through with

vars == <<tokenVersion, lag, serving>>

Versions == 0..MaxVersion

(* One more tick, counted only as far as the promise can tell apart. *)
Older(n) == IF n <= Window THEN n + 1 ELSE n

Honoured(u, v) == v = tokenVersion[u] \/ (v < tokenVersion[u] /\ lag[u][v] <= Window)

Init ==
  /\ tokenVersion = [u \in Users |-> 0]
  /\ lag = [u \in Users |-> [v \in Versions |-> 0]]
  /\ serving = [p \in Requests |-> NotServing]

Accept(p, u, v) ==
  /\ ~serving[p].on
  /\ Honoured(u, v)
  /\ serving' = [serving EXCEPT ![p] = [on |-> TRUE, version |-> v]]
  /\ UNCHANGED <<tokenVersion, lag>>

Finish(p) ==
  /\ serving' = [serving EXCEPT ![p] = NotServing]
  /\ UNCHANGED <<tokenVersion, lag>>

(* The request p revokes the tokens of u, as the last thing it is let      *)
(* through for.                                                            *)
Revoke(p, u) ==
  /\ tokenVersion[u] < MaxVersion
  /\ tokenVersion' = [tokenVersion EXCEPT ![u] = @ + 1]
  /\ serving' = [serving EXCEPT ![p] = NotServing]
  /\ UNCHANGED lag

Tick ==
  /\ lag' = [u \in Users |-> [v \in Versions |->
               IF v < tokenVersion[u] THEN Older(lag[u][v]) ELSE lag[u][v]]]
  /\ UNCHANGED <<tokenVersion, serving>>

Next ==
  \/ Tick
  \/ \E p \in Requests :
       \/ Finish(p)
       \/ \E u \in Users : Revoke(p, u) \/ \E v \in Versions : Accept(p, u, v)

Spec == Init /\ [][Next]_vars
=============================================================================
