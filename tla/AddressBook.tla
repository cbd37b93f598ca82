---------------------------- MODULE AddressBook ----------------------------
(***************************************************************************)
(* What the user service promises about addresses: an account in use       *)
(* stands under one address, and no two stand under the same one.  An      *)
(* account takes an address that nobody in use has, moves to another such  *)
(* address, or gives its address up.  Accounts implements this with        *)
(* lookups, inserts and updates that other requests interleave with.       *)
(***************************************************************************)
CONSTANTS
  Users,  \* the accounts
  Emails  \* the addresses

VARIABLE holders  \* the accounts in use under each address

Unlisted(u) == \A e \in Emails : u \notin holders[e]
Vacant(e) == holders[e] = {}

Init == holders = [e \in Emails |-> {}]

Take(u, e) ==
  /\ Unlisted(u) /\ Vacant(e)
  /\ holders' = [holders EXCEPT ![e] = {u}]

GiveUp(u) ==
  /\ ~Unlisted(u)
  /\ holders' = [e \in Emails |-> holders[e] \ {u}]

Move(u, e) ==
  /\ ~Unlisted(u) /\ Vacant(e)
  /\ holders' = [f \in Emails |-> IF f = e THEN {u} ELSE holders[f] \ {u}]

Next == \E u \in Users : GiveUp(u) \/ \E e \in Emails : Take(u, e) \/ Move(u, e)

Spec == Init /\ [][Next]_holders
=============================================================================
