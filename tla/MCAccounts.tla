----------------------------- MODULE MCAccounts -----------------------------
(* Accounts for TLC: rows, addresses and request slots are model values. *)
EXTENDS Accounts, TLC

CONSTANTS alice, bob, home, work, p1, p2

TwoUsers == {alice, bob}
TwoEmails == {home, work}
OneRequest == {p1}
TwoRequests == {p1, p2}

Symmetric == Permutations(Users) \cup Permutations(Emails) \cup Permutations(Requests)
=============================================================================
