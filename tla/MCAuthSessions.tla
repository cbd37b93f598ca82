--------------------------- MODULE MCAuthSessions ---------------------------
(* AuthSessions for TLC: accounts, passwords and request slots are model   *)
(* values.                                                                 *)
EXTENDS AuthSessions, TLC

CONSTANTS alice, bob, old, new, p1, p2

OneUser == {alice}
TwoUsers == {alice, bob}
OnePassword == {old}
TwoPasswords == {old, new}
OneRequest == {p1}
TwoRequests == {p1, p2}

Symmetric == Permutations(Requests) \cup Permutations(Passwords)
=============================================================================
