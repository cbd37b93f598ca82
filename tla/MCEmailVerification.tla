------------------------ MODULE MCEmailVerification ------------------------
(* EmailVerification for TLC: addresses and request slots are model values. *)
EXTENDS EmailVerification, TLC

CONSTANTS home, work, p1, p2

TwoEmails == {home, work}
OneRequest == {p1}
TwoRequests == {p1, p2}

Symmetric == Permutations(Requests) \cup Permutations(Emails)
=============================================================================
