--------------------------- MODULE MCTokenVersion ---------------------------
(* TokenVersion for TLC: accounts and request slots are model values.      *)
EXTENDS TokenVersion, TLC

CONSTANTS alice, bob, p1, p2, p3

OneUser == {alice}
TwoUsers == {alice, bob}
TwoRequests == {p1, p2}
ThreeRequests == {p1, p2, p3}

SymmetricRequests == Permutations(Requests)
=============================================================================
