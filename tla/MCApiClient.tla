---------------------------- MODULE MCApiClient -----------------------------
(* ApiClient for TLC: tabs and request slots are model values.             *)
EXTENDS ApiClient, TLC

CONSTANTS left, right, r1, r2, r3

OneTab == {left}
TwoTabs == {left, right}
TwoRequests == {r1, r2}
ThreeRequests == {r1, r2, r3}
AllLeft == [r \in Requests |-> left]
OneEach == [r \in Requests |-> IF r = r2 THEN right ELSE left]

Symmetric == Permutations(Requests)
=============================================================================
