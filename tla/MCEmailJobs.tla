---------------------------- MODULE MCEmailJobs ----------------------------
(* EmailJobs for TLC: addresses and codes are model values. *)
EXTENDS EmailJobs

CONSTANTS home, c1, c2

OneEmail == {home}
TwoCodes == {c1, c2}
=============================================================================
