------------------------- MODULE MCVerificationPage -------------------------
(* VerificationPage for TLC: addresses and codes are model values. *)
EXTENDS VerificationPage, TLC

CONSTANTS home, work, c1

TwoEmails == {home, work}
OneCode == {c1}

Symmetric == Permutations(Emails)
=============================================================================
