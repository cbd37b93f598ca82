------------------------------ MODULE MCWebApp ------------------------------
(* An account that is verified and one that is not. *)
EXTENDS WebApp

CONSTANTS ann, bob
MCAccounts == {ann, bob}
MCUnverified == {bob}
=============================================================================
