----------------------------- MODULE MCCsrfTokens -----------------------------
(* Instances of CsrfTokens for TLC. *)
EXTENDS CsrfTokens

CONSTANTS t1, t2
=============================================================================
