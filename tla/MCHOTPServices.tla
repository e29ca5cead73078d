--------------------------- MODULE MCHOTPServices ---------------------------
(* A secret is its table of codes. *)
EXTENDS IntegrationChecks

TableCode(s, n) == s[n]
=============================================================================
