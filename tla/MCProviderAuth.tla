--------------------------- MODULE MCProviderAuth ---------------------------
(***************************************************************************)
(* A small instance of ProviderAuth for TLC: two threads and one alias     *)
(* with one credential, the token of a 1Password service account.          *)
(***************************************************************************)
EXTENDS ProviderAuth

CONSTANTS t1, t2, prod, s1, s2, s3, x1, x2, x3, token

OneToken  == <<token>>
AllFaults == FaultKinds
=============================================================================
