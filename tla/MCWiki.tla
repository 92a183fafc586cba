------------------------------- MODULE MCWiki -------------------------------
(* Wiki for TLC. *)
EXTENDS Wiki, TLC
=============================================================================
