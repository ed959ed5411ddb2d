------------------------------ MODULE MCArchive ------------------------------
(* An instance of Archive for TLC. *)
EXTENDS Archive

CONSTANTS a, b, c

OneSize == {1}
=============================================================================
