------------------------------ MODULE MCFreeList ------------------------------
(* An instance of FreeList for TLC: the constants are given in the cfg.     *)
EXTENDS FreeList
=============================================================================
