---------------------------- MODULE MCFreeListMpsc ----------------------------
(* An instance of FreeListMpsc for TLC: one thread frees besides the owner. *)
EXTENDS FreeListMpsc

CONSTANT r1
=============================================================================
