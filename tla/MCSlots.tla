------------------------------- MODULE MCSlots -------------------------------
(* An instance of Slots for TLC: the constants are given in the cfg.        *)
EXTENDS Slots
=============================================================================
