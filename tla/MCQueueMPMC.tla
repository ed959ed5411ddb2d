----------------------------- MODULE MCQueueMPMC -----------------------------
(* Instances of QueueMPMC for TLC: two cells, so that two laps are reached. *)
EXTENDS QueueMPMC

CONSTANTS p1, p2, c1, c2
==============================================================================
