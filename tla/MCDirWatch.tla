----------------------------- MODULE MCDirWatch -----------------------------
(* Instances of DirWatch for TLC: one kind of each change and one event    *)
(* that is none.                                                           *)
EXTENDS DirWatch

MCMasks == {"IN_MOVED_TO", "IN_DELETE", "IN_MODIFY", "IN_IGNORED"}
=============================================================================
