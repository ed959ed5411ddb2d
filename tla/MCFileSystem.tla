----------------------------- MODULE MCFileSystem -----------------------------
(* An instance of FileSystem for TLC. *)
EXTENDS FileSystem

CONSTANTS a, b, c

AllSizes == {0, 1, 2}
MCSymmetry == Permutations(Ids)

(* Where the exploration stops: an archive that a defragmentation of two    *)
(* holes has spoilt is checked, and not followed any further.              *)
NotSpoilt == ~spoilt
=============================================================================
