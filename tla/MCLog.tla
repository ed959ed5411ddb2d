--------------------------------- MODULE MCLog ---------------------------------
(* Instances of Log for TLC: the constants are given in the cfg files.      *)
EXTENDS Log
=============================================================================
