--------------------------- MODULE MCMiniPageBuffer ---------------------------
(***************************************************************************)
(* Instances of MiniPageBuffer for TLC.                                    *)
(***************************************************************************)
EXTENDS MiniPageBuffer, TLC

Symmetry == Permutations(Threads) \cup Permutations(Stored)
===============================================================================
