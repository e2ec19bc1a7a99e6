------------------------------ MODULE MCMapTable ------------------------------
(* Instances of MapTable for TLC.                                          *)
EXTENDS MapTable, TLC

Symmetry == Permutations(Threads)
===============================================================================
