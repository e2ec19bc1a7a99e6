------------------------------- MODULE MCStore -------------------------------
(***************************************************************************)
(* Instances of Store for TLC.                                             *)
(***************************************************************************)
EXTENDS Store, TLC

Symmetry == Permutations(Threads) \cup Permutations(Keys) \cup Permutations(Vals)
===============================================================================
