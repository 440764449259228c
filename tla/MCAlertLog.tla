------------------------------- MODULE MCAlertLog -------------------------------
(* Instances of AlertLog for TLC.                                           *)
EXTENDS AlertLog

Symmetry == Permutations(Sessions) \cup Permutations(Keys)
=================================================================================
