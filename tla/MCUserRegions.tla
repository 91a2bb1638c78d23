----------------------------- MODULE MCUserRegions -----------------------------
(* Instances of UserRegions for TLC. *)
EXTENDS UserRegions

(* The pools hand out objects in an order no property depends on, and the  *)
(* user regions differ in their names only.                                *)
Symmetry == Permutations(TaskObj) \cup Permutations(UserCode)
=============================================================================
