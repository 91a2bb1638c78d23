----------------------------- MODULE MCTaskProfile -----------------------------
(* Instances of TaskProfile for TLC. *)
EXTENDS TaskProfile

(* The pools hand out objects in an order no property depends on.          *)
Symmetry == Permutations(TaskObj)
=============================================================================
