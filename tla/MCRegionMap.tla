------------------------------ MODULE MCRegionMap ------------------------------
(* Instances of RegionMap for TLC. *)
EXTENDS RegionMap
=============================================================================
