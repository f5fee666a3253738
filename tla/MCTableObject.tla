----------------------------- MODULE MCTableObject -----------------------------
(* Instances of table objects for TLC; the keys but 0.0 are interchangeable. *)
EXTENDS TableObject, TLC

KeySymmetry == Permutations(Key \ {Zero})
================================================================================
