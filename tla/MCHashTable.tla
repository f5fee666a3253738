------------------------------ MODULE MCHashTable ------------------------------
(* Instances of the hash table for TLC.  Keys are interchangeable. *)
EXTENDS HashTable, TLC

KeySymmetry == Permutations(Key)
================================================================================
