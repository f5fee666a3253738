----------------------------- MODULE MCInternTable ------------------------------
EXTENDS InternTable, TLC
Symmetry == Permutations(Addr) \cup Permutations(Text)
================================================================================
