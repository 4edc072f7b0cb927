----------------------------- MODULE MCLibraries -----------------------------
(* Libraries for TLC: objects and symbols are interchangeable.              *)
EXTENDS Libraries, TLC

Symmetry == Permutations(Files) \cup Permutations(Dls) \cup Permutations(Symbols)
=============================================================================
