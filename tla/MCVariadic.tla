------------------------------ MODULE MCVariadic ------------------------------
(* Variadic for TLC: ids are interchangeable.                               *)
EXTENDS Variadic, TLC

Symmetry == Permutations(Ids)
=============================================================================
