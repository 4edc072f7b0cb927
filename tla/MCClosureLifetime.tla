-------------------------- MODULE MCClosureLifetime --------------------------
(* ClosureLifetime for TLC: callbacks, slots and threads are                *)
(* interchangeable.                                                         *)
EXTENDS ClosureLifetime, TLC

Symmetry == Permutations(Callbacks) \cup Permutations(Slots) \cup Permutations(Threads)
=============================================================================
