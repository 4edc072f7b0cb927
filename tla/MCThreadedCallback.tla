------------------------- MODULE MCThreadedCallback -------------------------
(* ThreadedCallback for TLC: threads are model values.                      *)
EXTENDS ThreadedCallback, TLC

Symmetry == Permutations(Threads)
=============================================================================
