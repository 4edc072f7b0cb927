----------------------------- MODULE MCAsyncCall -----------------------------
(* AsyncCall for TLC: calls and pool threads are interchangeable.           *)
EXTENDS AsyncCall, TLC

Symmetry == Permutations(Calls) \cup Permutations(Workers)
=============================================================================
