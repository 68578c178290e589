----------------------------- MODULE MCDirectCalls -----------------------------
(* Small instances of DirectCalls for TLC. *)
EXTENDS DirectCalls, TLC

\* The ids are interchangeable.
Symmetry == Permutations(Users) \cup Permutations(Handlers) \cup Permutations(Calls)
=============================================================================
