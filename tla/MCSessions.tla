------------------------------ MODULE MCSessions ------------------------------
(* Small instances of Sessions for TLC. *)
EXTENDS Sessions, TLC

\* The ids are interchangeable.
Symmetry == Permutations(Handlers) \cup Permutations(Devices) \cup Permutations(Tokens)
=============================================================================
