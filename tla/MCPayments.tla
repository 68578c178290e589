------------------------------ MODULE MCPayments ------------------------------
(* Small instances of Payments for TLC. *)
EXTENDS Payments, TLC

\* The ids are interchangeable.
Symmetry == Permutations(Handlers) \cup Permutations(Invoices)
=============================================================================
