----------------------------- MODULE MCMatchmaking -----------------------------
(* Small instances of Matchmaking for TLC. *)
EXTENDS Matchmaking, TLC

CONSTANT Picky   \* the users who demand shared interests, and have none

\* Everyone else accepts everyone; a picky joiner accepts nobody.
Tastes == {p \in Users \X Users : p[1] # p[2] /\ p[1] \notin Picky}

\* Ids that no cfg tells apart are interchangeable (safety runs only).
Symmetry == Permutations(Users \ Picky) \cup Permutations(Handlers) \cup Permutations(Rooms)
=============================================================================
