------------------------------ MODULE MCDeletion ----------------------------
\* Phases and requirements are interchangeable.
EXTENDS Deletion, TLC

Symmetric == Permutations(Phases) \cup Permutations(Reqs)
=============================================================================
