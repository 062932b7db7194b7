---------------------------- MODULE MCRunManager ----------------------------
EXTENDS RunManager, TLC

Symmetry == Permutations(Submitters) \cup Permutations(Cancellers)
=============================================================================
