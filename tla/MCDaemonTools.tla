---------------------------- MODULE MCDaemonTools ----------------------------
EXTENDS DaemonTools, TLC

Symmetry == Permutations(Ids) \cup Permutations(Digests)
=============================================================================
