----------------------- MODULE MCConversationMirror -----------------------
EXTENDS ConversationMirror, TLC

CONSTANTS c1, c2, f1

\* Two directories whose keys collide (a/b and a_b).
Shared == c1 :> f1 @@ c2 :> f1

Symmetry == Permutations(Procs) \cup Permutations(Ids)
=============================================================================
