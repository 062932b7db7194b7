-------------------------- MODULE MCAssistantTurns --------------------------
EXTENDS AssistantTurns

CONSTANTS t1, t2, t3, c1, c2, a, b

\* A character of one byte and one of two.
Widths == a :> 1 @@ b :> 2

OneConversation  == [t \in Turns |-> c1]
TwoConversations == [t \in Turns |-> IF t = t3 THEN c2 ELSE c1]

ShortInputs == [t \in Turns |-> <<a>>]

\* Single characters, a text that one delta cannot hold, and the same text twice.
MixedDeltas == {<<a>>, <<b>>, <<a, b, a>>}
SmallDeltas == {<<a>>, <<b>>}
EqualDeltas == {<<a, b>>}
=============================================================================
