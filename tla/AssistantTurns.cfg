\* Two turns of one conversation reach every limit of their content while clients page
\* through them.
CONSTANTS
    t1 = t1
    t2 = t2
    t3 = t3
    c1 = c1
    c2 = c2
    a = a
    b = b
    NoTurn = noturn
    Chars = {a, b}
    Width <- Widths
    Input <- ShortInputs
    Conversations = {c1}
    Turns = {t1, t2}
    ConversationOf <- OneConversation
    Deltas <- MixedDeltas
    MaxEmissions = 2
    MaxSequence = 6
    MaxDelta = 2
    MaxPreview = 3
    MaxText = 5
    ContextBytes = 4
    Reading = {t1, t2}
    MaxRestarts = 1
SPECIFICATION Spec
CHECK_DEADLOCK FALSE
INVARIANTS
    SettledTurns
    PreviewFaithful
    Transcript
    ContextReadable
    ReaderSeesAll
PROPERTIES
    SucceededWhole
