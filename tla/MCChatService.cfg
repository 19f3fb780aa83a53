SPECIFICATION ChatSpec
CONSTANTS
    c1 = c1
    plain1 = plain1
    stream1 = stream1
    Requests = {plain1, stream1}
    Streams = {stream1}
    Conversations = {c1}
    Of <- SameConversation
    Equipped = {c1}
    MaxToolCalls = 1
    MaxDeltas = 2
INVARIANTS
    NobodyWritesBlind
    UsageAccounted
    SavedCoversShown
    CutIsMarked
PROPERTIES
    EveryThreadIsDialogue
    RequestsEnd
\* Every request may have ended and every conversation be deleted.
CHECK_DEADLOCK FALSE
