SPECIFICATION ChatSafeSpec
CONSTANTS
    c1 = c1
    plain1 = plain1
    stream1 = stream1
    Requests = {stream1}
    Streams = {stream1}
    Conversations = {c1}
    Of <- SameConversation
    Equipped = {c1}
    MaxToolCalls = 1
    MaxDeltas = 1
PROPERTY
    ToolFailuresAreData
CHECK_DEADLOCK FALSE
