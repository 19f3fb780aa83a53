SPECIFICATION RepliesSpec
CONSTANTS
    MaxLength = 5
    MaxEvents = 3
    Budget = 8
    System = 12
    Lengths = {0, 12, 40}
    Extra = {0, 2}
    MaxRows = 4
INVARIANTS
    ShownInOrder
    StreamCallsAsSend
    WindowIsLongest
    OwnQuestionSent
    PassedVerbatim
    PrefixedOnce
    NeverJustStops
    LoggedAsRead
\* Replies end, and a conversation at the bound on its rows stops.
CHECK_DEADLOCK FALSE
