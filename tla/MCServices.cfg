SPECIFICATION ServicesSpec
CONSTANTS
    \* ModelRouting
    free1 = free1
    paid1 = paid1
    local1 = local1
    claude1 = claude1
    auto = auto
    default = default
    Requests = {q1}
    Models = {free1, paid1, local1, claude1, auto, default}
    Free = {free1}
    Local = {local1}
    Claude = {claude1}
    AUTO_MODEL = auto
    Default = default
    Preferences <- SomePreferences
    Arrays <- SomeArrays
    \* ModelCatalog, that of OpenRouter
    Callers = {c1, c2}
    HasDefault = TRUE
    TTL = 2
    MaxTime = 6
    \* Executors
    brief = brief
    x1 = x1
    x2 = x2
    s1 = s1
    Executions = {x1, x2, s1}
    Sessions = {s1}
    Agents = {brief}
    AgentOf <- SameAgent
    Days = 1
    MaxEvents = 1
    \* Migrations
    migrate = migrate
    make = make
    older = older
    Processes = {migrate, make, older}
    Last = 3
    Has <- Images
    Rerunnable = {2}
CONSTRAINT SettingsSettled
INVARIANTS
    OnlyPaidIfAllowed
    LocalStaysLocal
    AnswersAreRecent
    CompletedIsEarned
    TrailTellsDocuments
    AppliedOnce
    ReturnsTruth
\* Executions end, every upgrade may have returned, the clock has a bound.
CHECK_DEADLOCK FALSE
