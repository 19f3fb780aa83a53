SPECIFICATION ExecSpec
CONSTANTS
    brief = brief
    x1 = x1
    x2 = x2
    s1 = s1
    Executions = {x1, x2, s1}
    Sessions = {s1}
    Agents = {brief}
    AgentOf <- SameAgent
    Days = 1
    MaxEvents = 1
INVARIANT OutputIsKept
\* Executions end.
CHECK_DEADLOCK FALSE
