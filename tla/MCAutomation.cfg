CONSTANTS
    Daemons = {d1, d2}
    Clis = {c1}
    Jobs = {"dispatch", "rotate", "rule"}
    Commands = {"start", "stop", "restart", "status"}
    RuleSet <- MCRules
    RuleFaults = {"graph", "action", "output"}
    Payload <- MCPayload
    Type <- MCType
    Faults = {"crash", "cursor"}
    FirstCursor = 1
    MaxEvents = 2
    RotateAt = 1
    MaxTicks = 2
    MaxCommands = 2
SYMMETRY MCSymmetry
SPECIFICATION Spec
CHECK_DEADLOCK FALSE
INVARIANTS DispatchedOnce OneDaemon OutputsWhole ReportsTrue
