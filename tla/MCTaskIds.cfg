\* What hands out numbers, one part at a time.
CONSTANTS
    Callers = {c1, c2, c3}
    None = None
    TornWrites = FALSE
    MaxId = 4
    Captures = {"p1", "p2"}
    GivenIds = {1}
    MaxCaptures = 3
    CaptureDeaths = 1
    Registries = {"adr", "debt", "crm", "rules"}
    Clerks = {"p1", "p2"}
    RuleNames = {1, 2}
    MaxCommands = 4
    MaxClerkDeaths = 1
SYMMETRY MCSymmetry
SPECIFICATION NumbersSpec
INVARIANTS UniqueIds LaterIsLarger SessionsAreKept RegistryIsHonest
CHECK_DEADLOCK FALSE
