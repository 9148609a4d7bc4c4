CONSTANTS
    Procs = {x1, x2}
    Orgs = {o1}
    Ids = {i1}
    Links = {l1}
    Watched = {"retention", "launch-readiness"}
    Commands = {"org", "create", "set", "link", "gate", "advance", "metric", "scaffold"}
    Faults = {"index", "log", "crash"}
    MaxCommands = 3
SYMMETRY MCSymmetry
SPECIFICATION Spec
INVARIANTS StageHasItsGate HumansDecide AdvancesAreAudited
