CONSTANTS
    Tasks = {k1, k2}
    Procs = {p1, p2}
    Branches <- MCBranches
    NoBranch = NoBranch
    Absent = Absent
    Plain = Plain
    Commands = {"create", "archive", "delete", "reconcile"}
    Targets = {}
    Faults = {"worktree"}
    Outside = {"delete"}
    QuietEdits = TRUE
    MaxDepth = 2
    MinLedger = 0
SYMMETRY MCSymmetryTasks
SPECIFICATION Spec
INVARIANTS BranchOfItsTask
