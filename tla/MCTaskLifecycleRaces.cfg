CONSTANTS
    Tasks = {k1}
    Procs = {p1, p2}
    Branches <- MCBranches
    NoBranch = NoBranch
    Absent = Absent
    Plain = Plain
    Commands = {"create", "startall", "archive", "unarchive", "cleanup"}
    Targets = {}
    Faults = {"bootstrap", "worktree", "storenew", "undorecord", "store", "crash"}
    Outside = {}
    QuietEdits = TRUE
    MaxDepth = 2
    MinLedger = 0
SYMMETRY MCSymmetryTasks
SPECIFICATION Spec
INVARIANTS TicketKept
