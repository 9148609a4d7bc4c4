CONSTANTS
    Tasks = {k1, k2}
    Procs = {p1}
    Branches <- MCBranches
    NoBranch = NoBranch
    Absent = Absent
    Plain = Plain
    Commands = {"create", "resume", "start", "startall", "closeall", "status", "status+owner", "priority", "initiative", "archive", "unarchive", "cleanup", "delete", "reconcile", "prune"}
    Targets = {"backlog", "done", "archived"}
    Faults = {"add", "worktree", "storenew", "clistore", "move", "moveback"}
    Outside = {"edit", "push"}
    QuietEdits = TRUE
    MaxDepth = 2
    MinLedger = 0
SYMMETRY MCSymmetryTasks
SPECIFICATION Spec
INVARIANTS TicketWhereRecorded WorktreeWhereRecorded WorkIsKept
