CONSTANTS
    Procs = {p1}
    Repos = {"github", "gitlab", "none"}
    Statuses = {"backlog", "in_progress", "done", "archived"}
    Runs <- MCRuns
    Seeds = {TRUE, FALSE}
    Faults = {"body", "get", "create", "url", "labels", "edit", "state", "pull", "store", "crash"}
    MaxEdits = 2
    MaxFaults = 1
SPECIFICATION FairSpec
CHECK_DEADLOCK FALSE
INVARIANTS LinkedOnce BaselineHonest StatusRoundTrips
PROPERTIES Converges
