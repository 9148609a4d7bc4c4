CONSTANTS
    t1 = t1
    t2 = t2
    p1 = p1
    p2 = p2
    id1 = id1
    id2 = id2
    Threads = {t1, t2}
    Procs = {p1, p2}
    ProcOf <- MCProcOf
    None = None
    Ids = {id1, id2}
    Records = {"bug", "fix"}
    Absent = Absent
    Kinds = {"add", "update", "remove", "get", "load", "save"}
    Migrated <- MCMigrated
SPECIFICATION FairSpec
PROPERTIES ChangesOnlyItsTask RefinesRegistry LockReleased
