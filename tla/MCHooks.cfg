CONSTANTS
    Agents = {a1, a2}
    Routes = {"direct"}
    Files = {"shot", "guarded", "go.sum"}
    ReadPatterns = {"shot"}
    WritePaths = {"guarded"}
    SpecPaths = {"guarded"}
    Vendored = {"go.sum"}
    Faults = {"track", "context", "crash"}
    MaxEvents = 3
    MaxSteers = 2
    MemoryProcs = {m1, m2}
    Embedders <- MCEmbedders
    MemoryTasks = {"t1"}
    TicketFiles = {"notes.md", "knowledge/decisions.yaml"}
    GraphEdges = {"e1", "e2"}
    MaxTexts = 2
    MaxWants = 2
    MaxMemoryOps = 2
    MaxMemoryFailures = 1
    MaxRewrites = 1
SYMMETRY MCSymmetry
SPECIFICATION MCSpec
CHECK_DEADLOCK FALSE
INVARIANTS KillSwitchHalts GatesHold SteeredOnce ChangesAreReported
    SearchesAreRight IndexIsSound
