CONSTANTS
    Procs = {x1}
    Nodes = {n1, n2}
    Absent = Absent
    Contents = {c1, c2}
    Cursors = {u1}
    NoCursor = NoCursor
    Commands = {"propose", "accept", "reject", "land"}
    Faults = {"queue", "ledger", "nodes", "manifest", "torn", "crash"}
    MaxSubmitted = 3
    MaxBatch = 2
SYMMETRY MCSymmetry
SPECIFICATION Spec
INVARIANTS ProposalsConserved Provenance LandedOnce
PROPERTIES EdgesStay
