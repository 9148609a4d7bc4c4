------------------------- MODULE TaskLifecycleProofs -------------------------
(***************************************************************************)
(* Proofs about TaskLifecycle, for any number of tasks and processes, any  *)
(* commands, faults and user actions: the types, that a worktree is on the *)
(* branch its task's record names, that unsaved work is not removed, that  *)
(* a task has one ticket directory, and, for one process, that between its *)
(* commands directories and worktrees are as the records say.              *)
(***************************************************************************)
EXTENDS TaskLifecycle, FiniteSetTheorems, TLAPS

(* The records that commands hold name the branch of their worktree.       *)
Good == {rec \in Records : rec.worktree => rec.branch \in Branches}

Jobs == [cmd : {"none", "create", "resume", "start", "priority", "initiative", "unarchive",
                "delete", "status", "status+owner", "archive", "cleanup"} \cup Lists,
         task : Tasks \cup {Absent},
         opt : {"-", "repo", "norepo", "force", "keep", "prune"} \cup Targets]

(* The steps that each command takes.                                      *)
Takes(cmd, step) ==
    \/ cmd = "none" /\ step = "idle"
    \/ cmd = "create" /\ step \in {"add", "bootstrap", "branch", "worktree", "storenew",
                                  "logcreated", "undotree", "undoticket", "undorecord"}
    \/ cmd = "reconcile" /\ step \in {"list", "next", "restore"}
    \/ cmd = "prune" /\ step \in {"list", "orphans", "next", "check", "remove"}
    \/ cmd \in {"startall", "closeall"} /\ step \in {"list", "next", "get", "store"}
    \/ cmd \in {"resume", "initiative"} /\ step \in {"get", "store", "render"}
    \/ cmd = "status+owner" /\ step \in {"cliget", "get", "store", "clistore"}
    \/ cmd = "archive" /\ step \in {"get", "handoff", "move", "check", "remove", "logremoved",
                                   "prunebranch", "store"}
    \/ cmd = "unarchive" /\ step \in {"get", "moveback", "store"}
    \/ cmd = "cleanup" /\ step \in {"get", "check", "remove", "store", "logremoved"}
    \/ cmd = "delete" /\ step \in {"get", "check", "remove", "logremoved", "rmtickets", "rmrecord"}
    \/ cmd = "start" /\ step \in {"start", "get", "store"}
    \/ cmd \in {"status", "priority"} /\ step \in {"get", "store"}

Untargeted == {"idle", "list", "orphans", "next"}

CopySteps == {"bootstrap", "branch", "worktree", "storenew", "logcreated", "undotree",
              "undoticket", "undorecord", "store", "clistore", "render", "handoff", "move",
              "check", "remove", "logremoved", "prunebranch", "moveback", "rmtickets",
              "rmrecord", "restore"}

(* What a process at that step, with that copy, is doing.                  *)
Fits(p, step, rec) ==
    /\ Takes(Cmd(p), step)
    /\ Cmd(p) \in Commands \cup {"none"}
    /\ step \notin Untargeted => Task(p) \in Tasks
    /\ step \in CopySteps /\ Cmd(p) # "prune" => rec # Absent
    /\ step \in Untargeted => rec = Absent
    /\ step = "worktree" => rec.branch \in Branches
    /\ step = "restore" => rec.worktree
    /\ Cmd(p) = "status+owner" /\ step # "cliget" => cli[p] # Absent
    /\ cli[p] # Absent => Cmd(p) = "status+owner"
    /\ todo[p] # {} => Cmd(p) \in Lists
    /\ Cmd(p) = "reconcile" =>
          \A t \in todo[p] : snap[p][t] # Absent /\ snap[p][t].worktree
    /\ Cmd(p) \in {"status", "status+owner"} => job[p].opt \in Targets

OwnShape ==
    /\ pc \in [Procs -> Steps]
    /\ job \in [Procs -> Jobs]
    /\ copy \in [Procs -> Good \cup {Absent}]
    /\ cli \in [Procs -> Good \cup {Absent}]
    /\ todo \in [Procs -> SUBSET Tasks]
    /\ snap \in [Procs -> [Tasks -> Good \cup {Absent}]]
    /\ \A p \in Procs : Fits(p, pc[p], copy[p])

DataShape ==
    /\ backlog \in [Tasks -> Good \cup {Absent}]
    /\ ledger \in [Tasks -> Int]
    /\ used \subseteq Tasks

DiskShape ==
    /\ tickets \in [Tasks -> SUBSET Places]
    /\ discarded \subseteq Tasks
    /\ GitTypeOK
    /\ \A t \in Tasks : tree[t] = "present" => registered[t] \in Branches

Shape == OwnShape /\ DataShape /\ DiskShape

-----------------------------------------------------------------------------

LEMMA TakeFits ==
    ASSUME OwnShape, NEW p \in Procs, NEW step \in Steps, NEW rec \in Good \cup {Absent},
           Take(p, step, rec), Fits(p, step, rec)
    PROVE  OwnShape'
  <1>1. \A q \in Procs : Fits(q, pc'[q], copy'[q])
    <2>1. ASSUME NEW q \in Procs, q # p PROVE pc'[q] = pc[q] /\ copy'[q] = copy[q]
      BY <2>1 DEF Take, OwnShape
    <2>2. pc'[p] = step /\ copy'[p] = rec
      BY DEF Take, OwnShape
    <2>3. QED
      BY <2>1, <2>2 DEF OwnShape
  <1>2. \A q \in Procs : Fits(q, pc[q], copy[q])'
    BY <1>1 DEF Take, Fits, Cmd, Task
  <1>3. QED
    BY <1>2 DEF OwnShape, Take

LEMMA StopFits ==
    ASSUME OwnShape, NEW p \in Procs, Stop(p)
    PROVE  OwnShape'
  <1>1. ASSUME NEW q \in Procs, q # p
        PROVE  /\ pc'[q] = pc[q] /\ copy'[q] = copy[q] /\ job'[q] = job[q]
               /\ cli'[q] = cli[q] /\ todo'[q] = todo[q] /\ snap'[q] = snap[q]
    BY <1>1 DEF Stop, OwnShape
  <1>2. ASSUME NEW q \in Procs, q # p PROVE Fits(q, pc[q], copy[q])'
    <2>1. Fits(q, pc[q], copy[q])
      BY DEF OwnShape
    <2>2. QED
      BY <1>1, <1>2, <2>1 DEF Fits, Cmd, Task
  <1>3. Fits(p, pc[p], copy[p])'
    <2>1. /\ pc'[p] = "idle" /\ copy'[p] = Absent /\ job'[p] = NoJob
          /\ cli'[p] = Absent /\ todo'[p] = {}
      BY DEF Stop, OwnShape
    <2>2. QED
      BY <2>1 DEF Fits, Cmd, Task, NoJob, Takes, Untargeted, CopySteps
  <1>4. /\ pc' \in [Procs -> Steps] /\ job' \in [Procs -> Jobs]
        /\ copy' \in [Procs -> Good \cup {Absent}] /\ cli' \in [Procs -> Good \cup {Absent}]
        /\ todo' \in [Procs -> SUBSET Tasks]
    BY DEF Stop, OwnShape, NoJob, Jobs, Steps
  <1>5. snap' \in [Procs -> [Tasks -> Good \cup {Absent}]]
    BY DEF Stop, OwnShape, Nothing
  <1>6. QED
    BY <1>2, <1>3, <1>4, <1>5 DEF OwnShape

LEMMA FinishFits ==
    ASSUME OwnShape, NEW p \in Procs, Finish(p)
    PROVE  OwnShape'
  <1>1. CASE todo[p] = {}
    BY <1>1, StopFits DEF Finish
  <1>2. CASE todo[p] # {}
    <2>1. Cmd(p) \in Lists
      BY <1>2 DEF OwnShape, Fits
    <2>2. Fits(p, pc[p], copy[p])
      BY DEF OwnShape
    <2>3. todo[p] \subseteq Tasks
      BY DEF OwnShape
    <2>4. QED
      BY <1>2, <2>1, <2>2, TakeFits DEF Finish, Fits, Takes, Lists, Steps, Untargeted, CopySteps
  <1>3. QED
    BY <1>1, <1>2

-----------------------------------------------------------------------------

(* What commands do to a record they hold.                                 *)
LEMMA GoodEdits ==
    ASSUME NEW rec \in Good
    PROVE  /\ rec # Absent
           /\ \A s \in {"backlog", "active", "done", "archived"} :
                 [rec EXCEPT !.status = s] \in Good
           /\ \A place \in Places : [rec EXCEPT !.place = place] \in Good
           /\ \A s \in {"backlog", "active", "done", "archived"}, place \in Places :
                 [rec EXCEPT !.status = s, !.place = place] \in Good
           /\ \A b \in Branches : /\ [rec EXCEPT !.branch = b] \in Good
                                 /\ [rec EXCEPT !.branch = b].branch = b
           /\ rec.branch \in Branches => [rec EXCEPT !.worktree = TRUE] \in Good
           /\ [rec EXCEPT !.worktree = FALSE] \in Good
  BY AbsentAssumption DEF Good, Records

LEMMA NewIsGood == NewRecord \in Good
  BY DEF Good, Records, NewRecord

LEMMA PlacesFromRecords ==
    ASSUME NEW rec \in Good
    PROVE  /\ Where(rec) \in Places
           /\ New \in Places
           /\ Depth(Where(rec)) < MaxDepth => Deeper(Where(rec)) \in Places
           /\ Shallower(Where(rec)) \in Places
  <1>1. MaxDepth \in Nat
    BY TaskLifecycleAssumption
  <1>2. Flat \in Places /\ New \in Places
    BY <1>1 DEF Flat, New, Places
  <1>3. Where(rec) \in Places
    BY <1>2 DEF Where, Good, Records
  <1>4. PICK layout \in {"nested", "flat"}, n \in 0 .. MaxDepth : Where(rec) = <<layout, n>>
    BY <1>3 DEF Places
  <1>5. n + 1 <= MaxDepth => <<layout, n + 1>> \in Places
    BY <1>1 DEF Places
  <1>6. n # 0 => <<layout, n - 1>> \in Places
    BY <1>1 DEF Places
  <1>7. QED
    BY <1>1, <1>2, <1>3, <1>4, <1>5, <1>6 DEF Depth, Deeper, Shallower

(* Where a command goes after it loaded its task, and with what status.    *)
LEMMA AfterGet ==
    ASSUME NEW cmd, NEW rec \in Good, Takes(cmd, "get")
    PROVE  /\ StepAfterGet(cmd, rec) \in {"handoff", "moveback", "check", "rmtickets", "render",
                                          "store"}
           /\ Takes(cmd, StepAfterGet(cmd, rec))
  <1>1. CASE cmd \in {"archive", "unarchive", "cleanup", "delete"}
    BY <1>1 DEF StepAfterGet, Takes
  <1>2. CASE cmd \notin {"archive", "unarchive", "cleanup", "delete"}
    BY <1>2 DEF StepAfterGet, Takes
  <1>3. QED
    BY <1>1, <1>2

LEMMA StatusIsKnown ==
    ASSUME NEW j \in Jobs, NEW rec \in Good,
           j.cmd \in {"status", "status+owner"} => j.opt \in Targets
    PROVE  StatusAfter(j, rec) \in {"backlog", "active", "done", "archived"}
  <1>1. rec.status \in {"backlog", "active", "done", "archived"}
    BY DEF Good, Records
  <1>2. QED
    BY <1>1, TaskLifecycleAssumption DEF StatusAfter

LEMMA FirstStepFits ==
    ASSUME used \subseteq Tasks, NEW j \in Requests
    PROVE  /\ j \in Jobs
           /\ FirstStep(j.cmd) \in {"add", "start", "list", "cliget", "get"}
           /\ Takes(j.cmd, FirstStep(j.cmd))
           /\ j.cmd \in Commands
           /\ FirstStep(j.cmd) # "list" => j.task \in Tasks
           /\ j.cmd \in {"status", "status+owner"} => j.opt \in Targets
           /\ j.cmd = "create" => j.task \in Tasks \ used
  <1>1. /\ j \in Jobs /\ j.cmd \in Commands
        /\ j.cmd \in Lists \/ j.task \in Tasks
        /\ j.cmd \in {"status", "status+owner"} => j.opt \in Targets
        /\ j.cmd = "create" => j.task \in Tasks \ used
    BY DEF Requests, Jobs, Lists
  <1>2. j.cmd # "none"
    BY DEF Requests, Lists
  <1>3. QED
    BY <1>1, <1>2 DEF FirstStep, Takes, Jobs, Lists

-----------------------------------------------------------------------------
(* Each action keeps the shape of the processes and of what they share.    *)

LEMMA CreateShape ==
    ASSUME Shape, NEW p \in Procs,
           \/ AddRecord(p) \/ Bootstrap(p) \/ PickBranch(p) \/ MakeWorktree(p) \/ StoreNew(p)
           \/ LogCreated(p) \/ UndoTree(p) \/ UndoTicket(p) \/ UndoRecord(p)
    PROVE  Shape'
  <1> USE DEF Shape, data, disk, gitVars
  <1>1. Fits(p, pc[p], copy[p]) /\ copy[p] \in Good \cup {Absent} /\ New \in Places
    BY NewIsGood, PlacesFromRecords DEF OwnShape
  <1>2. CASE AddRecord(p)
    <2>1. Task(p) \in Tasks
      BY <1>1, <1>2 DEF AddRecord, At, Fits, Untargeted
    <2>2. DataShape' /\ DiskShape'
      BY <1>2, <2>1, NewIsGood DEF AddRecord, DataShape, DiskShape, GitTypeOK
    <2>3. OwnShape'
      <3>1. CASE Finish(p)
        BY <3>1, FinishFits
      <3>2. CASE Take(p, "bootstrap", NewRecord)
        <4>1. Fits(p, "bootstrap", NewRecord)
          BY <1>1, <1>2, NewIsGood, GoodEdits
            DEF AddRecord, At, Fits, Takes, Untargeted, CopySteps, Lists
        <4>2. QED
          BY <3>2, <4>1, NewIsGood, TakeFits DEF Steps
      <3>3. QED
        BY <1>2, <3>1, <3>2 DEF AddRecord
    <2>4. QED
      BY <2>2, <2>3
  <1>3. CASE Bootstrap(p)
    <2>1. Task(p) \in Tasks /\ copy[p] \in Good
      BY <1>1, <1>3 DEF Bootstrap, At, Fits, Untargeted, CopySteps, Takes
    <2>2. DataShape' /\ DiskShape'
      BY <1>1, <1>3, <2>1 DEF Bootstrap, DataShape, DiskShape, GitTypeOK
    <2>3. OwnShape'
      <3>1. PICK step \in {"branch", "storenew", "undorecord"}, rec \in Good : Take(p, step, rec)
        BY <1>1, <1>3, <2>1, GoodEdits DEF Bootstrap, Goto
      <3>2. Fits(p, step, rec)
        BY <1>1, <1>3, <3>1, GoodEdits
          DEF Bootstrap, At, Fits, Takes, Untargeted, CopySteps, Lists
      <3>3. QED
        BY <3>1, <3>2, TakeFits DEF Steps
    <2>4. QED
      BY <2>2, <2>3
  <1>4. CASE PickBranch(p)
    <2>1. Task(p) \in Tasks /\ copy[p] \in Good
      BY <1>1, <1>4 DEF PickBranch, At, Fits, Untargeted, CopySteps, Takes
    <2>2. DataShape' /\ DiskShape'
      BY <1>4 DEF PickBranch, DataShape, DiskShape, GitTypeOK
    <2>3. OwnShape'
      <3>1. CASE Goto(p, "undoticket")
        <4>1. Fits(p, "undoticket", copy[p])
          BY <1>1, <1>4, <2>1, GoodEdits
            DEF PickBranch, At, Fits, Takes, Untargeted, CopySteps, Lists
        <4>2. QED
          BY <2>1, <3>1, <4>1, TakeFits DEF Steps, Goto
      <3>2. CASE \E b \in Branches : Take(p, "worktree", [copy[p] EXCEPT !.branch = b])
        <4>1. PICK b \in Branches : Take(p, "worktree", [copy[p] EXCEPT !.branch = b])
          BY <3>2
        <4> DEFINE rec == [copy[p] EXCEPT !.branch = b]
        <4>2. rec \in Good /\ rec.branch = b /\ rec # Absent
          BY <2>1, GoodEdits
        <4> HIDE DEF rec
        <4>3. Fits(p, "worktree", rec)
          BY <1>1, <1>4, <4>2 DEF PickBranch, At, Fits, Takes, Untargeted, CopySteps, Lists
        <4>4. QED
          BY <4>1, <4>2, <4>3, TakeFits DEF Steps, rec
      <3>3. QED
        BY <1>4, <2>1, <3>1, <3>2, TaskLifecycleAssumption DEF PickBranch
    <2>4. QED
      BY <2>2, <2>3
  <1>5. CASE MakeWorktree(p)
    <2>1. Task(p) \in Tasks /\ copy[p] \in Good /\ copy[p].branch \in Branches
      BY <1>1, <1>5 DEF MakeWorktree, At, Fits, Untargeted, CopySteps, Takes
    <2>2. DataShape' /\ DiskShape'
      BY <1>5, <2>1 DEF MakeWorktree, DataShape, DiskShape, GitTypeOK, AddTree
    <2>3. PICK step \in {"storenew", "undoticket"}, rec \in Good : Take(p, step, rec)
      BY <1>5, <2>1, GoodEdits DEF MakeWorktree, Goto
    <2>4. Fits(p, step, rec)
      BY <1>1, <1>5, <2>1, <2>3, GoodEdits
        DEF MakeWorktree, At, Fits, Takes, Untargeted, CopySteps, Lists
    <2>5. QED
      BY <2>2, <2>3, <2>4, TakeFits DEF Steps
  <1>6. CASE StoreNew(p)
    <2>1. Task(p) \in Tasks /\ copy[p] \in Good
      BY <1>1, <1>6 DEF StoreNew, At, Fits, Untargeted, CopySteps, Takes
    <2>2. DataShape' /\ DiskShape'
      BY <1>6, <2>1 DEF StoreNew, DataShape, DiskShape, GitTypeOK, Update
    <2>3. PICK step \in {"logcreated", "undotree"} : Take(p, step, copy[p])
      BY <1>6 DEF StoreNew, Goto
    <2>4. Fits(p, step, copy[p])
      BY <1>1, <1>6, <2>1, <2>3, GoodEdits
        DEF StoreNew, At, Fits, Takes, Untargeted, CopySteps, Lists
    <2>5. QED
      BY <2>1, <2>2, <2>3, <2>4, TakeFits DEF Steps
  <1>7. CASE LogCreated(p)
    <2>1. Task(p) \in Tasks /\ ledger[Task(p)] \in Int
      BY <1>1, <1>7 DEF LogCreated, At, Fits, Untargeted, DataShape
    <2>2. ledger' \in [Tasks -> Int]
      <3>1. CASE copy[p].worktree
        <4>1. ledger' = [ledger EXCEPT ![Task(p)] = ledger[Task(p)] + 1]
          BY <1>7, <3>1 DEF LogCreated
        <4>2. QED
          BY <2>1, <4>1 DEF DataShape
      <3>2. CASE ~copy[p].worktree
        <4>1. ledger' = [ledger EXCEPT ![Task(p)] = ledger[Task(p)]]
          BY <1>7, <3>2 DEF LogCreated
        <4>2. QED
          BY <2>1, <4>1 DEF DataShape
      <3>3. QED
        BY <3>1, <3>2
    <2>3. DataShape' /\ DiskShape'
      BY <1>7, <2>2 DEF LogCreated, DataShape, DiskShape, GitTypeOK
    <2>4. QED
      BY <1>7, <2>3, FinishFits DEF LogCreated
  <1>8. CASE UndoTree(p)
    <2>1. Task(p) \in Tasks /\ copy[p] \in Good
      BY <1>1, <1>8 DEF UndoTree, At, Fits, Untargeted, CopySteps, Takes
    <2>2. DataShape' /\ DiskShape'
      BY <1>8, <2>1 DEF UndoTree, DataShape, DiskShape, GitTypeOK, RemoveTree
    <2>3. Fits(p, "undoticket", copy[p])
      BY <1>1, <1>8, <2>1, GoodEdits DEF UndoTree, At, Fits, Takes, Untargeted, CopySteps, Lists
    <2>4. QED
      BY <1>8, <2>1, <2>2, <2>3, TakeFits DEF UndoTree, Goto, Steps
  <1>9. CASE UndoTicket(p)
    <2>1. Task(p) \in Tasks /\ copy[p] \in Good
      BY <1>1, <1>9 DEF UndoTicket, At, Fits, Untargeted, CopySteps, Takes
    <2>2. DataShape' /\ DiskShape'
      BY <1>9, <2>1 DEF UndoTicket, DataShape, DiskShape, GitTypeOK
    <2>3. Fits(p, "undorecord", copy[p])
      BY <1>1, <1>9, <2>1, GoodEdits DEF UndoTicket, At, Fits, Takes, Untargeted, CopySteps, Lists
    <2>4. QED
      BY <1>9, <2>1, <2>2, <2>3, TakeFits DEF UndoTicket, Goto, Steps
  <1>10. CASE UndoRecord(p)
    <2>1. DataShape' /\ DiskShape'
      BY <1>10 DEF UndoRecord, DataShape, DiskShape, GitTypeOK
    <2>2. QED
      BY <1>10, <2>1, FinishFits DEF UndoRecord
  <1>11. QED
    BY <1>2, <1>3, <1>4, <1>5, <1>6, <1>7, <1>8, <1>9, <1>10

LEMMA LoadShape ==
    ASSUME Shape, NEW p \in Procs,
           \/ Get(p) \/ Start(p) \/ Store(p) \/ Render(p) \/ CliGet(p) \/ CliStore(p)
    PROVE  Shape'
  <1> USE DEF Shape, data, disk, gitVars
  <1>1. Fits(p, pc[p], copy[p]) /\ copy[p] \in Good \cup {Absent} /\ job[p] \in Jobs
    BY DEF OwnShape
  <1>2. CASE Get(p)
    <2>1. Task(p) \in Tasks
      BY <1>1, <1>2 DEF Get, At, Fits, Untargeted
    <2>2. DataShape' /\ DiskShape'
      BY <1>2 DEF Get, DataShape, DiskShape, GitTypeOK
    <2>3. CASE Finish(p)
      BY <2>2, <2>3, FinishFits
    <2>4. CASE ~Finish(p)
      <3> DEFINE old == backlog[Task(p)]
      <3> DEFINE rec == [old EXCEPT !.status = StatusAfter(job[p], old)]
      <3> DEFINE step == StepAfterGet(Cmd(p), old)
      <3>1. old \in Good
        BY <1>2, <2>1, <2>4 DEF Get, DataShape
      <3>2. rec \in Good
        BY <1>1, <3>1, StatusIsKnown, GoodEdits DEF Fits, Cmd
      <3>3. Take(p, step, rec)
        BY <1>2, <2>4 DEF Get
      <3>4. Takes(Cmd(p), "get")
        BY <1>1, <1>2 DEF Get, At, Fits
      <3>5. step \in {"handoff", "moveback", "check", "rmtickets", "render", "store"} /\ Takes(Cmd(p), step)
        BY <3>1, <3>4, AfterGet
      <3> HIDE DEF rec, step, old
      <3>6. Fits(p, step, rec)
        BY <1>1, <1>2, <2>1, <3>2, <3>5, GoodEdits DEF Get, At, Fits, Untargeted
      <3>7. QED
        BY <2>2, <3>2, <3>3, <3>5, <3>6, TakeFits DEF Steps
    <2>5. QED
      BY <2>3, <2>4
  <1>3. CASE Start(p)
    <2>1. DataShape' /\ DiskShape'
      BY <1>3 DEF Start, DataShape, DiskShape, GitTypeOK
    <2>2. CASE Finish(p)
      BY <2>1, <2>2, FinishFits
    <2>3. CASE Goto(p, "get")
      <3>1. Fits(p, "get", copy[p])
        BY <1>1, <1>3 DEF Start, At, Fits, Takes, Untargeted, CopySteps
      <3>2. QED
        BY <1>1, <2>1, <2>3, <3>1, TakeFits DEF Goto, Steps
    <2>4. QED
      BY <1>3, <2>2, <2>3 DEF Start
  <1>4. CASE Store(p)
    <2>1. Task(p) \in Tasks /\ copy[p] \in Good
      BY <1>1, <1>4 DEF Store, At, Fits, Untargeted, CopySteps, Takes
    <2>2. DataShape' /\ DiskShape'
      BY <1>4, <2>1 DEF Store, DataShape, DiskShape, GitTypeOK, Update
    <2>3. CASE Finish(p)
      BY <2>2, <2>3, FinishFits
    <2>4. CASE StepAfterStore(p) # "done" /\ Goto(p, StepAfterStore(p))
      <3> DEFINE step == StepAfterStore(p)
      <3>1. step \in {"logremoved", "clistore", "render"} /\ Takes(Cmd(p), step)
        <4>1. CASE Cmd(p) = "cleanup"
          BY <4>1 DEF StepAfterStore, Takes
        <4>2. CASE Cmd(p) = "status+owner"
          BY <4>2 DEF StepAfterStore, Takes
        <4>3. CASE Cmd(p) \in {"resume", "initiative"}
          BY <2>4, <4>3 DEF StepAfterStore, Takes
        <4>4. CASE Cmd(p) \notin {"cleanup", "status+owner", "resume", "initiative"}
          BY <2>4, <4>4 DEF StepAfterStore
        <4>5. QED
          BY <4>1, <4>2, <4>3, <4>4
      <3> HIDE DEF step
      <3>2. Fits(p, step, copy[p])
        BY <1>1, <1>4, <2>1, <3>1, GoodEdits DEF Store, At, Fits, Untargeted, CopySteps
      <3>3. QED
        BY <2>1, <2>2, <2>4, <3>1, <3>2, TakeFits DEF Goto, Steps, step
    <2>5. QED
      BY <1>4, <2>3, <2>4 DEF Store
  <1>5. CASE Render(p)
    <2>1. DataShape' /\ DiskShape'
      BY <1>5 DEF Render, DataShape, DiskShape, GitTypeOK, WriteBelow
    <2>2. QED
      BY <1>5, <2>1, FinishFits DEF Render
  <1>6. CASE CliGet(p)
    <2>1. Task(p) \in Tasks
      BY <1>1, <1>6 DEF CliGet, At, Fits, Untargeted
    <2>2. DataShape' /\ DiskShape'
      BY <1>6 DEF CliGet, DataShape, DiskShape, GitTypeOK
    <2>3. CASE Stop(p)
      BY <2>2, <2>3, StopFits
    <2>4. CASE ~Stop(p)
      <3>1. /\ pc' = [pc EXCEPT ![p] = "get"]
            /\ cli' = [cli EXCEPT ![p] = backlog[Task(p)]]
            /\ UNCHANGED <<job, copy, todo, snap>>
            /\ backlog[Task(p)] \in Good
        BY <1>6, <2>1, <2>4 DEF CliGet, DataShape
      <3>2. ASSUME NEW q \in Procs PROVE Fits(q, pc[q], copy[q])'
        <4>1. Fits(q, pc[q], copy[q])
          BY DEF OwnShape
        <4>2. CASE q # p
          BY <3>1, <4>1, <4>2 DEF Fits, Cmd, Task, OwnShape
        <4>3. CASE q = p
          <5>1. pc'[p] = "get" /\ cli'[p] = backlog[Task(p)] /\ pc[p] = "cliget"
            BY <1>6, <3>1 DEF CliGet, At, OwnShape
          <5>2. Cmd(p) = "status+owner"
            BY <1>1, <5>1 DEF Fits, Takes
          <5>3. cli'[p] # Absent
            BY <3>1, <5>1, GoodEdits
          <5>4. QED
            BY <2>1, <3>1, <4>1, <4>3, <5>1, <5>2, <5>3
              DEF Fits, Cmd, Task, Takes, Untargeted, CopySteps
        <4>4. QED
          BY <4>2, <4>3
      <3>3. QED
        BY <2>2, <3>1, <3>2 DEF OwnShape, Steps
    <2>5. QED
      BY <2>3, <2>4
  <1>7. CASE CliStore(p)
    <2>1. Task(p) \in Tasks /\ cli[p] \in Good
      BY <1>1, <1>7 DEF CliStore, At, Fits, Untargeted, OwnShape, Takes
    <2>2. DataShape' /\ DiskShape'
      BY <1>7, <2>1 DEF CliStore, DataShape, DiskShape, GitTypeOK, Update
    <2>3. QED
      BY <1>7, <2>2, FinishFits DEF CliStore
  <1>8. QED
    BY <1>2, <1>3, <1>4, <1>5, <1>6, <1>7

LEMMA ArchiveShape ==
    ASSUME Shape, NEW p \in Procs,
           WriteHandoff(p) \/ MoveToArchive(p) \/ MoveBack(p)
    PROVE  Shape'
  <1> USE DEF Shape, data, disk, gitVars
  <1>1. Fits(p, pc[p], copy[p]) /\ copy[p] \in Good \cup {Absent} /\ job[p] \in Jobs
    BY DEF OwnShape
  <1>2. CASE WriteHandoff(p)
    <2>1. Task(p) \in Tasks /\ copy[p] \in Good
      BY <1>1, <1>2 DEF WriteHandoff, At, Fits, Untargeted, CopySteps, Takes
    <2>2. DataShape' /\ DiskShape'
      BY <1>2 DEF WriteHandoff, DataShape, DiskShape, GitTypeOK
    <2>3. CASE Finish(p)
      BY <2>2, <2>3, FinishFits
    <2>4. CASE Goto(p, "move")
      <3>1. Fits(p, "move", copy[p])
        BY <1>1, <1>2, <2>1, GoodEdits DEF WriteHandoff, At, Fits, Takes, Untargeted, CopySteps
      <3>2. QED
        BY <2>1, <2>2, <2>4, <3>1, TakeFits DEF Goto, Steps
    <2>5. QED
      BY <1>2, <2>3, <2>4 DEF WriteHandoff
  <1>3. CASE MoveToArchive(p)
    <2> DEFINE to == Deeper(Where(copy[p]))
    <2>1. Task(p) \in Tasks /\ copy[p] \in Good
      BY <1>1, <1>3 DEF MoveToArchive, At, Fits, Untargeted, CopySteps, Takes
    <2>2. to \in Places
      BY <1>3, <2>1, PlacesFromRecords DEF MoveToArchive
    <2>3. DataShape' /\ DiskShape'
      BY <1>3, <2>1, <2>2 DEF MoveToArchive, MoveTicket, DataShape, DiskShape, GitTypeOK
    <2>4. CASE Finish(p)
      BY <2>3, <2>4, FinishFits
    <2>5. CASE ~Finish(p)
      <3>1. PICK step \in {"check", "store"} :
               Take(p, step, [copy[p] EXCEPT !.status = "archived", !.place = to])
        BY <1>3, <2>5 DEF MoveToArchive
      <3> DEFINE rec == [copy[p] EXCEPT !.status = "archived", !.place = to]
      <3>2. rec \in Good
        BY <2>1, <2>2, GoodEdits
      <3> HIDE DEF rec
      <3>3. Fits(p, step, rec)
        BY <1>1, <1>3, <2>1, <3>1, <3>2, GoodEdits
          DEF MoveToArchive, At, Fits, Takes, Untargeted, CopySteps
      <3>4. QED
        BY <2>3, <3>1, <3>2, <3>3, TakeFits DEF Steps, rec
    <2>6. QED
      BY <2>4, <2>5
  <1>4. CASE MoveBack(p)
    <2> DEFINE to == Shallower(Where(copy[p]))
    <2>1. Task(p) \in Tasks /\ copy[p] \in Good
      BY <1>1, <1>4 DEF MoveBack, At, Fits, Untargeted, CopySteps, Takes
    <2>2. to \in Places
      BY <2>1, PlacesFromRecords
    <2>3. DataShape' /\ DiskShape'
      BY <1>4, <2>1, <2>2 DEF MoveBack, MoveTicket, DataShape, DiskShape, GitTypeOK
    <2>4. CASE Finish(p)
      BY <2>3, <2>4, FinishFits
    <2>5. CASE ~Finish(p)
      <3> DEFINE rec == [copy[p] EXCEPT !.status = "backlog", !.place = to]
      <3>1. Take(p, "store", rec)
        BY <1>4, <2>5 DEF MoveBack
      <3>2. rec \in Good
        BY <2>1, <2>2, GoodEdits
      <3> HIDE DEF rec
      <3>3. Fits(p, "store", rec)
        BY <1>1, <1>4, <2>1, <3>1, <3>2, GoodEdits
          DEF MoveBack, At, Fits, Takes, Untargeted, CopySteps
      <3>4. QED
        BY <2>3, <3>1, <3>2, <3>3, TakeFits DEF Steps
    <2>6. QED
      BY <2>4, <2>5
  <1>5. QED
    BY <1>2, <1>3, <1>4

LEMMA KeptFits ==
    ASSUME OwnShape, NEW p \in Procs, pc[p] \in {"check", "remove"}, Kept(p)
    PROVE  OwnShape'
  <1>1. Fits(p, pc[p], copy[p]) /\ copy[p] \in Good \cup {Absent}
    BY DEF OwnShape
  <1>2. CASE Cmd(p) = "archive"
    <2>1. Goto(p, "store") /\ Fits(p, "store", copy[p])
      BY <1>1, <1>2 DEF Kept, Fits, Takes, Untargeted, CopySteps
    <2>2. QED
      BY <1>1, <2>1, TakeFits DEF Goto, Steps
  <1>3. CASE Cmd(p) = "delete"
    <2>1. Goto(p, "rmtickets") /\ Fits(p, "rmtickets", copy[p])
      BY <1>1, <1>3 DEF Kept, Fits, Takes, Untargeted, CopySteps
    <2>2. QED
      BY <1>1, <2>1, TakeFits DEF Goto, Steps
  <1>4. CASE Cmd(p) \notin {"archive", "delete"}
    <2>1. Finish(p)
      BY <1>4 DEF Kept
    <2>2. QED
      BY <2>1, FinishFits
  <1>5. QED
    BY <1>2, <1>3, <1>4

LEMMA RemoveShape ==
    ASSUME Shape, NEW p \in Procs,
           \/ CheckWorktree(p) \/ RemoveWorktree(p) \/ LogRemoved(p) \/ PruneBranch(p)
           \/ RemoveTickets(p) \/ RemoveRecord(p)
    PROVE  Shape'
  <1> USE DEF Shape, data, disk, gitVars
  <1>1. Fits(p, pc[p], copy[p]) /\ copy[p] \in Good \cup {Absent} /\ job[p] \in Jobs
    BY DEF OwnShape
  <1>2. CASE CheckWorktree(p)
    <2>1. DataShape' /\ DiskShape'
      BY <1>2 DEF CheckWorktree, DataShape, DiskShape, GitTypeOK
    <2>2. CASE Kept(p)
      BY <1>2, <2>1, <2>2, KeptFits DEF CheckWorktree, At
    <2>3. CASE Goto(p, "remove")
      <3>1. Fits(p, "remove", copy[p])
        BY <1>1, <1>2 DEF CheckWorktree, At, Fits, Takes, Untargeted, CopySteps
      <3>2. QED
        BY <1>1, <2>1, <2>3, <3>1, TakeFits DEF Goto, Steps
    <2>4. QED
      BY <1>2, <2>2, <2>3 DEF CheckWorktree
  <1>3. CASE RemoveWorktree(p)
    <2>1. Task(p) \in Tasks /\ Cmd(p) \in {"archive", "delete", "cleanup", "prune"}
      BY <1>1, <1>3 DEF RemoveWorktree, At, Fits, Takes, Untargeted
    <2>2. DataShape'
      BY <1>3 DEF RemoveWorktree, DataShape
    <2>3. DiskShape'
      BY <1>3, <2>1 DEF RemoveWorktree, DiskShape, GitTypeOK, RemoveTree
    <2>4. CASE Kept(p)
      BY <1>3, <2>2, <2>3, <2>4, KeptFits DEF RemoveWorktree, At
    <2>5. CASE Cmd(p) \in {"cleanup", "archive"} /\ ~Kept(p)
      <3> DEFINE rec == [copy[p] EXCEPT !.worktree = FALSE]
      <3>1. PICK step \in {"store", "logremoved"} : Take(p, step, rec)
        BY <1>3, <2>5 DEF RemoveWorktree
      <3>2. copy[p] \in Good
        BY <1>1, <1>3, <2>5 DEF RemoveWorktree, At, Fits, CopySteps
      <3>3. rec \in Good
        BY <3>2, GoodEdits
      <3> HIDE DEF rec
      <3>4. Fits(p, step, rec)
        BY <1>1, <1>3, <2>1, <2>5, <3>1, <3>3, GoodEdits
          DEF RemoveWorktree, At, Fits, Takes, Untargeted, CopySteps
      <3>5. QED
        BY <2>2, <2>3, <3>1, <3>3, <3>4, TakeFits DEF Steps
    <2>6. CASE Cmd(p) = "delete" /\ ~Kept(p)
      <3>1. Goto(p, "logremoved")
        BY <1>3, <2>6 DEF RemoveWorktree
      <3>2. Fits(p, "logremoved", copy[p])
        BY <1>1, <1>3, <2>6 DEF RemoveWorktree, At, Fits, Takes, Untargeted, CopySteps
      <3>3. QED
        BY <1>1, <2>2, <2>3, <3>1, <3>2, TakeFits DEF Goto, Steps
    <2>7. CASE Cmd(p) = "prune" /\ ~Kept(p)
      <3>1. Finish(p)
        BY <1>3, <2>7 DEF RemoveWorktree
      <3>2. QED
        BY <2>2, <2>3, <3>1, FinishFits
    <2>8. QED
      BY <2>1, <2>4, <2>5, <2>6, <2>7
  <1>4. CASE LogRemoved(p)
    <2>1. /\ Task(p) \in Tasks /\ copy[p] \in Good
          /\ Cmd(p) \in {"archive", "delete", "cleanup"}
      BY <1>1, <1>4 DEF LogRemoved, At, Fits, Takes, Untargeted, CopySteps
    <2>2. ledger[Task(p)] - 1 \in Int
      BY <2>1 DEF DataShape
    <2>3. DataShape' /\ DiskShape'
      BY <1>4, <2>1, <2>2 DEF LogRemoved, DataShape, DiskShape, GitTypeOK
    <2>4. CASE Finish(p)
      BY <2>3, <2>4, FinishFits
    <2>5. CASE ~Finish(p)
      <3>1. PICK step \in {"rmtickets", "prunebranch", "store"} :
               /\ Goto(p, step)
               /\ step = "rmtickets" <=> Cmd(p) = "delete"
               /\ Cmd(p) # "cleanup"
        BY <1>4, <2>1, <2>5 DEF LogRemoved
      <3>2. Fits(p, step, copy[p])
        BY <1>1, <1>4, <2>1, <3>1, GoodEdits
          DEF LogRemoved, At, Fits, Takes, Untargeted, CopySteps
      <3>3. QED
        BY <2>1, <2>3, <3>1, <3>2, TakeFits DEF Goto, Steps
    <2>6. QED
      BY <2>4, <2>5
  <1>5. CASE PruneBranch(p)
    <2>1. Task(p) \in Tasks /\ copy[p] \in Good
      BY <1>1, <1>5 DEF PruneBranch, At, Fits, Takes, Untargeted, CopySteps
    <2>2. DataShape' /\ DiskShape'
      BY <1>5 DEF PruneBranch, RemoveBranch, DataShape, DiskShape, GitTypeOK
    <2>3. Fits(p, "store", copy[p])
      BY <1>1, <1>5, <2>1, GoodEdits DEF PruneBranch, At, Fits, Takes, Untargeted, CopySteps
    <2>4. QED
      BY <1>5, <2>1, <2>2, <2>3, TakeFits DEF PruneBranch, Goto, Steps
  <1>6. CASE RemoveTickets(p)
    <2>1. Task(p) \in Tasks /\ copy[p] \in Good
      BY <1>1, <1>6 DEF RemoveTickets, At, Fits, Takes, Untargeted, CopySteps
    <2>2. DataShape' /\ DiskShape'
      BY <1>6 DEF RemoveTickets, DataShape, DiskShape, GitTypeOK
    <2>3. Fits(p, "rmrecord", copy[p])
      BY <1>1, <1>6, <2>1, GoodEdits DEF RemoveTickets, At, Fits, Takes, Untargeted, CopySteps
    <2>4. QED
      BY <1>6, <2>1, <2>2, <2>3, TakeFits DEF RemoveTickets, Goto, Steps
  <1>7. CASE RemoveRecord(p)
    <2>1. DataShape' /\ DiskShape'
      BY <1>7 DEF RemoveRecord, DataShape, DiskShape, GitTypeOK
    <2>2. QED
      BY <1>7, <2>1, FinishFits DEF RemoveRecord
  <1>8. QED
    BY <1>2, <1>3, <1>4, <1>5, <1>6, <1>7

LEMMA BulkShape ==
    ASSUME Shape, NEW p \in Procs,
           ListTasks(p) \/ ListOrphans(p) \/ NextTask(p) \/ Restore(p)
    PROVE  Shape'
  <1> USE DEF Shape, data, disk, gitVars
  <1>1. Fits(p, pc[p], copy[p]) /\ copy[p] \in Good \cup {Absent} /\ job[p] \in Jobs
    BY DEF OwnShape
  <1>2. ASSUME NEW q \in Procs, q # p, UNCHANGED <<cli>>,
               /\ pc'[q] = pc[q] /\ copy'[q] = copy[q] /\ job'[q] = job[q]
               /\ todo'[q] = todo[q] /\ snap'[q] = snap[q]
        PROVE  Fits(q, pc[q], copy[q])'
    <2>1. Fits(q, pc[q], copy[q])
      BY DEF OwnShape
    <2>2. QED
      BY <1>2, <2>1 DEF Fits, Cmd, Task
  <1>3. CASE ListTasks(p)
    <2>1. DataShape' /\ DiskShape'
      BY <1>3 DEF ListTasks, DataShape, DiskShape, GitTypeOK
    <2>2. CASE Stop(p)
      BY <2>1, <2>2, StopFits
    <2>3. CASE ~Stop(p) /\ Cmd(p) = "prune"
      <3>1. /\ pc' = [pc EXCEPT ![p] = "orphans"]
            /\ snap' = [snap EXCEPT ![p] = backlog]
            /\ UNCHANGED <<job, copy, cli, todo>>
        BY <1>3, <2>3 DEF ListTasks
      <3>2. Fits(p, pc[p], copy[p])'
        <4>1. pc'[p] = "orphans"
          BY <3>1 DEF OwnShape
        <4>2. QED
          BY <1>1, <1>3, <2>3, <3>1, <4>1
            DEF ListTasks, At, Fits, Cmd, Task, Takes, Untargeted, CopySteps
      <3>3. \A q \in Procs : Fits(q, pc[q], copy[q])'
        BY <1>2, <3>1, <3>2 DEF OwnShape
      <3>4. QED
        BY <2>1, <3>1, <3>3 DEF OwnShape, DataShape, Steps
    <2>4. CASE ~Stop(p) /\ Cmd(p) # "prune"
      <3> DEFINE chosen == CASE Cmd(p) = "startall" -> {t \in Known(backlog) : backlog[t].status = "backlog"}
                             [] Cmd(p) = "closeall" -> {t \in Known(backlog) : backlog[t].status = "active"}
                             [] OTHER               -> {t \in Live(backlog) : backlog[t].worktree}
      <3>1. /\ pc' = [pc EXCEPT ![p] = "next"]
            /\ todo' = [todo EXCEPT ![p] = chosen]
            /\ snap' = [snap EXCEPT ![p] = IF Cmd(p) = "reconcile" THEN backlog ELSE @]
            /\ UNCHANGED <<job, copy, cli>>
        BY <1>3, <2>4 DEF ListTasks
      <3>2. chosen \subseteq Known(backlog)
        BY DEF Live
      <3>3. Cmd(p) = "reconcile" => \A t \in chosen : backlog[t].worktree
        OBVIOUS
      <3> HIDE DEF chosen
      <3>4. chosen \subseteq Tasks /\ \A t \in chosen : backlog[t] # Absent
        BY <3>2 DEF Known
      <3>5. pc'[p] = "next" /\ todo'[p] = chosen /\ (Cmd(p) = "reconcile" => snap'[p] = backlog)
        BY <3>1 DEF OwnShape
      <3>6. Fits(p, pc[p], copy[p])'
        <4>1. Cmd(p) \in Lists \cap Commands /\ Cmd(p)' = Cmd(p) /\ copy[p] = Absent /\ cli[p] = Absent
          BY <1>1, <1>3, <3>1 DEF ListTasks, At, Fits, Cmd, Takes, Untargeted, Lists
        <4>2. QED
          BY <3>1, <3>3, <3>4, <3>5, <4>1 DEF Fits, Cmd, Task, Takes, Untargeted, CopySteps, Lists
      <3>7. \A q \in Procs : Fits(q, pc[q], copy[q])'
        BY <1>2, <3>1, <3>6 DEF OwnShape
      <3>8. snap' \in [Procs -> [Tasks -> Good \cup {Absent}]]
        BY <3>1 DEF OwnShape, DataShape
      <3>9. QED
        BY <2>1, <3>1, <3>4, <3>7, <3>8 DEF OwnShape, Steps
    <2>5. QED
      BY <2>2, <2>3, <2>4
  <1>4. CASE ListOrphans(p)
    <2>1. DataShape' /\ DiskShape'
      BY <1>4 DEF ListOrphans, DataShape, DiskShape, GitTypeOK
    <2>2. CASE Stop(p)
      BY <2>1, <2>2, StopFits
    <2>3. CASE ~Stop(p)
      <3>1. PICK orphans \in SUBSET Tasks :
              /\ pc' = [pc EXCEPT ![p] = "next"]
              /\ todo' = [todo EXCEPT ![p] = orphans]
              /\ UNCHANGED <<job, copy, cli, snap>>
        BY <1>4, <2>3 DEF ListOrphans
      <3>2. pc'[p] = "next" /\ Cmd(p) = "prune" /\ copy[p] = Absent
        BY <1>1, <1>4, <3>1 DEF ListOrphans, At, Fits, Takes, Untargeted, OwnShape
      <3>3. Fits(p, pc[p], copy[p])'
        BY <1>1, <3>1, <3>2 DEF Fits, Cmd, Task, Takes, Untargeted, CopySteps, Lists
      <3>4. \A q \in Procs : Fits(q, pc[q], copy[q])'
        BY <1>2, <3>1, <3>3 DEF OwnShape
      <3>5. QED
        BY <2>1, <3>1, <3>4 DEF OwnShape, Steps
    <2>4. QED
      BY <2>2, <2>3
  <1>5. CASE NextTask(p)
    <2>1. DataShape' /\ DiskShape'
      BY <1>5 DEF NextTask, DataShape, DiskShape, GitTypeOK
    <2>2. PICK t \in todo[p] :
            /\ todo' = [todo EXCEPT ![p] = @ \ {t}]
            /\ job' = [job EXCEPT ![p].task = t]
            /\ copy' = [copy EXCEPT ![p] = IF Cmd(p) = "reconcile" THEN snap[p][t] ELSE Absent]
      BY <1>5 DEF NextTask
    <2>3. PICK step \in {"restore", "check", "get"} :
            /\ pc' = [pc EXCEPT ![p] = step]
            /\ step = "restore" <=> Cmd(p) = "reconcile"
            /\ step = "check" <=> Cmd(p) = "prune"
      BY <1>5 DEF NextTask
    <2>4. t \in Tasks /\ Cmd(p) \in Lists /\ UNCHANGED <<cli, snap>>
      BY <1>1, <1>5, <2>2 DEF NextTask, At, Fits, Takes, Lists, OwnShape
    <2>5. /\ pc'[p] = step /\ todo'[p] = todo[p] \ {t}
          /\ job'[p] = [job[p] EXCEPT !.task = t]
          /\ copy'[p] = IF Cmd(p) = "reconcile" THEN snap[p][t] ELSE Absent
      BY <2>2, <2>3 DEF OwnShape
    <2>6. job'[p].cmd = Cmd(p) /\ job'[p].task = t /\ job'[p] \in Jobs
      BY <1>1, <2>4, <2>5 DEF Cmd, Jobs
    <2>7. Fits(p, pc[p], copy[p])'
      BY <1>1, <2>3, <2>4, <2>5, <2>6 DEF Fits, Cmd, Task, Takes, Untargeted, CopySteps, Lists
    <2>8. \A q \in Procs : Fits(q, pc[q], copy[q])'
      BY <1>2, <2>2, <2>3, <2>4, <2>7 DEF OwnShape
    <2>9. job' \in [Procs -> Jobs]
      BY <2>2, <2>5, <2>6 DEF OwnShape
    <2>10. copy' \in [Procs -> Good \cup {Absent}] /\ todo' \in [Procs -> SUBSET Tasks]
      BY <2>2, <2>4 DEF OwnShape
    <2>11. QED
      BY <2>1, <2>3, <2>4, <2>8, <2>9, <2>10 DEF OwnShape, Steps
  <1>6. CASE Restore(p)
    <2>1. Task(p) \in Tasks /\ copy[p] \in Good /\ copy[p].branch \in Branches
      BY <1>1, <1>6 DEF Restore, At, Fits, Takes, Untargeted, CopySteps, Good
    <2>2. DataShape' /\ DiskShape'
      BY <1>6, <2>1 DEF Restore, AddTree, DataShape, DiskShape, GitTypeOK
    <2>3. QED
      BY <1>6, <2>2, FinishFits DEF Restore
  <1>7. QED
    BY <1>3, <1>4, <1>5, <1>6

LEMMA BeginShape ==
    ASSUME Shape, NEW p \in Procs, Begin(p)
    PROVE  Shape'
  <1> USE DEF Shape, data, disk, gitVars
  <1>1. PICK j \in Requests :
          /\ job' = [job EXCEPT ![p] = j]
          /\ pc' = [pc EXCEPT ![p] = FirstStep(j.cmd)]
          /\ used' = used \cup (IF j.cmd = "create" THEN {j.task} ELSE {})
    BY DEF Begin
  <1> DEFINE step == FirstStep(j.cmd)
  <1>2. /\ j \in Jobs /\ Takes(j.cmd, step) /\ j.cmd \in Commands
        /\ step \in {"add", "start", "list", "cliget", "get"}
        /\ step # "list" => j.task \in Tasks
        /\ j.cmd \in {"status", "status+owner"} => j.opt \in Targets
        /\ j.cmd = "create" => j.task \in Tasks \ used
        /\ j.cmd = "status+owner" => step = "cliget"
    BY FirstStepFits DEF DataShape, FirstStep, Lists
  <1> HIDE DEF step
  <1>3. UNCHANGED <<backlog, ledger, copy, cli, todo, snap, disk>> /\ pc[p] = "idle"
    BY DEF Begin, At
  <1>4. DataShape' /\ DiskShape'
    BY <1>1, <1>2, <1>3 DEF DataShape, DiskShape, GitTypeOK
  <1>5. ASSUME NEW q \in Procs PROVE Fits(q, pc[q], copy[q])'
    <2>1. Fits(q, pc[q], copy[q])
      BY DEF OwnShape
    <2>2. CASE q # p
      <3>1. pc'[q] = pc[q] /\ job'[q] = job[q]
        BY <1>1, <2>2 DEF OwnShape
      <3>2. QED
        BY <1>3, <2>1, <3>1 DEF Fits, Cmd, Task
    <2>3. CASE q = p
      <3>1. pc'[p] = step /\ job'[p] = j
        BY <1>1 DEF OwnShape, step
      <3>2. copy[p] = Absent /\ cli[p] = Absent /\ todo[p] = {}
        BY <1>3, <2>1, <2>3 DEF Fits, Takes, Untargeted, Lists
      <3>3. QED
        BY <1>2, <1>3, <2>3, <3>1, <3>2 DEF Fits, Cmd, Task, Untargeted, CopySteps
    <2>4. QED
      BY <2>2, <2>3
  <1>6. pc' \in [Procs -> Steps] /\ job' \in [Procs -> Jobs]
    BY <1>1, <1>2 DEF OwnShape, Steps, step
  <1>7. QED
    BY <1>3, <1>4, <1>5, <1>6 DEF OwnShape

LEMMA UserShape ==
    ASSUME Shape, NEW t \in Tasks, User(t)
    PROVE  Shape'
  <1>1. OwnShape'
    BY DEF Shape, OwnShape, User, own, Fits, Cmd, Task
  <1>2. DataShape'
    BY DEF Shape, DataShape, User, data
  <1>3. DiskShape'
    BY DEF Shape, DiskShape, GitTypeOK, User, Edit, Push, DeleteDirectory
  <1>4. QED
    BY <1>1, <1>2, <1>3 DEF Shape

LEMMA ShapePreserved ==
    ASSUME Shape, [Next]_vars
    PROVE  Shape'
  <1>1. ASSUME NEW p \in Procs, Step(p) PROVE Shape'
    BY <1>1, CreateShape, LoadShape, ArchiveShape, RemoveShape, BulkShape DEF Step
  <1>2. ASSUME NEW p \in Procs, Crash(p) PROVE Shape'
    <2>1. OwnShape'
      BY <1>2, StopFits DEF Crash, Shape
    <2>2. QED
      BY <1>2, <2>1 DEF Crash, Shape, DataShape, DiskShape, GitTypeOK, data, disk, gitVars
  <1>3. CASE UNCHANGED vars
    <2>1. OwnShape'
      BY <1>3 DEF vars, own, Shape, OwnShape, Fits, Cmd, Task
    <2>2. QED
      BY <1>3, <2>1 DEF vars, Shape, DataShape, DiskShape, GitTypeOK, data, disk, gitVars
  <1>4. QED
    BY <1>1, <1>2, <1>3, BeginShape, UserShape DEF Next

LEMMA ShapeInit == ASSUME Init PROVE Shape
  <1>1. \A p \in Procs : Fits(p, pc[p], copy[p])
    BY DEF Init, Fits, Cmd, Task, NoJob, Takes, Untargeted, CopySteps
  <1>2. pc \in [Procs -> Steps] /\ job \in [Procs -> Jobs]
    BY DEF Init, NoJob, Jobs, Steps
  <1>3. snap \in [Procs -> [Tasks -> Good \cup {Absent}]] /\ backlog \in [Tasks -> Good \cup {Absent}]
    BY DEF Init, Nothing
  <1>4. OwnShape
    BY <1>1, <1>2, <1>3 DEF Init, OwnShape
  <1>5. QED
    BY <1>3, <1>4 DEF Init, Shape, DataShape, DiskShape, GitTypeOK, GitInit

(* Every copy of a task that a command holds is a record or none, a process*)
(* has a task where it works on one, and the disk holds what git knows.    *)
THEOREM TypeCorrect == Spec => []TypeOK
  <1>1. ASSUME Shape PROVE TypeOK
    <2>1. Good \subseteq Records
      BY DEF Good
    <2>2. \A p \in Procs : job[p].task \in Tasks \cup {Absent}
      BY <1>1 DEF Shape, OwnShape, Jobs
    <2>3. QED
      BY <1>1, <2>1, <2>2 DEF Shape, OwnShape, DataShape, DiskShape, TypeOK
  <1>2. QED
    BY <1>1, ShapeInit, ShapePreserved, PTL DEF Spec

-----------------------------------------------------------------------------
(* A task gets its branch once, from the process that creates it, before   *)
(* anyone can have heard of it.  From then on every record and every copy  *)
(* of the task names that branch or none, and so does git's register.      *)

Names(rec, b) == rec # Absent /\ rec.branch = b

Named(t, b) ==
    \/ Names(backlog[t], b)
    \/ registered[t] = b
    \/ \E p \in Procs : Task(p) = t /\ (Names(copy[p], b) \/ Names(cli[p], b))
    \/ \E p \in Procs : Names(snap[p][t], b)

Unnamed(t) == \A b \in Branches : ~Named(t, b)

Early == {"add", "bootstrap", "branch"}

BranchInv ==
    /\ \A t \in Tasks : \A b, c \in Branches : Named(t, b) /\ Named(t, c) => b = c
    /\ \A p \in Procs : pc[p] \in Early => Unnamed(Task(p))
    /\ \A p, q \in Procs : Cmd(p) = "create" /\ Cmd(q) = "create" /\ Task(p) = Task(q) => p = q
    /\ \A p \in Procs : Cmd(p) = "create" => Task(p) \in used
    /\ \A t \in Tasks \ used : Unnamed(t)

(* A step that invents no name.                                            *)
NamesAreOld == \A t \in Tasks : \A b \in Branches : Named(t, b)' => Named(t, b)

SharedAreOld ==
    \A t \in Tasks : \A b \in Branches :
        Names(backlog'[t], b) \/ registered'[t] = b => Named(t, b)

RecordIsOld(p, rec) == \A b \in Branches : Names(rec, b) => Named(Task(p), b)

(* A step that starts no creation, and moves none back.                    *)
CreatorsStay ==
    /\ \A q \in Procs : Cmd(q)' = "create" => Cmd(q) = "create" /\ Task(q)' = Task(q)
    /\ \A q \in Procs : pc'[q] \in Early => pc[q] \in Early
    /\ used' = used

LEMMA TakeNames ==
    ASSUME OwnShape, NEW p \in Procs, NEW step, NEW rec, Take(p, step, rec),
           RecordIsOld(p, rec), SharedAreOld
    PROVE  NamesAreOld
  <1> SUFFICES ASSUME NEW t \in Tasks, NEW b \in Branches, Named(t, b)'
               PROVE  Named(t, b)
    BY DEF NamesAreOld
  <1>1. CASE Names(backlog'[t], b) \/ registered'[t] = b
    BY <1>1 DEF SharedAreOld
  <1>2. CASE \E q \in Procs : Names(snap'[q][t], b)
    BY <1>2 DEF Take, Named
  <1>3. CASE \E q \in Procs : Task(q)' = t /\ (Names(copy'[q], b) \/ Names(cli'[q], b))
    <2>1. PICK q \in Procs : Task(q)' = t /\ (Names(copy'[q], b) \/ Names(cli'[q], b))
      BY <1>3
    <2>2. Task(q) = t /\ cli'[q] = cli[q]
      BY <2>1 DEF Take, Task
    <2>3. CASE q = p /\ Names(copy'[q], b)
      <3>1. copy'[p] = rec
        BY DEF Take, OwnShape
      <3>2. QED
        BY <2>2, <2>3, <3>1 DEF RecordIsOld
    <2>4. CASE q # p \/ Names(cli'[q], b)
      <3>1. q # p => copy'[q] = copy[q]
        BY DEF Take, OwnShape
      <3>2. QED
        BY <2>1, <2>2, <2>4, <3>1 DEF Named
    <2>5. QED
      BY <2>1, <2>3, <2>4
  <1>4. QED
    BY <1>1, <1>2, <1>3 DEF Named, Names

LEMMA TakeCreators ==
    ASSUME OwnShape, NEW p \in Procs, NEW step, NEW rec, Take(p, step, rec),
           step \in Early => pc[p] \in Early, used' = used
    PROVE  CreatorsStay
  BY DEF Take, OwnShape, CreatorsStay, Cmd, Task

LEMMA StopNames ==
    ASSUME OwnShape, NEW p \in Procs, Stop(p), SharedAreOld
    PROVE  NamesAreOld
  <1> SUFFICES ASSUME NEW t \in Tasks, NEW b \in Branches, Named(t, b)'
               PROVE  Named(t, b)
    BY DEF NamesAreOld
  <1>1. CASE Names(backlog'[t], b) \/ registered'[t] = b
    BY <1>1 DEF SharedAreOld
  <1>2. ASSUME NEW q \in Procs, q # p
        PROVE  /\ snap'[q] = snap[q] /\ copy'[q] = copy[q] /\ cli'[q] = cli[q]
               /\ job'[q] = job[q]
    BY <1>2 DEF Stop, OwnShape
  <1>3. copy'[p] = Absent /\ cli'[p] = Absent /\ snap'[p][t] = Absent
    BY DEF Stop, OwnShape, Nothing
  <1>4. CASE \E q \in Procs : Names(snap'[q][t], b)
    BY <1>2, <1>3, <1>4 DEF Named, Names
  <1>5. CASE \E q \in Procs : Task(q)' = t /\ (Names(copy'[q], b) \/ Names(cli'[q], b))
    BY <1>2, <1>3, <1>5 DEF Named, Names, Task
  <1>6. QED
    BY <1>1, <1>4, <1>5 DEF Named, Names

LEMMA StopCreators ==
    ASSUME OwnShape, NEW p \in Procs, Stop(p), used' = used
    PROVE  CreatorsStay
  <1>1. job'[p].cmd = "none" /\ pc'[p] = "idle"
    BY DEF Stop, OwnShape, NoJob
  <1>2. \A q \in Procs : q # p => job'[q] = job[q] /\ pc'[q] = pc[q]
    BY DEF Stop, OwnShape
  <1>3. QED
    BY <1>1, <1>2 DEF CreatorsStay, Cmd, Task, Early

LEMMA FinishNames ==
    ASSUME OwnShape, NEW p \in Procs, Finish(p), SharedAreOld, used' = used
    PROVE  NamesAreOld /\ CreatorsStay
  <1>1. CASE Stop(p)
    BY <1>1, StopNames, StopCreators
  <1>2. CASE Take(p, "next", Absent)
    BY <1>2, TakeNames, TakeCreators DEF RecordIsOld, Names, Early
  <1>3. QED
    BY <1>1, <1>2 DEF Finish

LEMMA GotoNames ==
    ASSUME OwnShape, NEW p \in Procs, NEW step, Goto(p, step), SharedAreOld, used' = used,
           step \notin Early
    PROVE  NamesAreOld /\ CreatorsStay
  <1>1. RecordIsOld(p, copy[p])
    BY DEF RecordIsOld, Named
  <1>2. QED
    BY <1>1, TakeNames, TakeCreators DEF Goto

(* Only the branch of a record names anything.                             *)
LEMMA EditedNames ==
    ASSUME NEW rec \in Good
    PROVE  /\ \A s : [rec EXCEPT !.status = s].branch = rec.branch
           /\ \A place : [rec EXCEPT !.place = place].branch = rec.branch
           /\ \A s, place : [rec EXCEPT !.status = s, !.place = place].branch = rec.branch
           /\ \A w : [rec EXCEPT !.worktree = w].branch = rec.branch
  <1>1. rec \in Records
    BY DEF Good
  <1>2. \A s : [rec EXCEPT !.status = s].branch = rec.branch
    BY <1>1 DEF Records
  <1>3. \A place : [rec EXCEPT !.place = place].branch = rec.branch
    BY <1>1 DEF Records
  <1>4. \A s, place : [rec EXCEPT !.status = s, !.place = place].branch = rec.branch
    BY <1>1 DEF Records
  <1>5. \A w : [rec EXCEPT !.worktree = w].branch = rec.branch
    BY <1>1 DEF Records
  <1>6. QED
    BY <1>2, <1>3, <1>4, <1>5

LEMMA HeldIsOld ==
    ASSUME NEW p \in Procs
    PROVE  /\ RecordIsOld(p, copy[p]) /\ RecordIsOld(p, cli[p])
           /\ RecordIsOld(p, backlog[Task(p)])
  BY DEF RecordIsOld, Named

LEMMA EditsAreOld ==
    ASSUME NEW p \in Procs, NEW rec \in Good, RecordIsOld(p, rec)
    PROVE  /\ \A s : RecordIsOld(p, [rec EXCEPT !.status = s])
           /\ \A place : RecordIsOld(p, [rec EXCEPT !.place = place])
           /\ \A s, place : RecordIsOld(p, [rec EXCEPT !.status = s, !.place = place])
           /\ \A w : RecordIsOld(p, [rec EXCEPT !.worktree = w])
  <1>1. \A r : r.branch = rec.branch => RecordIsOld(p, r)
    BY GoodEdits DEF RecordIsOld, Names
  <1>2. ASSUME NEW s PROVE RecordIsOld(p, [rec EXCEPT !.status = s])
    BY <1>1, EditedNames
  <1>3. ASSUME NEW place PROVE RecordIsOld(p, [rec EXCEPT !.place = place])
    BY <1>1, EditedNames
  <1>4. ASSUME NEW s, NEW place
        PROVE  RecordIsOld(p, [rec EXCEPT !.status = s, !.place = place])
    <2> DEFINE r == [rec EXCEPT !.status = s, !.place = place]
    <2>1. r.branch = rec.branch
      BY EditedNames
    <2> HIDE DEF r
    <2>2. RecordIsOld(p, r)
      BY <1>1, <2>1
    <2>3. QED
      BY <2>2 DEF r
  <1>5. ASSUME NEW w PROVE RecordIsOld(p, [rec EXCEPT !.worktree = w])
    BY <1>1, EditedNames
  <1>6. QED
    BY <1>2, <1>3, <1>4, <1>5

(* Storing a record that is old, for the task it is about.                 *)
LEMMA StoredIsOld ==
    ASSUME Shape, NEW p \in Procs, NEW rec, RecordIsOld(p, rec), registered' = registered,
           backlog' \in {backlog, [backlog EXCEPT ![Task(p)] = rec]}
    PROVE  SharedAreOld
  <1>1. \A t \in Tasks : backlog'[t] = backlog[t] \/ (t = Task(p) /\ backlog'[t] = rec)
    BY DEF Shape, DataShape
  <1>2. QED
    BY <1>1 DEF SharedAreOld, RecordIsOld, Named

LEMMA SharedUnchanged ==
    ASSUME backlog' = backlog, registered' = registered
    PROVE  SharedAreOld
  BY DEF SharedAreOld, Named

LEMMA CreateNames ==
    ASSUME Shape, NEW p \in Procs,
           \/ AddRecord(p) \/ Bootstrap(p) \/ MakeWorktree(p) \/ StoreNew(p)
           \/ LogCreated(p) \/ UndoTree(p) \/ UndoTicket(p) \/ UndoRecord(p)
    PROVE  NamesAreOld /\ CreatorsStay
  <1> USE DEF data, disk, gitVars
  <1>1. Fits(p, pc[p], copy[p]) /\ OwnShape /\ copy[p] \in Good \cup {Absent}
    BY DEF Shape, OwnShape
  <1>2. CASE AddRecord(p)
    <2>1. RecordIsOld(p, NewRecord)
      BY TaskLifecycleAssumption DEF RecordIsOld, Names, NewRecord
    <2>2. SharedAreOld /\ used' = used
      BY <1>2, <2>1, StoredIsOld DEF AddRecord
    <2>3. CASE Take(p, "bootstrap", NewRecord)
      BY <1>1, <1>2, <2>1, <2>2, <2>3, TakeNames, TakeCreators DEF AddRecord, At, Early
    <2>4. QED
      BY <1>1, <1>2, <2>2, <2>3, FinishNames DEF AddRecord
  <1>3. CASE Bootstrap(p)
    <2>1. SharedAreOld /\ used' = used
      BY <1>3, SharedUnchanged DEF Bootstrap
    <2>2. copy[p] \in Good
      BY <1>1, <1>3 DEF Bootstrap, At, Fits, CopySteps, Takes
    <2>3. RecordIsOld(p, [copy[p] EXCEPT !.place = New])
      BY <2>2, HeldIsOld, EditsAreOld
    <2>4. CASE Goto(p, "undorecord")
      BY <1>1, <2>1, <2>4, GotoNames DEF Early
    <2>5. CASE \E step : Take(p, step, [copy[p] EXCEPT !.place = New])
      BY <1>1, <1>3, <2>1, <2>3, <2>5, TakeNames, TakeCreators DEF Bootstrap, At, Early
    <2>6. QED
      BY <1>3, <2>4, <2>5 DEF Bootstrap
  <1>4. CASE MakeWorktree(p)
    <2>1. copy[p] \in Good /\ Task(p) \in Tasks
      BY <1>1, <1>4 DEF MakeWorktree, At, Fits, CopySteps, Takes, Untargeted
    <2>2. SharedAreOld /\ used' = used
      <3>1. \A t \in Tasks : registered'[t] = registered[t] \/ (t = Task(p) /\ registered'[t] = copy[p].branch)
        BY <1>4 DEF MakeWorktree, AddTree, Shape, DiskShape, GitTypeOK
      <3>2. copy[p] # Absent /\ backlog' = backlog
        BY <1>4, <2>1, GoodEdits DEF MakeWorktree
      <3>3. QED
        BY <1>4, <3>1, <3>2 DEF MakeWorktree, SharedAreOld, Named, Names
    <2>3. RecordIsOld(p, [copy[p] EXCEPT !.worktree = TRUE])
      BY <2>1, HeldIsOld, EditsAreOld
    <2>4. CASE Goto(p, "undoticket")
      BY <1>1, <2>2, <2>4, GotoNames DEF Early
    <2>5. CASE Take(p, "storenew", [copy[p] EXCEPT !.worktree = TRUE])
      BY <1>1, <2>2, <2>3, <2>5, TakeNames, TakeCreators DEF Early
    <2>6. QED
      BY <1>4, <2>4, <2>5 DEF MakeWorktree
  <1>5. CASE StoreNew(p)
    <2>1. SharedAreOld /\ used' = used
      BY <1>5, HeldIsOld, StoredIsOld DEF StoreNew, Update
    <2>2. QED
      BY <1>1, <1>5, <2>1, GotoNames DEF StoreNew, Early
  <1>6. CASE LogCreated(p)
    BY <1>1, <1>6, SharedUnchanged, FinishNames DEF LogCreated
  <1>7. CASE UndoTree(p)
    <2>1. registered' \in {registered, [registered EXCEPT ![Task(p)] = NoBranch]}
      BY <1>7 DEF UndoTree, RemoveTree
    <2>2. SharedAreOld /\ used' = used
      <3>1. \A t \in Tasks : registered'[t] \in {registered[t], NoBranch}
        BY <2>1 DEF Shape, DiskShape, GitTypeOK
      <3>2. QED
        BY <1>7, <3>1, TaskLifecycleAssumption DEF UndoTree, SharedAreOld, Named
    <2>3. QED
      BY <1>1, <1>7, <2>2, GotoNames DEF UndoTree, Early
  <1>8. CASE UndoTicket(p)
    BY <1>1, <1>8, SharedUnchanged, GotoNames DEF UndoTicket, Early
  <1>9. CASE UndoRecord(p)
    <2>1. RecordIsOld(p, Absent)
      BY DEF RecordIsOld, Names
    <2>2. SharedAreOld /\ used' = used
      BY <1>9, <2>1, StoredIsOld DEF UndoRecord
    <2>3. QED
      BY <1>1, <1>9, <2>2, FinishNames DEF UndoRecord
  <1>10. QED
    BY <1>2, <1>3, <1>4, <1>5, <1>6, <1>7, <1>8, <1>9

LEMMA LoadNames ==
    ASSUME Shape, NEW p \in Procs,
           \/ Get(p) \/ Start(p) \/ Store(p) \/ Render(p) \/ CliGet(p) \/ CliStore(p)
    PROVE  NamesAreOld /\ CreatorsStay
  <1> USE DEF data, disk, gitVars
  <1>1. Fits(p, pc[p], copy[p]) /\ OwnShape /\ copy[p] \in Good \cup {Absent}
    BY DEF Shape, OwnShape
  <1>2. CASE Get(p)
    <2>1. SharedAreOld /\ used' = used
      BY <1>2, SharedUnchanged DEF Get
    <2>2. CASE Finish(p)
      BY <1>1, <2>1, <2>2, FinishNames
    <2>3. CASE ~Finish(p)
      <3> DEFINE old == backlog[Task(p)]
      <3> DEFINE rec == [old EXCEPT !.status = StatusAfter(job[p], old)]
      <3> DEFINE step == StepAfterGet(Cmd(p), old)
      <3>1. old \in Good /\ Takes(Cmd(p), "get") /\ Take(p, step, rec)
        BY <1>1, <1>2, <2>3 DEF Get, At, Fits, Untargeted, Shape, DataShape
      <3>2. RecordIsOld(p, rec)
        BY <3>1, HeldIsOld, EditsAreOld
      <3>3. step \notin Early
        BY <3>1, AfterGet DEF Early
      <3> HIDE DEF rec, step, old
      <3>4. QED
        BY <1>1, <2>1, <3>1, <3>2, <3>3, TakeNames, TakeCreators
    <2>4. QED
      BY <2>2, <2>3
  <1>3. CASE Start(p)
    <2>1. SharedAreOld /\ used' = used
      BY <1>3, SharedUnchanged DEF Start
    <2>2. QED
      BY <1>1, <1>3, <2>1, FinishNames, GotoNames DEF Start, Early
  <1>4. CASE Store(p)
    <2>1. SharedAreOld /\ used' = used
      BY <1>4, HeldIsOld, StoredIsOld DEF Store, Update
    <2>2. StepAfterStore(p) \notin Early
      BY DEF StepAfterStore, Early
    <2>3. QED
      BY <1>1, <1>4, <2>1, <2>2, FinishNames, GotoNames DEF Store
  <1>5. CASE Render(p)
    BY <1>1, <1>5, SharedUnchanged, FinishNames DEF Render, WriteBelow
  <1>6. CASE CliGet(p)
    <2>1. SharedAreOld /\ used' = used
      BY <1>6, SharedUnchanged DEF CliGet
    <2>2. CASE Stop(p)
      BY <1>1, <2>1, <2>2, StopNames, StopCreators
    <2>3. CASE ~Stop(p)
      <3>1. /\ pc' = [pc EXCEPT ![p] = "get"]
            /\ cli' = [cli EXCEPT ![p] = backlog[Task(p)]]
            /\ UNCHANGED <<job, copy, todo, snap>>
        BY <1>6, <2>3 DEF CliGet
      <3>2. \A q \in Procs : cli'[q] = cli[q] \/ (q = p /\ cli'[q] = backlog[Task(p)])
        BY <3>1 DEF Shape, OwnShape
      <3>3. NamesAreOld
        <4> SUFFICES ASSUME NEW t \in Tasks, NEW b \in Branches, Named(t, b)'
                     PROVE  Named(t, b)
          BY DEF NamesAreOld
        <4>1. CASE Names(backlog'[t], b) \/ registered'[t] = b
          BY <2>1, <4>1 DEF SharedAreOld
        <4>2. CASE \E q \in Procs : Names(snap'[q][t], b)
          BY <3>1, <4>2 DEF Named
        <4>3. CASE \E q \in Procs : Task(q)' = t /\ (Names(copy'[q], b) \/ Names(cli'[q], b))
          BY <3>1, <3>2, <4>3 DEF Named, Task
        <4>4. QED
          BY <4>1, <4>2, <4>3 DEF Named, Names
      <3>4. CreatorsStay
        BY <2>1, <3>1 DEF CreatorsStay, Cmd, Task, Early, Shape, OwnShape
      <3>5. QED
        BY <3>3, <3>4
    <2>4. QED
      BY <2>2, <2>3
  <1>7. CASE CliStore(p)
    <2>1. SharedAreOld /\ used' = used
      BY <1>7, HeldIsOld, StoredIsOld DEF CliStore, Update
    <2>2. QED
      BY <1>1, <1>7, <2>1, FinishNames DEF CliStore
  <1>8. QED
    BY <1>2, <1>3, <1>4, <1>5, <1>6, <1>7

LEMMA ArchiveNames ==
    ASSUME Shape, NEW p \in Procs,
           WriteHandoff(p) \/ MoveToArchive(p) \/ MoveBack(p)
    PROVE  NamesAreOld /\ CreatorsStay
  <1> USE DEF data, disk, gitVars
  <1>1. Fits(p, pc[p], copy[p]) /\ OwnShape /\ copy[p] \in Good \cup {Absent}
    BY DEF Shape, OwnShape
  <1>2. SharedAreOld /\ used' = used
    BY SharedUnchanged DEF WriteHandoff, MoveToArchive, MoveBack
  <1>3. copy[p] \in Good
    BY <1>1 DEF WriteHandoff, MoveToArchive, MoveBack, At, Fits, CopySteps, Takes
  <1>4. \A s, place : RecordIsOld(p, [copy[p] EXCEPT !.status = s, !.place = place])
    BY <1>3, HeldIsOld, EditsAreOld
  <1>5. CASE WriteHandoff(p)
    BY <1>1, <1>2, <1>5, FinishNames, GotoNames DEF WriteHandoff, Early
  <1>6. CASE Finish(p)
    BY <1>1, <1>2, <1>6, FinishNames
  <1>7. CASE MoveToArchive(p) /\ ~Finish(p)
    <2> DEFINE rec == [copy[p] EXCEPT !.status = "archived", !.place = Deeper(Where(copy[p]))]
    <2>1. PICK step \in {"check", "store"} : Take(p, step, rec)
      BY <1>7 DEF MoveToArchive
    <2>2. RecordIsOld(p, rec)
      BY <1>4
    <2> HIDE DEF rec
    <2>3. QED
      BY <1>1, <1>2, <2>1, <2>2, TakeNames, TakeCreators DEF Early
  <1>8. CASE MoveBack(p) /\ ~Finish(p)
    <2> DEFINE rec == [copy[p] EXCEPT !.status = "backlog", !.place = Shallower(Where(copy[p]))]
    <2>1. Take(p, "store", rec)
      BY <1>8 DEF MoveBack
    <2>2. RecordIsOld(p, rec)
      BY <1>4
    <2> HIDE DEF rec
    <2>3. QED
      BY <1>1, <1>2, <2>1, <2>2, TakeNames, TakeCreators DEF Early
  <1>9. QED
    BY <1>5, <1>6, <1>7, <1>8

LEMMA KeptNames ==
    ASSUME OwnShape, NEW p \in Procs, Kept(p), SharedAreOld, used' = used
    PROVE  NamesAreOld /\ CreatorsStay
  <1>1. Goto(p, "store") \/ Goto(p, "rmtickets") \/ Finish(p)
    BY DEF Kept
  <1>2. QED
    BY <1>1, FinishNames, GotoNames DEF Early

LEMMA RemoveNames ==
    ASSUME Shape, NEW p \in Procs,
           \/ CheckWorktree(p) \/ RemoveWorktree(p) \/ LogRemoved(p) \/ PruneBranch(p)
           \/ RemoveTickets(p) \/ RemoveRecord(p)
    PROVE  NamesAreOld /\ CreatorsStay
  <1> USE DEF data, disk, gitVars
  <1>1. Fits(p, pc[p], copy[p]) /\ OwnShape /\ copy[p] \in Good \cup {Absent}
    BY DEF Shape, OwnShape
  <1>2. CASE CheckWorktree(p)
    BY <1>1, <1>2, SharedUnchanged, KeptNames, GotoNames DEF CheckWorktree, Early
  <1>3. CASE RemoveWorktree(p)
    <2>1. registered' \in {registered, [registered EXCEPT ![Task(p)] = NoBranch]}
      BY <1>3 DEF RemoveWorktree, RemoveTree
    <2>2. SharedAreOld /\ used' = used
      <3>1. \A t \in Tasks : registered'[t] \in {registered[t], NoBranch}
        BY <2>1 DEF Shape, DiskShape, GitTypeOK
      <3>2. QED
        BY <1>3, <3>1, TaskLifecycleAssumption DEF RemoveWorktree, SharedAreOld, Named
    <2>3. CASE Kept(p)
      BY <1>1, <2>2, <2>3, KeptNames
    <2>4. CASE Finish(p)
      BY <1>1, <2>2, <2>4, FinishNames
    <2>5. CASE Goto(p, "logremoved")
      BY <1>1, <2>2, <2>5, GotoNames DEF Early
    <2>6. CASE \E step \in {"store", "logremoved"} : Take(p, step, [copy[p] EXCEPT !.worktree = FALSE])
      <3>1. CASE copy[p] = Absent
        <4>1. Cmd(p) = "prune"
          BY <1>1, <1>3, <3>1 DEF RemoveWorktree, At, Fits, CopySteps
        <4>2. Kept(p) \/ Finish(p)
          BY <1>3, <4>1 DEF RemoveWorktree
        <4>3. QED
          BY <2>3, <2>4, <4>2
      <3>2. CASE copy[p] # Absent
        <4>1. RecordIsOld(p, [copy[p] EXCEPT !.worktree = FALSE])
          BY <1>1, <3>2, HeldIsOld, EditsAreOld
        <4>2. QED
          BY <1>1, <2>2, <2>6, <4>1, TakeNames, TakeCreators DEF Early
      <3>3. QED
        BY <3>1, <3>2
    <2>7. QED
      BY <1>3, <2>3, <2>4, <2>5, <2>6 DEF RemoveWorktree
  <1>4. CASE LogRemoved(p)
    <2>1. Finish(p) \/ Goto(p, "rmtickets") \/ Goto(p, "prunebranch") \/ Goto(p, "store")
      BY <1>4 DEF LogRemoved
    <2>2. QED
      BY <1>1, <1>4, <2>1, SharedUnchanged, FinishNames, GotoNames DEF LogRemoved, Early
  <1>5. CASE PruneBranch(p)
    BY <1>1, <1>5, SharedUnchanged, GotoNames DEF PruneBranch, RemoveBranch, Early
  <1>6. CASE RemoveTickets(p)
    BY <1>1, <1>6, SharedUnchanged, GotoNames DEF RemoveTickets, Early
  <1>7. CASE RemoveRecord(p)
    <2>1. RecordIsOld(p, Absent)
      BY DEF RecordIsOld, Names
    <2>2. SharedAreOld /\ used' = used
      BY <1>7, <2>1, StoredIsOld DEF RemoveRecord
    <2>3. QED
      BY <1>1, <1>7, <2>2, FinishNames DEF RemoveRecord
  <1>8. QED
    BY <1>2, <1>3, <1>4, <1>5, <1>6, <1>7

LEMMA BulkNames ==
    ASSUME Shape, NEW p \in Procs,
           ListTasks(p) \/ ListOrphans(p) \/ NextTask(p) \/ Restore(p)
    PROVE  NamesAreOld /\ CreatorsStay
  <1> USE DEF data, disk, gitVars
  <1>1. Fits(p, pc[p], copy[p]) /\ OwnShape /\ copy[p] \in Good \cup {Absent}
    BY DEF Shape, OwnShape
  <1>2. CASE Stop(p) /\ (ListTasks(p) \/ ListOrphans(p))
    BY <1>1, <1>2, SharedUnchanged, StopNames, StopCreators DEF ListTasks, ListOrphans
  <1>3. CASE ~Stop(p) /\ (ListTasks(p) \/ ListOrphans(p))
    <2>1. PICK step \in {"orphans", "next"} : pc' = [pc EXCEPT ![p] = step]
      BY <1>3 DEF ListTasks, ListOrphans
    <2>2. UNCHANGED <<job, copy, cli, backlog, registered, used>>
      BY <1>3 DEF ListTasks, ListOrphans
    <2>3. snap' \in {snap, [snap EXCEPT ![p] = backlog], [snap EXCEPT ![p] = snap[p]]}
      BY <1>3 DEF ListTasks, ListOrphans
    <2>4. \A q \in Procs, t \in Tasks : snap'[q][t] \in {snap[q][t], backlog[t]}
      BY <1>1, <2>3 DEF OwnShape
    <2>5. NamesAreOld
      BY <2>2, <2>4 DEF NamesAreOld, Named, Names, Task
    <2>6. CreatorsStay
      BY <1>1, <2>1, <2>2 DEF CreatorsStay, Cmd, Task, Early, OwnShape
    <2>7. QED
      BY <2>5, <2>6
  <1>4. CASE NextTask(p)
    <2>1. PICK t \in todo[p] :
            /\ job' = [job EXCEPT ![p].task = t]
            /\ copy' = [copy EXCEPT ![p] = IF Cmd(p) = "reconcile" THEN snap[p][t] ELSE Absent]
      BY <1>4 DEF NextTask
    <2>2. /\ UNCHANGED <<cli, snap, backlog, registered, used>>
          /\ t \in Tasks /\ Cmd(p) # "create" /\ cli[p] = Absent
      BY <1>1, <1>4 DEF NextTask, At, Fits, Takes, OwnShape
    <2>3. \A q \in Procs : q # p => job'[q] = job[q] /\ copy'[q] = copy[q]
      BY <1>1, <2>1 DEF OwnShape
    <2>4. job'[p].task = t /\ job'[p].cmd = job[p].cmd /\ copy'[p] \in {snap[p][t], Absent}
      BY <1>1, <2>1 DEF OwnShape, Jobs
    <2>5. NamesAreOld
      <3> SUFFICES ASSUME NEW u \in Tasks, NEW b \in Branches, Named(u, b)'
                   PROVE  Named(u, b)
        BY DEF NamesAreOld
      <3>1. CASE Names(backlog'[u], b) \/ registered'[u] = b \/ \E q \in Procs : Names(snap'[q][u], b)
        BY <2>2, <3>1 DEF Named
      <3>2. CASE \E q \in Procs : Task(q)' = u /\ (Names(copy'[q], b) \/ Names(cli'[q], b))
        <4>1. PICK q \in Procs : Task(q)' = u /\ (Names(copy'[q], b) \/ Names(cli'[q], b))
          BY <3>2
        <4>2. CASE q # p
          BY <2>2, <2>3, <4>1, <4>2 DEF Named, Task
        <4>3. CASE q = p
          BY <2>2, <2>4, <4>1, <4>3 DEF Named, Task, Names
        <4>4. QED
          BY <4>2, <4>3
      <3>3. QED
        BY <3>1, <3>2 DEF Named, Names
    <2>6. CreatorsStay
      <3>1. PICK step \in {"restore", "check", "get"} : pc' = [pc EXCEPT ![p] = step]
        BY <1>4 DEF NextTask
      <3>2. QED
        BY <1>1, <2>2, <2>3, <2>4, <3>1 DEF CreatorsStay, Cmd, Task, Early, OwnShape
    <2>7. QED
      BY <2>5, <2>6
  <1>5. CASE Restore(p)
    <2>1. copy[p] # Absent /\ Task(p) \in Tasks
      BY <1>1, <1>5 DEF Restore, At, Fits, Takes, CopySteps, Untargeted
    <2>2. registered' \in {registered, [registered EXCEPT ![Task(p)] = copy[p].branch]}
      BY <1>5 DEF Restore, AddTree
    <2>3. \A t \in Tasks : registered'[t] = registered[t] \/ (t = Task(p) /\ registered'[t] = copy[p].branch)
      BY <2>2 DEF Shape, DiskShape, GitTypeOK
    <2>4. SharedAreOld /\ used' = used
      BY <1>5, <2>1, <2>3 DEF Restore, SharedAreOld, Named, Names
    <2>5. QED
      BY <1>1, <1>5, <2>4, FinishNames DEF Restore
  <1>6. QED
    BY <1>2, <1>3, <1>4, <1>5

-----------------------------------------------------------------------------

LEMMA EarlyCreates ==
    ASSUME Shape, NEW p \in Procs, pc[p] \in Early
    PROVE  Cmd(p) = "create" /\ Task(p) \in Tasks
  <1>1. Fits(p, pc[p], copy[p])
    BY DEF Shape, OwnShape
  <1>2. QED
    BY <1>1 DEF Fits, Takes, Early, Untargeted

LEMMA OldNamesKeepBranches ==
    ASSUME Shape', BranchInv, NamesAreOld, CreatorsStay
    PROVE  BranchInv'
  <1>1. \A t \in Tasks : \A b, c \in Branches : Named(t, b)' /\ Named(t, c)' => b = c
    BY DEF BranchInv, NamesAreOld
  <1>2. ASSUME NEW p \in Procs, pc'[p] \in Early PROVE Unnamed(Task(p))'
    <2>1. Fits(p, pc[p], copy[p])'
      BY DEF Shape, OwnShape
    <2>2. Cmd(p)' = "create" /\ Task(p)' \in Tasks
      BY <1>2, <2>1 DEF Fits, Takes, Early, Untargeted
    <2>3. PICK t \in Tasks : t = Task(p)'
      BY <2>2
    <2>4. pc[p] \in Early /\ t = Task(p)
      BY <1>2, <2>2, <2>3 DEF CreatorsStay
    <2>5. \A b \in Branches : ~Named(t, b)
      BY <2>4 DEF BranchInv, Unnamed
    <2>6. \A b \in Branches : ~Named(t, b)'
      BY <2>5 DEF NamesAreOld
    <2>7. QED
      BY <2>3, <2>6 DEF Unnamed, Named
  <1>3. \A p, q \in Procs : Cmd(p)' = "create" /\ Cmd(q)' = "create" /\ Task(p)' = Task(q)' => p = q
    BY DEF BranchInv, CreatorsStay
  <1>4. \A p \in Procs : Cmd(p)' = "create" => Task(p)' \in used'
    BY DEF BranchInv, CreatorsStay
  <1>5. \A t \in Tasks \ used' : Unnamed(t)'
    BY DEF BranchInv, CreatorsStay, Unnamed, NamesAreOld
  <1>6. QED
    BY <1>1, <1>2, <1>3, <1>4, <1>5 DEF BranchInv

LEMMA PickKeepsBranches ==
    ASSUME Shape, Shape', BranchInv, NEW p \in Procs, PickBranch(p)
    PROVE  BranchInv'
  <1> USE DEF data, disk, gitVars
  <1>1. Fits(p, pc[p], copy[p]) /\ OwnShape /\ copy[p] \in Good \cup {Absent} /\ pc[p] = "branch"
    BY DEF Shape, OwnShape, PickBranch, At
  <1>2. copy[p] \in Good /\ Task(p) \in Tasks
    BY <1>1 DEF Fits, CopySteps, Takes, Untargeted
  <1>3. SharedAreOld /\ used' = used
    BY SharedUnchanged DEF PickBranch
  <1>4. CASE Goto(p, "undoticket")
    <2>1. NamesAreOld /\ CreatorsStay
      BY <1>1, <1>3, <1>4, GotoNames DEF Early
    <2>2. QED
      BY <2>1, OldNamesKeepBranches
  <1>5. CASE ~Goto(p, "undoticket")
    <2>1. PICK b \in Branches : Take(p, "worktree", [copy[p] EXCEPT !.branch = b])
      BY <1>2, <1>5, TaskLifecycleAssumption DEF PickBranch
    <2>2. copy'[p].branch = b /\ \A q \in Procs : q # p => copy'[q] = copy[q]
      BY <1>1, <1>2, <2>1, GoodEdits DEF Take, OwnShape
    <2>3. UNCHANGED <<job, cli, snap, backlog, registered, used>>
      BY <2>1 DEF PickBranch, Take
    <2>4. \A t \in Tasks : \A c \in Branches :
            Named(t, c)' => Named(t, c) \/ (t = Task(p) /\ c = b)
      BY <2>2, <2>3 DEF Named, Names, Task
    <2>5. Unnamed(Task(p))
      BY <1>1 DEF BranchInv, Early
    <2>6. \A t \in Tasks : \A c, d \in Branches : Named(t, c)' /\ Named(t, d)' => c = d
      BY <2>4, <2>5 DEF BranchInv, Unnamed
    <2>7. pc' = [pc EXCEPT ![p] = "worktree"]
      BY <2>1 DEF Take
    <2>8. ASSUME NEW q \in Procs, pc'[q] \in Early PROVE Unnamed(Task(q))'
      <3>1. q # p /\ pc[q] \in Early
        BY <1>1, <2>7, <2>8 DEF OwnShape, Early
      <3>2. Cmd(p) = "create" /\ Cmd(q) = "create" /\ Task(q) \in Tasks
        BY <1>1, <3>1, EarlyCreates DEF Early
      <3>3. Task(q) # Task(p)
        BY <3>1, <3>2 DEF BranchInv
      <3>4. PICK t \in Tasks : t = Task(q)
        BY <3>2
      <3>5. \A c \in Branches : ~Named(t, c)
        BY <3>1, <3>4 DEF BranchInv, Unnamed
      <3>6. \A c \in Branches : ~Named(t, c)'
        BY <2>4, <3>3, <3>4, <3>5
      <3>7. QED
        BY <2>3, <3>4, <3>6 DEF Unnamed, Named, Task
    <2>9. \A t \in Tasks \ used' : Unnamed(t)'
      <3>1. Task(p) \in used
        BY <1>1, EarlyCreates DEF BranchInv, Early
      <3>2. QED
        BY <2>3, <2>4, <3>1 DEF BranchInv, Unnamed
    <2>10. QED
      BY <2>3, <2>6, <2>8, <2>9 DEF BranchInv, Cmd, Task
  <1>6. QED
    BY <1>4, <1>5

LEMMA BeginKeepsBranches ==
    ASSUME Shape, Shape', BranchInv, NEW p \in Procs, Begin(p)
    PROVE  BranchInv'
  <1> USE DEF data, disk, gitVars
  <1>1. PICK j \in Requests :
          /\ job' = [job EXCEPT ![p] = j]
          /\ pc' = [pc EXCEPT ![p] = FirstStep(j.cmd)]
          /\ used' = used \cup (IF j.cmd = "create" THEN {j.task} ELSE {})
    BY DEF Begin
  <1>2. /\ j.cmd = "create" => j.task \in Tasks \ used
        /\ FirstStep(j.cmd) \in Early => j.cmd = "create"
    BY FirstStepFits DEF Shape, DataShape, FirstStep, Lists, Early
  <1>3. UNCHANGED <<backlog, registered, copy, cli, snap>> /\ pc[p] = "idle"
    BY DEF Begin, At
  <1>4. copy[p] = Absent /\ cli[p] = Absent
    BY <1>3 DEF Shape, OwnShape, Fits, Takes, Untargeted
  <1>5. \A q \in Procs : q # p => job'[q] = job[q] /\ pc'[q] = pc[q]
    BY <1>1 DEF Shape, OwnShape
  <1>6. job'[p] = j /\ pc'[p] = FirstStep(j.cmd)
    BY <1>1 DEF Shape, OwnShape
  <1>7. NamesAreOld
    BY <1>3, <1>4, <1>5 DEF NamesAreOld, Named, Names, Task
  <1>8. \A t \in Tasks : \A b, c \in Branches : Named(t, b)' /\ Named(t, c)' => b = c
    BY <1>7 DEF BranchInv, NamesAreOld
  <1>9. ASSUME NEW q \in Procs, pc'[q] \in Early PROVE Unnamed(Task(q))'
    <2>1. PICK t \in Tasks : t = Task(q)' /\ Unnamed(t)
      <3>1. CASE q = p
        BY <1>2, <1>6, <1>9, <3>1 DEF BranchInv, Task
      <3>2. CASE q # p
        BY <1>5, <1>9, <3>2, EarlyCreates DEF BranchInv, Task
      <3>3. QED
        BY <3>1, <3>2
    <2>2. \A b \in Branches : ~Named(t, b)'
      BY <1>7, <2>1 DEF NamesAreOld, Unnamed
    <2>3. QED
      BY <2>1, <2>2 DEF Unnamed, Named
  <1>10. ASSUME NEW q \in Procs, NEW r \in Procs, Cmd(q)' = "create", Cmd(r)' = "create",
                Task(q)' = Task(r)'
         PROVE  q = r
    BY <1>1, <1>2, <1>5, <1>6, <1>10 DEF BranchInv, Cmd, Task
  <1>11. \A q \in Procs : Cmd(q)' = "create" => Task(q)' \in used'
    BY <1>1, <1>5, <1>6 DEF BranchInv, Cmd, Task
  <1>12. \A t \in Tasks \ used' : Unnamed(t)'
    BY <1>1, <1>7 DEF BranchInv, Unnamed, NamesAreOld
  <1>13. QED
    BY <1>8, <1>9, <1>10, <1>11, <1>12 DEF BranchInv

LEMMA BranchesPreserved ==
    ASSUME Shape, Shape', BranchInv, [Next]_vars
    PROVE  BranchInv'
  <1>1. ASSUME NEW p \in Procs, Step(p) PROVE BranchInv'
    <2>1. CASE PickBranch(p)
      BY <2>1, PickKeepsBranches
    <2>2. CASE ~PickBranch(p)
      <3>1. NamesAreOld /\ CreatorsStay
        BY <1>1, <2>2, CreateNames, LoadNames, ArchiveNames, RemoveNames, BulkNames DEF Step
      <3>2. QED
        BY <3>1, OldNamesKeepBranches
    <2>3. QED
      BY <2>1, <2>2
  <1>2. ASSUME NEW p \in Procs, Crash(p) PROVE BranchInv'
    <2>1. SharedAreOld /\ used' = used
      BY <1>2, SharedUnchanged DEF Crash, data, disk, gitVars
    <2>2. NamesAreOld /\ CreatorsStay
      BY <1>2, <2>1, StopNames, StopCreators DEF Crash, Shape
    <2>3. QED
      BY <2>2, OldNamesKeepBranches
  <1>3. ASSUME NEW t \in Tasks, User(t) PROVE BranchInv'
    <2>1. UNCHANGED <<backlog, registered, copy, cli, snap, job, pc, used>>
      BY <1>3 DEF User, Edit, Push, DeleteDirectory, data, own
    <2>2. NamesAreOld /\ CreatorsStay
      BY <2>1 DEF NamesAreOld, CreatorsStay, Named, Names, Task, Cmd
    <2>3. QED
      BY <2>2, OldNamesKeepBranches
  <1>4. CASE UNCHANGED vars
    <2>1. UNCHANGED <<backlog, registered, copy, cli, snap, job, pc, used>>
      BY <1>4 DEF vars, own, data, disk, gitVars
    <2>2. NamesAreOld /\ CreatorsStay
      BY <2>1 DEF NamesAreOld, CreatorsStay, Named, Names, Task, Cmd
    <2>3. QED
      BY <2>2, OldNamesKeepBranches
  <1>5. QED
    BY <1>1, <1>2, <1>3, <1>4, BeginKeepsBranches DEF Next

LEMMA BranchesInit == ASSUME Init PROVE BranchInv
  <1>1. \A t \in Tasks : Unnamed(t)
    BY TaskLifecycleAssumption DEF Init, GitInit, Unnamed, Named, Names, Nothing
  <1>2. \A p \in Procs : pc[p] \notin Early /\ Cmd(p) # "create"
    BY DEF Init, Early, Cmd, NoJob
  <1>3. QED
    BY <1>1, <1>2 DEF BranchInv, Unnamed

(* Whatever commands race, fail, crash or bring back worktrees, and        *)
(* whatever users delete meanwhile, a worktree that a record claims is on  *)
(* the branch that the record names.                                       *)
THEOREM BranchesMatch == Spec => []BranchOfItsTask
  <1>1. ASSUME Shape, BranchInv PROVE BranchOfItsTask
    <2> SUFFICES ASSUME NEW t \in Known(backlog), backlog[t].worktree, tree[t] = "present"
                 PROVE  registered[t] = backlog[t].branch
      BY DEF BranchOfItsTask
    <2>1. t \in Tasks /\ backlog[t] \in Good
      BY <1>1 DEF Known, Shape, DataShape
    <2>2. backlog[t].branch \in Branches /\ Named(t, backlog[t].branch)
      BY <2>1, GoodEdits DEF Good, Named, Names
    <2>3. registered[t] \in Branches /\ Named(t, registered[t])
      BY <1>1, <2>1 DEF Shape, DiskShape, Named
    <2>4. QED
      BY <1>1, <2>1, <2>2, <2>3 DEF BranchInv
  <1>2. QED
    BY <1>1, ShapeInit, ShapePreserved, BranchesInit, BranchesPreserved, PTL DEF Spec

-----------------------------------------------------------------------------
(* Unsaved work: the check of an unforced removal stays true until the     *)
(* removal, when users edit only while none is under way.                  *)

WorkInv ==
    /\ discarded = {}
    /\ \A p \in Procs : pc[p] = "remove" /\ ~Forced(p) => Task(p) \notin unsaved

(* A step that makes no work unsaved, and sends no process to a removal    *)
(* that did not pass the check.                                            *)
Careful ==
    /\ unsaved' \subseteq unsaved
    /\ \A q \in Procs : pc'[q] = "remove" =>
          /\ job'[q] = job[q]
          /\ pc[q] = "remove" \/ Forced(q) \/ Task(q) \notin unsaved

LEMMA TakeIsCareful ==
    ASSUME OwnShape, NEW p \in Procs, NEW step, NEW rec, Take(p, step, rec), step # "remove",
           unsaved' \subseteq unsaved
    PROVE  Careful
  BY DEF Take, OwnShape, Careful

LEMMA FinishIsCareful ==
    ASSUME OwnShape, NEW p \in Procs, Finish(p) \/ Stop(p), unsaved' \subseteq unsaved
    PROVE  Careful
  <1>1. CASE Stop(p)
    BY <1>1 DEF Stop, OwnShape, Careful
  <1>2. QED
    BY <1>1, TakeIsCareful DEF Finish

LEMMA CreateIsCareful ==
    ASSUME Shape, NEW p \in Procs,
           \/ AddRecord(p) \/ Bootstrap(p) \/ PickBranch(p) \/ MakeWorktree(p) \/ StoreNew(p)
           \/ LogCreated(p) \/ UndoTree(p) \/ UndoTicket(p) \/ UndoRecord(p)
    PROVE  Careful /\ discarded' = discarded
  <1> USE DEF data, disk, gitVars, Shape
  <1>1. unsaved' \subseteq unsaved /\ discarded' = discarded
    BY DEF AddRecord, Bootstrap, PickBranch, MakeWorktree, StoreNew, LogCreated, UndoTree,
           UndoTicket, UndoRecord, AddTree, RemoveTree
  <1>2. CASE AddRecord(p)
    BY <1>1, <1>2, TakeIsCareful, FinishIsCareful DEF AddRecord
  <1>3. CASE Bootstrap(p)
    BY <1>1, <1>3, TakeIsCareful DEF Bootstrap, Goto
  <1>4. CASE PickBranch(p) \/ MakeWorktree(p)
    BY <1>1, <1>4, TakeIsCareful DEF PickBranch, MakeWorktree, Goto
  <1>5. CASE StoreNew(p) \/ UndoTree(p) \/ UndoTicket(p)
    BY <1>1, <1>5, TakeIsCareful DEF StoreNew, UndoTree, UndoTicket, Goto
  <1>6. CASE LogCreated(p) \/ UndoRecord(p)
    BY <1>1, <1>6, FinishIsCareful DEF LogCreated, UndoRecord
  <1>7. QED
    BY <1>1, <1>2, <1>3, <1>4, <1>5, <1>6

LEMMA LoadIsCareful ==
    ASSUME Shape, NEW p \in Procs,
           \/ Get(p) \/ Start(p) \/ Store(p) \/ Render(p) \/ CliGet(p) \/ CliStore(p)
    PROVE  Careful /\ discarded' = discarded
  <1> USE DEF data, disk, gitVars, Shape
  <1>1. unsaved' \subseteq unsaved /\ discarded' = discarded
    BY DEF Get, Start, Store, Render, CliGet, CliStore, WriteBelow
  <1>2. CASE Get(p)
    <2>1. \A cmd, rec : StepAfterGet(cmd, rec) # "remove"
      BY DEF StepAfterGet
    <2>2. QED
      BY <1>1, <1>2, <2>1, TakeIsCareful, FinishIsCareful DEF Get
  <1>3. CASE Start(p)
    BY <1>1, <1>3, TakeIsCareful, FinishIsCareful DEF Start, Goto
  <1>4. CASE Store(p)
    <2>1. StepAfterStore(p) # "remove"
      BY DEF StepAfterStore
    <2>2. QED
      BY <1>1, <1>4, <2>1, TakeIsCareful, FinishIsCareful DEF Store, Goto
  <1>5. CASE Render(p) \/ CliStore(p)
    BY <1>1, <1>5, FinishIsCareful DEF Render, CliStore
  <1>6. CASE CliGet(p)
    <2>1. CASE Stop(p)
      BY <1>1, <2>1, FinishIsCareful
    <2>2. CASE ~Stop(p)
      BY <1>1, <1>6, <2>2 DEF CliGet, OwnShape, Careful
    <2>3. QED
      BY <1>1, <2>1, <2>2
  <1>7. QED
    BY <1>1, <1>2, <1>3, <1>4, <1>5, <1>6

LEMMA ArchiveIsCareful ==
    ASSUME Shape, NEW p \in Procs,
           \/ WriteHandoff(p) \/ MoveToArchive(p) \/ MoveBack(p) \/ CheckWorktree(p)
           \/ LogRemoved(p) \/ PruneBranch(p) \/ RemoveTickets(p) \/ RemoveRecord(p)
    PROVE  Careful /\ discarded' = discarded
  <1> USE DEF data, disk, gitVars, Shape
  <1>1. unsaved' \subseteq unsaved /\ discarded' = discarded
    BY DEF WriteHandoff, MoveToArchive, MoveBack, CheckWorktree, LogRemoved, PruneBranch,
           RemoveTickets, RemoveRecord, RemoveBranch
  <1>2. CASE WriteHandoff(p)
    BY <1>1, <1>2, TakeIsCareful, FinishIsCareful DEF WriteHandoff, Goto
  <1>3. CASE MoveToArchive(p)
    BY <1>1, <1>3, TakeIsCareful, FinishIsCareful DEF MoveToArchive
  <1>4. CASE MoveBack(p)
    BY <1>1, <1>4, TakeIsCareful, FinishIsCareful DEF MoveBack
  <1>5. CASE CheckWorktree(p)
    <2>1. CASE Kept(p)
      BY <1>1, <2>1, TakeIsCareful, FinishIsCareful DEF Kept, Goto
    <2>2. CASE ~Kept(p)
      <3>1. PassesCheck(Task(p), Forced(p)) /\ Goto(p, "remove")
        BY <1>5, <2>2 DEF CheckWorktree
      <3>2. QED
        BY <1>1, <3>1 DEF PassesCheck, Goto, Take, OwnShape, Careful
    <2>3. QED
      BY <1>1, <2>1, <2>2
  <1>6. CASE LogRemoved(p)
    <2>1. Finish(p) \/ \E step \in {"rmtickets", "prunebranch", "store"} : Goto(p, step)
      BY <1>6 DEF LogRemoved
    <2>2. QED
      BY <1>1, <2>1, TakeIsCareful, FinishIsCareful DEF Goto
  <1>7. CASE PruneBranch(p) \/ RemoveTickets(p)
    BY <1>1, <1>7, TakeIsCareful DEF PruneBranch, RemoveTickets, Goto
  <1>8. CASE RemoveRecord(p)
    BY <1>1, <1>8, FinishIsCareful DEF RemoveRecord
  <1>9. QED
    BY <1>1, <1>2, <1>3, <1>4, <1>5, <1>6, <1>7, <1>8

LEMMA BulkIsCareful ==
    ASSUME Shape, NEW p \in Procs,
           ListTasks(p) \/ ListOrphans(p) \/ NextTask(p) \/ Restore(p)
    PROVE  Careful /\ discarded' = discarded
  <1> USE DEF data, disk, gitVars, Shape
  <1>1. unsaved' \subseteq unsaved /\ discarded' = discarded
    BY DEF ListTasks, ListOrphans, NextTask, Restore, AddTree
  <1>2. CASE Finish(p) \/ Stop(p)
    BY <1>1, <1>2, FinishIsCareful
  <1>3. CASE ~Stop(p) /\ (ListTasks(p) \/ ListOrphans(p))
    <2>1. PICK step \in {"orphans", "next"} : pc' = [pc EXCEPT ![p] = step]
      BY <1>3 DEF ListTasks, ListOrphans
    <2>2. job' = job
      BY <1>3 DEF ListTasks, ListOrphans
    <2>3. QED
      BY <1>1, <2>1, <2>2 DEF OwnShape, Careful
  <1>4. CASE NextTask(p)
    <2>1. PICK step \in {"restore", "check", "get"} : pc' = [pc EXCEPT ![p] = step]
      BY <1>4 DEF NextTask
    <2>2. \A q \in Procs : q # p => job'[q] = job[q]
      BY <1>4 DEF NextTask, OwnShape
    <2>3. QED
      BY <1>1, <2>1, <2>2 DEF OwnShape, Careful
  <1>5. QED
    BY <1>1, <1>2, <1>3, <1>4 DEF Restore

LEMMA RemoveIsCareful ==
    ASSUME Shape, WorkInv, NEW p \in Procs, RemoveWorktree(p)
    PROVE  Careful /\ discarded' = discarded
  <1> USE DEF data, disk, gitVars, Shape
  <1>1. unsaved' \subseteq unsaved
    BY DEF RemoveWorktree, RemoveTree
  <1>2. discarded' = discarded
    <2>1. Forced(p) \/ Task(p) \notin unsaved
      BY DEF RemoveWorktree, At, WorkInv
    <2>2. QED
      BY <2>1 DEF RemoveWorktree, WorkInv
  <1>3. CASE Kept(p)
    BY <1>1, <1>2, <1>3, TakeIsCareful, FinishIsCareful DEF Kept, Goto
  <1>4. CASE ~Kept(p)
    <2>1. \/ Finish(p)
          \/ Take(p, "store", [copy[p] EXCEPT !.worktree = FALSE])
          \/ Take(p, "logremoved", [copy[p] EXCEPT !.worktree = FALSE])
          \/ Take(p, "logremoved", copy[p])
      BY <1>4 DEF RemoveWorktree, Goto
    <2>2. QED
      BY <1>1, <1>2, <2>1, TakeIsCareful, FinishIsCareful
  <1>5. QED
    BY <1>3, <1>4

LEMMA CarefulKeepsWork ==
    ASSUME WorkInv, Careful, discarded' = discarded
    PROVE  WorkInv'
  BY DEF WorkInv, Careful, Forced, Cmd, Task

LEMMA WorkPreserved ==
    ASSUME QuietEdits \/ "edit" \notin Outside, Shape, WorkInv, [Next]_vars
    PROVE  WorkInv'
  <1>1. ASSUME NEW p \in Procs, Step(p) PROVE WorkInv'
    BY <1>1, CreateIsCareful, LoadIsCareful, ArchiveIsCareful, RemoveIsCareful,
       BulkIsCareful, CarefulKeepsWork DEF Step
  <1>2. ASSUME NEW p \in Procs, Begin(p) PROVE WorkInv'
    <2>1. PICK j \in Requests :
            /\ job' = [job EXCEPT ![p] = j]
            /\ pc' = [pc EXCEPT ![p] = FirstStep(j.cmd)]
      BY <1>2 DEF Begin
    <2>2. FirstStep(j.cmd) # "remove"
      BY DEF FirstStep
    <2>3. Careful /\ discarded' = discarded
      BY <1>2, <2>1, <2>2 DEF Begin, Careful, Shape, OwnShape, disk, gitVars
    <2>4. QED
      BY <2>3, CarefulKeepsWork
  <1>3. ASSUME NEW p \in Procs, Crash(p) PROVE WorkInv'
    BY <1>3, FinishIsCareful, CarefulKeepsWork DEF Crash, disk, gitVars, Shape
  <1>4. ASSUME NEW t \in Tasks, User(t) PROVE WorkInv'
    <2>1. UNCHANGED <<pc, job, discarded>>
      BY <1>4 DEF User, own
    <2>2. CASE Edit(t) /\ "edit" \in Outside
      BY <1>4, <2>1, <2>2 DEF User, Edit, Push, DeleteDirectory, At, WorkInv
    <2>3. CASE ~(Edit(t) /\ "edit" \in Outside)
      BY <1>4, <2>1, <2>3 DEF User, Push, DeleteDirectory, WorkInv, Forced, Cmd, Task
    <2>4. QED
      BY <2>2, <2>3
  <1>5. CASE UNCHANGED vars
    BY <1>5 DEF vars, own, disk, gitVars, WorkInv, Forced, Cmd, Task
  <1>6. QED
    BY <1>1, <1>2, <1>3, <1>4, <1>5 DEF Next

(* Removing a worktree without force takes no uncommitted or unpushed work,*)
(* however removals, commands and crashes interleave, when no user edits   *)
(* between a removal's check and the removal.                              *)
THEOREM WorkSurvives ==
    ASSUME QuietEdits \/ "edit" \notin Outside
    PROVE  Spec => []WorkIsKept
  <1>1. ASSUME Init PROVE WorkInv
    BY <1>1 DEF Init, WorkInv
  <1>2. WorkInv => WorkIsKept
    BY DEF WorkInv, WorkIsKept
  <1>3. QED
    BY <1>1, <1>2, ShapeInit, ShapePreserved, WorkPreserved, PTL DEF Spec

-----------------------------------------------------------------------------
(* The ticket directories, for any number of tasks and processes: a task   *)
(* that was created keeps exactly one, whoever moves it.                   *)

Placed(rec) == rec # Absent /\ rec.place # Absent

(* Nobody but the process that makes the task holds a record of it that    *)
(* says where its ticket directory is.                                     *)
Unseen(t) ==
    /\ ~Placed(backlog[t])
    /\ \A p \in Procs : ~Placed(snap[p][t])
    /\ \A p \in Procs : Task(p) = t =>
          ~Placed(cli[p]) /\ (Placed(copy[p]) => Cmd(p) = "create")

Before == {"add", "bootstrap"}
Between == {"branch", "worktree", "storenew"}
Making == Before \cup Between \cup {"undotree", "undoticket", "undorecord"}

Deleting(t) == \E p \in Procs : pc[p] = "rmrecord" /\ Task(p) = t

TaskTickets(t) ==
    /\ \A x, y \in tickets[t] : x = y
    /\ tickets[t] = {} => backlog[t] = Absent \/ Deleting(t) \/ Unseen(t)
    /\ \A p \in Procs : pc[p] \in Making /\ Task(p) = t =>
          /\ Unseen(t) /\ tickets[t] \subseteq {New}
          /\ pc[p] \in Before => tickets[t] = {}
          /\ pc[p] \in Between => tickets[t] = {New}
    /\ t \notin used => Unseen(t) /\ tickets[t] = {}

TicketInv == \A t \in Tasks : TaskTickets(t)

(* A step that leaves the task's directory alone and tells nobody of it.   *)
Quiet(p, t) ==
    /\ tickets'[t] = tickets[t] /\ used' = used
    /\ backlog[t] = Absent => backlog'[t] = Absent \/ Unseen(t)
    /\ Unseen(t) => ~Placed(backlog'[t])
    /\ pc[p] = "rmrecord" /\ Task(p) = t => backlog'[t] = Absent

(* A step of the creation to one that expects the same directories.        *)
Follows(from, to) ==
    /\ to \in Making => from \in Making
    /\ to \in Before => from \in Before
    /\ to \in Between => from \in Between

LEMMA TakeUnseen ==
    ASSUME OwnShape, NEW p \in Procs, NEW step, NEW rec, Take(p, step, rec),
           NEW t \in Tasks, Unseen(t), ~Placed(backlog'[t]),
           Task(p) = t /\ Placed(rec) => Cmd(p) = "create"
    PROVE  Unseen(t)'
  <1>1. \A q \in Procs : copy'[q] = IF q = p THEN rec ELSE copy[q]
    BY DEF Take, OwnShape
  <1>2. UNCHANGED <<job, cli, snap>>
    BY DEF Take
  <1>3. QED
    BY <1>1, <1>2 DEF Unseen, Placed, Task, Cmd

LEMMA StopUnseen ==
    ASSUME OwnShape, NEW p \in Procs, Stop(p), NEW t \in Tasks, Unseen(t), ~Placed(backlog'[t])
    PROVE  Unseen(t)'
  <1>1. \A q \in Procs : q # p => /\ copy'[q] = copy[q] /\ cli'[q] = cli[q]
                                  /\ snap'[q] = snap[q] /\ job'[q] = job[q]
    BY DEF Stop, OwnShape
  <1>2. copy'[p] = Absent /\ cli'[p] = Absent /\ snap'[p][t] = Absent
    BY DEF Stop, OwnShape, Nothing
  <1>3. QED
    BY <1>1, <1>2 DEF Unseen, Placed, Task, Cmd

(* What a quiet step of p preserves, once what p knows is preserved.       *)
LEMMA QuietKeeps ==
    ASSUME NEW p \in Procs, NEW t \in Tasks, TaskTickets(t), Quiet(p, t),
           Unseen(t) => Unseen(t)',
           \A q \in Procs : q # p => pc'[q] = pc[q] /\ job'[q] = job[q],
           pc'[p] \in Making => job'[p] = job[p],
           Follows(pc[p], pc'[p])
    PROVE  TaskTickets(t)'
  <1>1. \A x, y \in tickets'[t] : x = y
    BY DEF TaskTickets, Quiet
  <1>2. tickets'[t] = {} => backlog'[t] = Absent \/ Deleting(t)' \/ Unseen(t)'
    <2>1. CASE Deleting(t) /\ ~(pc[p] = "rmrecord" /\ Task(p) = t)
      <3>1. PICK q \in Procs : q # p /\ pc[q] = "rmrecord" /\ Task(q) = t
        BY <2>1 DEF Deleting
      <3>2. pc'[q] = "rmrecord" /\ Task(q)' = t
        BY <3>1 DEF Task
      <3>3. QED
        BY <3>2 DEF Deleting
    <2>2. CASE ~(Deleting(t) /\ ~(pc[p] = "rmrecord" /\ Task(p) = t))
      BY <2>2 DEF TaskTickets, Quiet, Deleting
    <2>3. QED
      BY <2>1, <2>2
  <1>3. ASSUME NEW q \in Procs, pc'[q] \in Making, Task(q)' = t
        PROVE  /\ Unseen(t)' /\ tickets'[t] \subseteq {New}
               /\ pc'[q] \in Before => tickets'[t] = {}
               /\ pc'[q] \in Between => tickets'[t] = {New}
    <2>1. Task(q) = t /\ Follows(pc[q], pc'[q])
      BY <1>3 DEF Task, Follows
    <2>2. QED
      BY <1>3, <2>1 DEF TaskTickets, Quiet, Follows
  <1>4. t \notin used' => Unseen(t)' /\ tickets'[t] = {}
    BY DEF TaskTickets, Quiet
  <1>5. QED
    BY <1>1, <1>2, <1>3, <1>4 DEF TaskTickets

LEMMA TakeQuiet ==
    ASSUME OwnShape, NEW p \in Procs, NEW step, NEW rec, Take(p, step, rec),
           NEW t \in Tasks, TaskTickets(t), Quiet(p, t), Follows(pc[p], step),
           Unseen(t) /\ Task(p) = t /\ Placed(rec) => Cmd(p) = "create"
    PROVE  TaskTickets(t)'
  <1>1. Unseen(t) => Unseen(t)'
    BY TakeUnseen DEF Quiet
  <1>2. /\ pc'[p] = step /\ job' = job
        /\ \A q \in Procs : q # p => pc'[q] = pc[q]
    BY DEF Take, OwnShape
  <1>3. QED
    BY <1>1, <1>2, QuietKeeps

LEMMA GotoQuiet ==
    ASSUME OwnShape, NEW p \in Procs, NEW step, Goto(p, step),
           NEW t \in Tasks, TaskTickets(t), Quiet(p, t), Follows(pc[p], step)
    PROVE  TaskTickets(t)'
  <1>1. Unseen(t) /\ Task(p) = t /\ Placed(copy[p]) => Cmd(p) = "create"
    BY DEF Unseen
  <1>2. QED
    BY <1>1, TakeQuiet DEF Goto

LEMMA StopQuiet ==
    ASSUME OwnShape, NEW p \in Procs, Stop(p),
           NEW t \in Tasks, TaskTickets(t), Quiet(p, t)
    PROVE  TaskTickets(t)'
  <1>1. Unseen(t) => Unseen(t)'
    BY StopUnseen DEF Quiet
  <1>2. /\ pc'[p] = "idle"
        /\ \A q \in Procs : q # p => pc'[q] = pc[q] /\ job'[q] = job[q]
    BY DEF Stop, OwnShape
  <1>3. pc'[p] \notin Making /\ Follows(pc[p], pc'[p])
    BY <1>2 DEF Making, Before, Between, Follows
  <1>4. QED
    BY <1>1, <1>2, <1>3, QuietKeeps

LEMMA FinishQuiet ==
    ASSUME OwnShape, NEW p \in Procs, Finish(p),
           NEW t \in Tasks, TaskTickets(t), Quiet(p, t)
    PROVE  TaskTickets(t)'
  <1>1. Follows(pc[p], "next") /\ ~Placed(Absent)
    BY DEF Follows, Making, Before, Between, Placed
  <1>2. QED
    BY <1>1, StopQuiet, TakeQuiet DEF Finish

-----------------------------------------------------------------------------

(* A step that touches neither the backlog nor a ticket directory.         *)
LEMMA UntouchedIsQuiet ==
    ASSUME backlog' = backlog, tickets' = tickets, used' = used,
           NEW p \in Procs, pc[p] # "rmrecord", NEW t \in Tasks
    PROVE  Quiet(p, t)
  BY DEF Quiet, Unseen

(* Storing a record that its holder may know of.                           *)
LEMMA StoreIsQuiet ==
    ASSUME Shape, tickets' = tickets, used' = used, NEW p \in Procs, pc[p] # "rmrecord",
           NEW rec, backlog' \in {backlog, [backlog EXCEPT ![Task(p)] = rec]},
           NEW t \in Tasks, Task(p) = t /\ Unseen(t) => ~Placed(rec),
           Task(p) = t /\ backlog[t] = Absent => Unseen(t) \/ backlog'[t] = Absent
    PROVE  Quiet(p, t)
  <1>1. backlog'[t] = backlog[t] \/ (t = Task(p) /\ backlog'[t] = rec)
    BY DEF Shape, DataShape
  <1>2. QED
    BY <1>1 DEF Quiet, Unseen

LEMMA MakersAreAlone ==
    ASSUME Shape, BranchInv, NEW p \in Procs, NEW q \in Procs,
           pc[p] \in Making, pc[q] \in Making, Task(p) = Task(q)
    PROVE  p = q
  <1>1. \A r \in {p, q} : Fits(r, pc[r], copy[r])
    BY DEF Shape, OwnShape
  <1>2. Cmd(p) = "create" /\ Cmd(q) = "create"
    BY <1>1 DEF Fits, Takes, Making, Before, Between
  <1>3. QED
    BY <1>2 DEF BranchInv

LEMMA CreateTickets ==
    ASSUME Shape, BranchInv, NEW p \in Procs,
           \/ AddRecord(p) \/ Bootstrap(p) \/ PickBranch(p) \/ MakeWorktree(p) \/ StoreNew(p)
           \/ LogCreated(p) \/ UndoTree(p) \/ UndoTicket(p) \/ UndoRecord(p),
           NEW t \in Tasks, TaskTickets(t)
    PROVE  TaskTickets(t)'
  <1> USE DEF data, disk, gitVars
  <1>1. Fits(p, pc[p], copy[p]) /\ OwnShape
    BY DEF Shape, OwnShape
  <1>2. CASE AddRecord(p)
    <2>1. pc[p] = "add" /\ Cmd(p) = "create"
      BY <1>1, <1>2 DEF AddRecord, At, Fits, Takes
    <2>2. Task(p) = t => Unseen(t)
      BY <2>1 DEF TaskTickets, Making, Before
    <2>3. Quiet(p, t)
      BY <1>2, <2>1, <2>2, StoreIsQuiet DEF AddRecord, NewRecord, Placed
    <2>4. Follows("add", "bootstrap")
      BY DEF Follows, Making, Before, Between
    <2>5. CASE Take(p, "bootstrap", NewRecord)
      BY <1>1, <2>1, <2>3, <2>4, <2>5, TakeQuiet
    <2>6. QED
      BY <1>1, <1>2, <2>3, <2>5, FinishQuiet DEF AddRecord
  <1>3. CASE PickBranch(p)
    <2>1. pc[p] = "branch" /\ Cmd(p) = "create"
      BY <1>1, <1>3 DEF PickBranch, At, Fits, Takes
    <2>2. Quiet(p, t)
      BY <1>3, <2>1, UntouchedIsQuiet DEF PickBranch
    <2>3. Follows("branch", "undoticket") /\ Follows("branch", "worktree")
      BY DEF Follows, Making, Before, Between
    <2>4. QED
      BY <1>1, <1>3, <2>1, <2>2, <2>3, GotoQuiet, TakeQuiet DEF PickBranch
  <1>4. CASE MakeWorktree(p)
    <2>1. pc[p] = "worktree" /\ Cmd(p) = "create"
      BY <1>1, <1>4 DEF MakeWorktree, At, Fits, Takes
    <2>2. Quiet(p, t)
      BY <1>4, <2>1, UntouchedIsQuiet DEF MakeWorktree
    <2>3. Follows("worktree", "undoticket") /\ Follows("worktree", "storenew")
      BY DEF Follows, Making, Before, Between
    <2>4. QED
      BY <1>1, <1>4, <2>1, <2>2, <2>3, GotoQuiet, TakeQuiet DEF MakeWorktree
  <1>5. CASE LogCreated(p)
    BY <1>1, <1>5, UntouchedIsQuiet, FinishQuiet DEF LogCreated, At
  <1>6. CASE UndoTree(p)
    <2>1. Follows("undotree", "undoticket")
      BY DEF Follows, Making, Before, Between
    <2>2. QED
      BY <1>1, <1>6, <2>1, UntouchedIsQuiet, GotoQuiet DEF UndoTree, At
  <1>7. CASE UndoRecord(p)
    <2>1. backlog' \in {backlog, [backlog EXCEPT ![Task(p)] = Absent]} /\ pc[p] = "undorecord"
      BY <1>7 DEF UndoRecord, At
    <2>2. backlog[t] = Absent => backlog'[t] = Absent
      BY <2>1 DEF Shape, DataShape
    <2>3. Quiet(p, t)
      BY <1>7, <2>1, <2>2, StoreIsQuiet DEF UndoRecord, Placed
    <2>4. QED
      BY <1>1, <1>7, <2>3, FinishQuiet DEF UndoRecord
  <1>8. CASE Bootstrap(p)
    <2>1. /\ pc[p] = "bootstrap" /\ Cmd(p) = "create"
          /\ tickets' \in {tickets, [tickets EXCEPT ![Task(p)] = @ \cup {New}]}
          /\ UNCHANGED <<backlog, used>>
      BY <1>1, <1>8 DEF Bootstrap, At, Fits, Takes
    <2>2. PICK step \in {"branch", "storenew", "undorecord"},
               rec \in {copy[p], [copy[p] EXCEPT !.place = New]} :
            /\ Take(p, step, rec)
            /\ step # "undorecord" => tickets' = [tickets EXCEPT ![Task(p)] = @ \cup {New}]
      BY <1>8 DEF Bootstrap, Goto
    <2>3. CASE Task(p) # t
      <3>1. Quiet(p, t) /\ (Unseen(t) => Unseen(t)')
        BY <1>1, <2>1, <2>2, <2>3, TakeUnseen DEF Quiet, Unseen, Shape, DiskShape
      <3>2. ASSUME NEW q \in Procs, pc'[q] \in Making, Task(q)' = t
            PROVE  q # p /\ pc[q] = pc'[q] /\ Task(q) = t
        BY <1>1, <2>2, <2>3, <3>2 DEF Take, Task, OwnShape
      <3>3. Deleting(t) => Deleting(t)'
        BY <1>1, <2>1, <2>2 DEF Take, Task, OwnShape, Deleting
      <3>4. QED
        BY <2>1, <3>1, <3>2, <3>3 DEF Quiet, TaskTickets
    <2>4. CASE Task(p) = t
      <3>1. Unseen(t) /\ tickets[t] = {} /\ t \in used
        BY <2>1, <2>4 DEF TaskTickets, Making, Before, BranchInv
      <3>2. Unseen(t)'
        BY <1>1, <2>1, <2>2, <3>1, TakeUnseen DEF Unseen
      <3>3. tickets'[t] \subseteq {New} /\ (step # "undorecord" => tickets'[t] = {New})
        BY <2>1, <2>2, <2>4, <3>1 DEF Shape, DiskShape
      <3>4. ASSUME NEW q \in Procs, pc'[q] \in Making, Task(q)' = t PROVE q = p
        <4>1. Task(q) = t /\ (q # p => pc[q] = pc'[q])
          BY <1>1, <2>2, <3>4 DEF Take, Task, OwnShape
        <4>2. pc[p] \in Making
          BY <2>1 DEF Making, Before
        <4>3. QED
          BY <2>4, <3>4, <4>1, <4>2, MakersAreAlone
      <3>5. pc'[p] = step
        BY <1>1, <2>2 DEF Take, OwnShape
      <3>6. pc'[p] \notin Before /\ (pc'[p] \in Between => step # "undorecord")
        BY <3>5 DEF Before, Between
      <3>7. QED
        BY <2>1, <3>1, <3>2, <3>3, <3>4, <3>6 DEF TaskTickets
    <2>5. QED
      BY <2>3, <2>4
  <1>9. CASE UndoTicket(p)
    <2>1. /\ pc[p] = "undoticket" /\ Cmd(p) = "create" /\ Goto(p, "undorecord")
          /\ tickets' = [tickets EXCEPT ![Task(p)] = @ \ {New}]
          /\ UNCHANGED <<backlog, used>>
      BY <1>1, <1>9 DEF UndoTicket, At, Fits, Takes
    <2>2. CASE Task(p) # t
      <3>1. Quiet(p, t) /\ Follows("undoticket", "undorecord")
        BY <2>1, <2>2 DEF Quiet, Unseen, Shape, DiskShape, Follows, Making, Before, Between
      <3>2. QED
        BY <1>1, <2>1, <3>1, GotoQuiet
    <2>3. CASE Task(p) = t
      <3>1. Unseen(t) /\ tickets[t] \subseteq {New} /\ t \in used
        BY <2>1, <2>3 DEF TaskTickets, Making, BranchInv
      <3>2. Unseen(t)'
        BY <1>1, <2>1, <3>1, TakeUnseen DEF Unseen, Goto
      <3>3. tickets'[t] = {}
        BY <2>1, <2>3, <3>1 DEF Shape, DiskShape
      <3>4. ASSUME NEW q \in Procs, pc'[q] \in Making, Task(q)' = t PROVE q = p
        <4>1. Task(q) = t /\ (q # p => pc[q] = pc'[q])
          BY <1>1, <2>1, <3>4 DEF Goto, Take, Task, OwnShape
        <4>2. pc[p] \in Making
          BY <2>1 DEF Making
        <4>3. QED
          BY <2>3, <3>4, <4>1, <4>2, MakersAreAlone
      <3>5. pc'[p] \notin Before \cup Between
        BY <1>1, <2>1 DEF Goto, Take, OwnShape, Before, Between
      <3>6. QED
        BY <2>1, <3>1, <3>2, <3>3, <3>4, <3>5 DEF TaskTickets
    <2>4. QED
      BY <2>2, <2>3
  <1>10. CASE StoreNew(p)
    <2>1. pc[p] = "storenew" /\ Cmd(p) = "create" /\ UNCHANGED <<tickets, used>>
      BY <1>1, <1>10 DEF StoreNew, At, Fits, Takes
    <2>2. CASE Goto(p, "undotree") /\ UNCHANGED backlog
      <3>1. Follows("storenew", "undotree")
        BY DEF Follows, Making, Before, Between
      <3>2. QED
        BY <1>1, <2>1, <2>2, <3>1, UntouchedIsQuiet, GotoQuiet
    <2>3. CASE Update(p, copy[p]) /\ Goto(p, "logcreated")
      <3>1. Follows("storenew", "logcreated")
        BY DEF Follows, Making, Before, Between
      <3>2. CASE Task(p) # t
        <4>1. backlog' \in {backlog, [backlog EXCEPT ![Task(p)] = copy[p]]}
          BY <2>3 DEF Update
        <4>2. Quiet(p, t)
          BY <2>1, <3>2, <4>1, StoreIsQuiet
        <4>3. QED
          BY <1>1, <2>1, <2>3, <3>1, <4>2, GotoQuiet
      <3>3. CASE Task(p) = t
        <4>1. tickets[t] = {New} /\ t \in used
          BY <2>1, <3>3 DEF TaskTickets, Making, Between, BranchInv
        <4>2. ASSUME NEW q \in Procs, Task(q)' = t PROVE pc'[q] \notin Making
          <5>1. Task(q) = t /\ (q # p => pc[q] = pc'[q]) /\ pc'[p] = "logcreated"
            BY <1>1, <2>3, <4>2 DEF Goto, Take, Task, OwnShape
          <5>2. pc[p] \in Making /\ pc'[p] \notin Making
            BY <2>1, <5>1 DEF Making, Before, Between
          <5>3. QED
            BY <3>3, <5>1, <5>2, MakersAreAlone
        <4>3. QED
          BY <2>1, <4>1, <4>2 DEF TaskTickets
      <3>4. QED
        BY <3>2, <3>3
    <2>4. QED
      BY <1>10, <2>2, <2>3 DEF StoreNew
  <1>11. QED
    BY <1>2, <1>3, <1>4, <1>5, <1>6, <1>7, <1>8, <1>9, <1>10

LEMMA EditsKeepPlaced ==
    ASSUME NEW rec \in Good, NEW s
    PROVE  Placed([rec EXCEPT !.status = s]) => Placed(rec)
  <1>1. [rec EXCEPT !.status = s].place = rec.place
    BY DEF Good, Records
  <1>2. rec # Absent
    BY GoodEdits
  <1>3. QED
    BY <1>1, <1>2 DEF Placed

LEMMA LoadTickets ==
    ASSUME Shape, NEW p \in Procs,
           \/ Get(p) \/ Start(p) \/ Store(p) \/ Render(p) \/ CliGet(p) \/ CliStore(p),
           NEW t \in Tasks, TaskTickets(t)
    PROVE  TaskTickets(t)'
  <1> USE DEF data, disk, gitVars
  <1>1. Fits(p, pc[p], copy[p]) /\ OwnShape /\ copy[p] \in Good \cup {Absent}
    BY DEF Shape, OwnShape
  <1>2. CASE Get(p)
    <2>1. Quiet(p, t) /\ pc[p] = "get"
      BY <1>2, UntouchedIsQuiet DEF Get, At
    <2>2. CASE Finish(p)
      BY <1>1, <2>1, <2>2, FinishQuiet
    <2>3. CASE ~Finish(p)
      <3> DEFINE old == backlog[Task(p)]
      <3> DEFINE rec == [old EXCEPT !.status = StatusAfter(job[p], old)]
      <3> DEFINE step == StepAfterGet(Cmd(p), old)
      <3>1. old \in Good /\ Takes(Cmd(p), "get") /\ Take(p, step, rec)
        BY <1>1, <1>2, <2>3 DEF Get, At, Fits, Untargeted, Shape, DataShape
      <3>2. Unseen(t) /\ Task(p) = t => ~Placed(old)
        BY DEF Unseen
      <3>3. Placed(rec) => Placed(old)
        BY <3>1, EditsKeepPlaced
      <3>4. step \notin Making
        BY <3>1, AfterGet DEF Making, Before, Between
      <3> HIDE DEF rec, step, old
      <3>5. Follows(pc[p], step)
        BY <3>4 DEF Follows, Making
      <3>6. QED
        BY <1>1, <2>1, <3>1, <3>2, <3>3, <3>5, TakeQuiet
    <2>4. QED
      BY <2>2, <2>3
  <1>3. CASE Start(p)
    <2>1. Quiet(p, t) /\ Follows(pc[p], "get")
      BY <1>3, UntouchedIsQuiet DEF Start, At, Follows, Making, Before, Between
    <2>2. QED
      BY <1>1, <1>3, <2>1, FinishQuiet, GotoQuiet DEF Start
  <1>4. CASE Store(p)
    <2>1. pc[p] = "store" /\ Cmd(p) # "create"
      BY <1>1, <1>4 DEF Store, At, Fits, Takes
    <2>2. backlog' \in {backlog, [backlog EXCEPT ![Task(p)] = copy[p]]}
      BY <1>4 DEF Store, Update
    <2>3. Task(p) = t /\ backlog[t] = Absent => backlog'[t] = Absent
      BY <1>4 DEF Store, Update
    <2>4. Task(p) = t /\ Unseen(t) => ~Placed(copy[p])
      BY <2>1 DEF Unseen
    <2>5. Quiet(p, t)
      BY <1>4, <2>1, <2>2, <2>3, <2>4, StoreIsQuiet DEF Store
    <2>6. Follows(pc[p], StepAfterStore(p))
      <3>1. StepAfterStore(p) \in {"logremoved", "clistore", "render", "done"}
        BY DEF StepAfterStore
      <3>2. QED
        BY <3>1 DEF Follows, Making, Before, Between
    <2>7. QED
      BY <1>1, <1>4, <2>5, <2>6, FinishQuiet, GotoQuiet DEF Store
  <1>5. CASE Render(p)
    BY <1>1, <1>5, UntouchedIsQuiet, FinishQuiet DEF Render, At, WriteBelow
  <1>6. CASE CliGet(p)
    <2>1. Quiet(p, t) /\ pc[p] = "cliget"
      BY <1>6, UntouchedIsQuiet DEF CliGet, At
    <2>2. CASE Stop(p)
      BY <1>1, <2>1, <2>2, StopQuiet
    <2>3. CASE ~Stop(p)
      <3>1. /\ pc' = [pc EXCEPT ![p] = "get"]
            /\ cli' = [cli EXCEPT ![p] = backlog[Task(p)]]
            /\ UNCHANGED <<job, copy, todo, snap, backlog>>
        BY <1>6, <2>3 DEF CliGet
      <3>2. \A q \in Procs : cli'[q] = IF q = p THEN backlog[Task(p)] ELSE cli[q]
        BY <1>1, <3>1 DEF OwnShape
      <3>3. Unseen(t) => Unseen(t)'
        BY <3>1, <3>2 DEF Unseen, Task, Cmd
      <3>4. Follows(pc[p], "get")
        BY DEF Follows, Making, Before, Between
      <3>5. pc'[p] = "get" /\ \A q \in Procs : q # p => pc'[q] = pc[q]
        BY <1>1, <3>1 DEF OwnShape
      <3>6. QED
        BY <2>1, <3>1, <3>3, <3>4, <3>5, QuietKeeps
    <2>4. QED
      BY <2>2, <2>3
  <1>7. CASE CliStore(p)
    <2>1. pc[p] = "clistore"
      BY <1>7 DEF CliStore, At
    <2>2. backlog' \in {backlog, [backlog EXCEPT ![Task(p)] = cli[p]]}
      BY <1>7 DEF CliStore, Update
    <2>3. Task(p) = t /\ backlog[t] = Absent => backlog'[t] = Absent
      BY <1>7 DEF CliStore, Update
    <2>4. Task(p) = t /\ Unseen(t) => ~Placed(cli[p])
      BY DEF Unseen
    <2>5. Quiet(p, t)
      BY <1>7, <2>1, <2>2, <2>3, <2>4, StoreIsQuiet DEF CliStore
    <2>6. QED
      BY <1>1, <1>7, <2>5, FinishQuiet DEF CliStore
  <1>8. QED
    BY <1>2, <1>3, <1>4, <1>5, <1>6, <1>7

(* A move needs the directory it moves, so that no task is moved before it *)
(* was stored, and leaves one directory where there was one.               *)
LEMMA MoveTickets ==
    ASSUME Shape, NEW p \in Procs, Task(p) \in Tasks, copy[p] \in Good, Cmd(p) # "create",
           NEW to, NEW rec, CanMove(Task(p), Where(copy[p]), to),
           MoveTicket(Task(p), Where(copy[p]), to),
           NEW step, Take(p, step, rec), step \notin Making, pc[p] # "rmrecord",
           UNCHANGED <<backlog, used>>,
           NEW t \in Tasks, TaskTickets(t)
    PROVE  TaskTickets(t)'
  <1> DEFINE from == Where(copy[p])
  <1>1. OwnShape /\ Follows(pc[p], step)
    BY DEF Shape, Follows, Making
  <1>2. CASE Task(p) # t
    <2>1. Quiet(p, t)
      BY <1>2 DEF Quiet, Unseen, MoveTicket, Shape, DiskShape
    <2>2. QED
      BY <1>1, <1>2, <2>1, TakeQuiet
  <1>3. CASE Task(p) = t
    <2>1. from \in tickets[t] /\ tickets'[t] = (tickets[t] \ {from}) \cup {to}
      BY <1>3 DEF CanMove, MoveTicket, Shape, DiskShape
    <2>2. tickets[t] = {from} /\ tickets'[t] = {to} /\ t \in used
      BY <2>1 DEF TaskTickets
    <2>3. ASSUME NEW q \in Procs, Task(q) = t PROVE pc[q] \notin Making
      <3>1. SUFFICES ASSUME pc[q] \in Making PROVE FALSE
        OBVIOUS
      <3>2. Unseen(t) /\ tickets[t] \subseteq {New}
        BY <2>3, <3>1 DEF TaskTickets
      <3>3. ~Placed(copy[p])
        BY <1>3, <3>2 DEF Unseen
      <3>4. from = Flat
        BY <3>3, GoodEdits DEF Placed, Where
      <3>5. QED
        BY <2>1, <3>2, <3>4 DEF Flat, New
    <2>4. ASSUME NEW q \in Procs, Task(q)' = t PROVE pc'[q] \notin Making
      BY <1>1, <2>3, <2>4 DEF Take, Task, OwnShape
    <2>5. QED
      BY <2>2, <2>4 DEF TaskTickets
  <1>4. QED
    BY <1>2, <1>3

LEMMA ArchiveTickets ==
    ASSUME Shape, NEW p \in Procs,
           WriteHandoff(p) \/ MoveToArchive(p) \/ MoveBack(p),
           NEW t \in Tasks, TaskTickets(t)
    PROVE  TaskTickets(t)'
  <1> USE DEF data, disk, gitVars
  <1>1. Fits(p, pc[p], copy[p]) /\ OwnShape /\ copy[p] \in Good \cup {Absent}
    BY DEF Shape, OwnShape
  <1>2. /\ pc[p] \in {"handoff", "move", "moveback"} /\ UNCHANGED <<backlog, used>>
        /\ copy[p] \in Good /\ Task(p) \in Tasks /\ Cmd(p) # "create"
    BY <1>1 DEF WriteHandoff, MoveToArchive, MoveBack, At, Fits, CopySteps, Takes, Untargeted
  <1>3. UNCHANGED tickets => Quiet(p, t)
    BY <1>2, UntouchedIsQuiet
  <1>4. CASE WriteHandoff(p)
    <2>1. Follows(pc[p], "move")
      BY DEF Follows, Making, Before, Between
    <2>2. QED
      BY <1>1, <1>3, <1>4, <2>1, FinishQuiet, GotoQuiet DEF WriteHandoff
  <1>5. CASE MoveToArchive(p)
    <2>1. CASE Finish(p) /\ UNCHANGED tickets
      BY <1>1, <1>3, <2>1, FinishQuiet
    <2>2. CASE ~(Finish(p) /\ UNCHANGED tickets)
      <3>1. PICK step \in {"check", "store"} :
              /\ CanMove(Task(p), Where(copy[p]), Deeper(Where(copy[p])))
              /\ MoveTicket(Task(p), Where(copy[p]), Deeper(Where(copy[p])))
              /\ Take(p, step, [copy[p] EXCEPT !.status = "archived",
                                               !.place = Deeper(Where(copy[p]))])
        BY <1>5, <2>2 DEF MoveToArchive
      <3>2. step \notin Making
        BY DEF Making, Before, Between
      <3>3. QED
        BY <1>2, <3>1, <3>2, MoveTickets
    <2>3. QED
      BY <2>1, <2>2
  <1>6. CASE MoveBack(p)
    <2>1. CASE Finish(p) /\ UNCHANGED tickets
      BY <1>1, <1>3, <2>1, FinishQuiet
    <2>2. CASE CanMove(Task(p), Where(copy[p]), Shallower(Where(copy[p])))
                 /\ MoveTicket(Task(p), Where(copy[p]), Shallower(Where(copy[p])))
                 /\ Take(p, "store", [copy[p] EXCEPT !.status = "backlog",
                                                     !.place = Shallower(Where(copy[p]))])
      <3>1. "store" \notin Making
        BY DEF Making, Before, Between
      <3>2. QED
        BY <1>2, <2>2, <3>1, MoveTickets
    <2>3. QED
      BY <1>6, <2>1, <2>2 DEF MoveBack
  <1>7. QED
    BY <1>4, <1>5, <1>6

LEMMA KeptTickets ==
    ASSUME OwnShape, NEW p \in Procs, Kept(p), NEW t \in Tasks, TaskTickets(t), Quiet(p, t)
    PROVE  TaskTickets(t)'
  <1>1. Goto(p, "store") \/ Goto(p, "rmtickets") \/ Finish(p)
    BY DEF Kept
  <1>2. Follows(pc[p], "store") /\ Follows(pc[p], "rmtickets")
    BY DEF Follows, Making, Before, Between
  <1>3. QED
    BY <1>1, <1>2, FinishQuiet, GotoQuiet

LEMMA RemoveTicketsSafely ==
    ASSUME Shape, NEW p \in Procs,
           \/ CheckWorktree(p) \/ RemoveWorktree(p) \/ LogRemoved(p) \/ PruneBranch(p)
           \/ RemoveTickets(p) \/ RemoveRecord(p),
           NEW t \in Tasks, TaskTickets(t)
    PROVE  TaskTickets(t)'
  <1> USE DEF data, disk, gitVars
  <1>1. Fits(p, pc[p], copy[p]) /\ OwnShape /\ copy[p] \in Good \cup {Absent}
    BY DEF Shape, OwnShape
  <1>2. CASE CheckWorktree(p)
    <2>1. Quiet(p, t) /\ Follows(pc[p], "remove")
      BY <1>2, UntouchedIsQuiet DEF CheckWorktree, At, Follows, Making, Before, Between
    <2>2. QED
      BY <1>1, <1>2, <2>1, KeptTickets, GotoQuiet DEF CheckWorktree
  <1>3. CASE RemoveWorktree(p)
    <2>1. Quiet(p, t) /\ pc[p] = "remove"
      BY <1>3, UntouchedIsQuiet DEF RemoveWorktree, At
    <2>2. CASE Kept(p)
      BY <1>1, <2>1, <2>2, KeptTickets
    <2>3. CASE ~Kept(p) /\ Cmd(p) \in {"cleanup", "archive"}
      <3> DEFINE rec == [copy[p] EXCEPT !.worktree = FALSE]
      <3>1. PICK step \in {"store", "logremoved"} : Take(p, step, rec)
        BY <1>3, <2>3 DEF RemoveWorktree
      <3>2. copy[p] \in Good
        BY <1>1, <2>1, <2>3 DEF Fits, CopySteps
      <3>3. Placed(rec) => Placed(copy[p])
        <4>1. rec.place = copy[p].place
          BY <3>2 DEF Good, Records
        <4>2. QED
          BY <3>2, <4>1, GoodEdits DEF Placed
      <3>4. Unseen(t) /\ Task(p) = t => ~Placed(copy[p])
        BY <2>3 DEF Unseen
      <3>5. Follows(pc[p], step)
        BY DEF Follows, Making, Before, Between
      <3> HIDE DEF rec
      <3>6. QED
        BY <1>1, <2>1, <3>1, <3>3, <3>4, <3>5, TakeQuiet
    <2>4. CASE ~Kept(p) /\ Cmd(p) \notin {"cleanup", "archive"}
      <3>1. Finish(p) \/ Goto(p, "logremoved")
        BY <1>3, <2>4 DEF RemoveWorktree
      <3>2. Follows(pc[p], "logremoved")
        BY DEF Follows, Making, Before, Between
      <3>3. QED
        BY <1>1, <2>1, <3>1, <3>2, FinishQuiet, GotoQuiet
    <2>5. QED
      BY <2>2, <2>3, <2>4
  <1>4. CASE LogRemoved(p)
    <2>1. Quiet(p, t)
      BY <1>4, UntouchedIsQuiet DEF LogRemoved, At
    <2>2. Finish(p) \/ \E step \in {"rmtickets", "prunebranch", "store"} : Goto(p, step)
      BY <1>4 DEF LogRemoved
    <2>3. \A step \in {"rmtickets", "prunebranch", "store"} : Follows(pc[p], step)
      BY DEF Follows, Making, Before, Between
    <2>4. QED
      BY <1>1, <2>1, <2>2, <2>3, FinishQuiet, GotoQuiet
  <1>5. CASE PruneBranch(p)
    <2>1. Quiet(p, t) /\ Follows(pc[p], "store")
      BY <1>5, UntouchedIsQuiet DEF PruneBranch, At, Follows, Making, Before, Between
    <2>2. QED
      BY <1>1, <1>5, <2>1, GotoQuiet DEF PruneBranch
  <1>6. CASE RemoveTickets(p)
    <2>1. /\ pc[p] = "rmtickets" /\ Cmd(p) = "delete" /\ Goto(p, "rmrecord")
          /\ tickets' = [tickets EXCEPT ![Task(p)] = @ \ {Where(copy[p]), Flat, Deeper(Flat)}]
          /\ UNCHANGED <<backlog, used>>
      BY <1>1, <1>6 DEF RemoveTickets, At, Fits, Takes
    <2>2. Follows(pc[p], "rmrecord")
      BY DEF Follows, Making, Before, Between
    <2>3. CASE Task(p) # t
      <3>1. Quiet(p, t)
        BY <2>1, <2>3 DEF Quiet, Unseen, Shape, DiskShape
      <3>2. QED
        BY <1>1, <2>1, <2>2, <3>1, GotoQuiet
    <2>4. CASE Task(p) = t
      <3>1. tickets'[t] = tickets[t] \ {Where(copy[p]), Flat, Deeper(Flat)}
        BY <2>1, <2>4 DEF Shape, DiskShape
      <3>2. Unseen(t) => Unseen(t)'
        BY <1>1, <2>1, TakeUnseen DEF Unseen, Goto
      <3>3. Deleting(t)'
        BY <1>1, <2>1, <2>4 DEF Deleting, Goto, Take, Task, OwnShape
      <3>4. Unseen(t) => New \notin {Where(copy[p]), Flat, Deeper(Flat)}
        <4>1. New # Flat /\ New # Deeper(Flat)
          BY DEF New, Flat, Deeper
        <4>2. Unseen(t) => Where(copy[p]) = Flat
          <5>1. copy[p] \in Good
            BY <1>1, <2>1 DEF Fits, CopySteps
          <5>2. QED
            BY <2>1, <2>4, <5>1, GoodEdits DEF Unseen, Placed, Where
        <4>3. QED
          BY <4>1, <4>2
      <3>5. ASSUME NEW q \in Procs, pc'[q] \in Making, Task(q)' = t
            PROVE  Task(q) = t /\ pc[q] = pc'[q]
        <4>1. job' = job /\ pc'[p] = "rmrecord" /\ (q # p => pc'[q] = pc[q])
          BY <1>1, <2>1 DEF Goto, Take, OwnShape
        <4>2. QED
          BY <3>5, <4>1 DEF Task, Making, Before, Between
      <3>6. ASSUME NEW q \in Procs, pc'[q] \in Making, Task(q)' = t
            PROVE  /\ Unseen(t)' /\ tickets'[t] \subseteq {New}
                   /\ pc'[q] \in Before => tickets'[t] = {}
                   /\ pc'[q] \in Between => tickets'[t] = {New}
        BY <3>1, <3>2, <3>4, <3>5, <3>6 DEF TaskTickets
      <3>7. t \notin used' => Unseen(t)' /\ tickets'[t] = {}
        BY <2>1, <3>1, <3>2 DEF TaskTickets
      <3>8. \A x, y \in tickets'[t] : x = y
        BY <3>1 DEF TaskTickets
      <3>9. QED
        BY <3>3, <3>6, <3>7, <3>8 DEF TaskTickets
    <2>5. QED
      BY <2>3, <2>4
  <1>7. CASE RemoveRecord(p)
    <2>1. /\ backlog' = [backlog EXCEPT ![Task(p)] = Absent] /\ UNCHANGED <<tickets, used>>
          /\ Finish(p)
      BY <1>7 DEF RemoveRecord
    <2>2. Quiet(p, t)
      BY <2>1 DEF Quiet, Unseen, Placed, Shape, DataShape
    <2>3. QED
      BY <1>1, <2>1, <2>2, FinishQuiet
  <1>8. QED
    BY <1>2, <1>3, <1>4, <1>5, <1>6, <1>7

LEMMA BulkTickets ==
    ASSUME Shape, NEW p \in Procs,
           ListTasks(p) \/ ListOrphans(p) \/ NextTask(p) \/ Restore(p),
           NEW t \in Tasks, TaskTickets(t)
    PROVE  TaskTickets(t)'
  <1> USE DEF data, disk, gitVars
  <1>1. Fits(p, pc[p], copy[p]) /\ OwnShape /\ copy[p] \in Good \cup {Absent}
    BY DEF Shape, OwnShape
  <1>2. Quiet(p, t) /\ UNCHANGED <<backlog, tickets, used>>
    BY UntouchedIsQuiet DEF ListTasks, ListOrphans, NextTask, Restore, At
  <1>3. CASE Stop(p) /\ (ListTasks(p) \/ ListOrphans(p))
    BY <1>1, <1>2, <1>3, StopQuiet
  <1>4. CASE ~Stop(p) /\ (ListTasks(p) \/ ListOrphans(p))
    <2>1. PICK step \in {"orphans", "next"} : pc' = [pc EXCEPT ![p] = step]
      BY <1>4 DEF ListTasks, ListOrphans
    <2>2. UNCHANGED <<job, copy, cli>>
      BY <1>4 DEF ListTasks, ListOrphans
    <2>3. snap' \in {snap, [snap EXCEPT ![p] = backlog], [snap EXCEPT ![p] = snap[p]]}
      BY <1>4 DEF ListTasks, ListOrphans
    <2>4. \A q \in Procs : snap'[q][t] \in {snap[q][t], backlog[t]}
      BY <1>1, <2>3 DEF OwnShape
    <2>5. Unseen(t) => Unseen(t)'
      BY <1>2, <2>2, <2>4 DEF Unseen, Task, Cmd
    <2>6. pc'[p] = step /\ \A q \in Procs : q # p => pc'[q] = pc[q]
      BY <1>1, <2>1 DEF OwnShape
    <2>7. Follows(pc[p], step)
      BY DEF Follows, Making, Before, Between
    <2>8. QED
      BY <1>2, <2>2, <2>5, <2>6, <2>7, QuietKeeps
  <1>5. CASE NextTask(p)
    <2>1. PICK u \in todo[p] :
            /\ job' = [job EXCEPT ![p].task = u]
            /\ copy' = [copy EXCEPT ![p] = IF Cmd(p) = "reconcile" THEN snap[p][u] ELSE Absent]
      BY <1>5 DEF NextTask
    <2>2. PICK step \in {"restore", "check", "get"} : pc' = [pc EXCEPT ![p] = step]
      BY <1>5 DEF NextTask
    <2>3. UNCHANGED <<cli, snap>> /\ cli[p] = Absent
      BY <1>1, <1>5 DEF NextTask, At, Fits, Takes
    <2>4. \A q \in Procs : q # p => job'[q] = job[q] /\ copy'[q] = copy[q] /\ pc'[q] = pc[q]
      BY <1>1, <2>1, <2>2 DEF OwnShape
    <2>5. pc'[p] = step /\ job'[p].task = u /\ copy'[p] \in {snap[p][u], Absent}
      BY <1>1, <2>1, <2>2 DEF OwnShape, Jobs
    <2>6. Unseen(t) => Unseen(t)'
      BY <1>2, <2>3, <2>4, <2>5 DEF Unseen, Task, Cmd, Placed
    <2>7. pc'[p] \notin Making /\ Follows(pc[p], pc'[p])
      BY <2>5 DEF Follows, Making, Before, Between
    <2>8. QED
      BY <1>2, <2>4, <2>6, <2>7, QuietKeeps
  <1>6. CASE Restore(p)
    BY <1>1, <1>2, <1>6, FinishQuiet DEF Restore
  <1>7. QED
    BY <1>3, <1>4, <1>5, <1>6

LEMMA BeginTickets ==
    ASSUME Shape, BranchInv, NEW p \in Procs, Begin(p), NEW t \in Tasks, TaskTickets(t)
    PROVE  TaskTickets(t)'
  <1> USE DEF data, disk, gitVars
  <1>1. PICK j \in Requests :
          /\ job' = [job EXCEPT ![p] = j]
          /\ pc' = [pc EXCEPT ![p] = FirstStep(j.cmd)]
          /\ used' = used \cup (IF j.cmd = "create" THEN {j.task} ELSE {})
    BY DEF Begin
  <1>2. /\ j.cmd = "create" => j.task \in Tasks \ used
        /\ FirstStep(j.cmd) \in Making => FirstStep(j.cmd) = "add" /\ j.cmd = "create"
    BY FirstStepFits DEF Shape, DataShape, FirstStep, Lists, Making, Before, Between
  <1>3. UNCHANGED <<backlog, tickets, copy, cli, snap>> /\ pc[p] = "idle"
    BY DEF Begin, At
  <1>4. copy[p] = Absent /\ cli[p] = Absent
    BY <1>3 DEF Shape, OwnShape, Fits, Takes, Untargeted
  <1>5. \A q \in Procs : q # p => job'[q] = job[q] /\ pc'[q] = pc[q]
    BY <1>1 DEF Shape, OwnShape
  <1>6. job'[p] = j /\ pc'[p] = FirstStep(j.cmd)
    BY <1>1 DEF Shape, OwnShape
  <1>7. Unseen(t) => Unseen(t)'
    BY <1>3, <1>4, <1>5 DEF Unseen, Placed, Task, Cmd
  <1>8. Deleting(t) => Deleting(t)'
    BY <1>3, <1>5 DEF Deleting, Task
  <1>9. ASSUME NEW q \in Procs, pc'[q] \in Making, Task(q)' = t
        PROVE  /\ Unseen(t)' /\ tickets'[t] \subseteq {New}
               /\ pc'[q] \in Before => tickets'[t] = {}
               /\ pc'[q] \in Between => tickets'[t] = {New}
    <2>1. CASE q = p
      <3>1. t \notin used /\ pc'[p] \notin Between
        BY <1>2, <1>6, <1>9, <2>1 DEF Task, Between
      <3>2. QED
        BY <1>3, <1>7, <2>1, <3>1 DEF TaskTickets
    <2>2. CASE q # p
      BY <1>3, <1>5, <1>7, <1>9, <2>2 DEF TaskTickets, Task
    <2>3. QED
      BY <2>1, <2>2
  <1>10. QED
    BY <1>1, <1>3, <1>7, <1>8, <1>9 DEF TaskTickets

LEMMA TicketsPreserved ==
    ASSUME "crash" \notin Faults \/ "delete" \notin Commands,
           Shape, BranchInv, TicketInv, [Next]_vars
    PROVE  TicketInv'
  <1> SUFFICES ASSUME NEW t \in Tasks PROVE TaskTickets(t)'
    BY DEF TicketInv
  <1>1. TaskTickets(t)
    BY DEF TicketInv
  <1>2. ASSUME NEW p \in Procs, Step(p) PROVE TaskTickets(t)'
    BY <1>1, <1>2, CreateTickets, LoadTickets, ArchiveTickets, RemoveTicketsSafely,
       BulkTickets DEF Step
  <1>3. ASSUME NEW p \in Procs, Crash(p) PROVE TaskTickets(t)'
    <2>1. pc[p] # "rmrecord"
      BY <1>3 DEF Crash, Shape, OwnShape, Fits, Takes
    <2>2. Quiet(p, t)
      BY <1>3, <2>1, UntouchedIsQuiet DEF Crash, data, disk
    <2>3. QED
      BY <1>1, <1>3, <2>2, StopQuiet DEF Crash, Shape
  <1>4. CASE (\E u \in Tasks : User(u)) \/ UNCHANGED vars
    <2>1. UNCHANGED <<backlog, tickets, copy, cli, snap, job, pc, used>>
      BY <1>4 DEF User, data, own, vars, disk
    <2>2. QED
      BY <1>1, <2>1 DEF TaskTickets, Unseen, Deleting, Placed, Task, Cmd
  <1>5. QED
    BY <1>1, <1>2, <1>3, <1>4, BeginTickets DEF Next

LEMMA TicketsInit == ASSUME Init PROVE TicketInv
  <1>1. \A p \in Procs : pc[p] = "idle"
    BY DEF Init
  <1>2. \A t \in Tasks : Unseen(t) /\ tickets[t] = {}
    BY DEF Init, Unseen, Placed, Nothing
  <1>3. QED
    BY <1>1, <1>2 DEF TicketInv, TaskTickets, Making, Before, Between

(* From the moment that its paths are stored until it is deleted, a task   *)
(* has one ticket directory, however archives, unarchives and stale writes *)
(* of any number of processes interleave, fail or, where nothing deletes,  *)
(* crash.                                                                  *)
THEOREM TicketsAreKept ==
    ASSUME "crash" \notin Faults \/ "delete" \notin Commands
    PROVE  Spec => []TicketKept
  <1>1. ASSUME TicketInv PROVE TicketKept
    <2> SUFFICES ASSUME NEW t \in Known(backlog), backlog[t].place # Absent,
                        \A p \in Procs : Task(p) = t => ~At(p, "rmrecord")
                 PROVE  Cardinality(tickets[t]) = 1
      BY DEF TicketKept
    <2>1. t \in Tasks /\ ~Unseen(t) /\ ~Deleting(t) /\ backlog[t] # Absent
      BY DEF Known, Unseen, Placed, Deleting, At
    <2>2. PICK place : tickets[t] = {place}
      BY <1>1, <2>1 DEF TicketInv, TaskTickets
    <2>3. QED
      BY <2>2, FS_Singleton
  <1>2. QED
    BY <1>1, ShapeInit, ShapePreserved, BranchesInit, BranchesPreserved,
       TicketsInit, TicketsPreserved, PTL DEF Spec

-----------------------------------------------------------------------------
(* What one process leaves between its commands: every ticket directory    *)
(* and every worktree as the records say.  In the middle of a command they *)
(* follow the record, the copy that the command will store, or neither.    *)

Alike(r, s) ==
    /\ r # Absent /\ s # Absent
    /\ r.place = s.place /\ r.worktree = s.worktree /\ r.branch = s.branch

(* How the copy of the process at work compares with the record.           *)
HeldAt(p) ==
    LET b == backlog[Task(p)]
        c == copy[p]
    IN  /\ pc[p] = "add" => b = Absent /\ Task(p) \in used
        /\ pc[p] \in Making \ {"add"} => b = NewRecord
        /\ pc[p] \in Between \cup {"undotree", "undoticket"} => c.place = New
        /\ pc[p] \in {"bootstrap", "branch", "worktree"} => ~c.worktree
        /\ pc[p] \in CopySteps /\ Cmd(p) # "prune" => b # Absent
        /\ pc[p] = "logcreated" \/ (pc[p] = "logremoved" /\ Cmd(p) = "cleanup") => b = c
        /\ pc[p] \in {"render", "handoff", "move", "moveback"} => Alike(b, c)
        /\ pc[p] \in {"check", "remove"} /\ Cmd(p) \in {"cleanup", "delete"} => Alike(b, c)
        /\ pc[p] \in {"render", "check", "remove"} /\ Cmd(p) # "prune" => c.worktree
        /\ pc[p] \in {"logremoved", "prunebranch"} /\ Cmd(p) # "delete" => ~c.worktree
        /\ pc[p] = "store" /\ Cmd(p) = "cleanup" => ~c.worktree
        /\ Cmd(p) = "status+owner" /\ pc[p] \in {"get", "clistore"} => Alike(cli[p], b)
        /\ Cmd(p) = "status+owner" /\ pc[p] = "store" => Alike(cli[p], c)
        /\ pc[p] = "restore" => b = c
        /\ pc[p] = "orphans" \/ (Cmd(p) = "reconcile" /\ pc[p] # "list") => snap[p] = backlog

KnownAreUsed == \A t \in Tasks : backlog[t] # Absent => t \in used

HeldInv(p) == KnownAreUsed /\ HeldAt(p)

LEMMA AfterTake ==
    ASSUME OwnShape, NEW p \in Procs, NEW step, NEW rec, Take(p, step, rec)
    PROVE  /\ pc'[p] = step /\ copy'[p] = rec
           /\ UNCHANGED <<job, cli, todo, snap>> /\ Cmd(p)' = Cmd(p) /\ Task(p)' = Task(p)
  BY DEF OwnShape, Take, Cmd, Task

LEMMA AfterFinish ==
    ASSUME OwnShape, NEW p \in Procs, Finish(p) \/ Stop(p)
    PROVE  \/ pc'[p] = "idle" /\ Cmd(p)' = "none"
           \/ /\ pc'[p] = "next" /\ Cmd(p) \in Lists
              /\ UNCHANGED <<job, cli, todo, snap>> /\ Cmd(p)' = Cmd(p)
  <1>1. CASE Stop(p)
    BY <1>1 DEF Stop, OwnShape, Cmd, NoJob
  <1>2. CASE Finish(p) /\ ~Stop(p)
    <2>1. Take(p, "next", Absent) /\ todo[p] # {}
      BY <1>2 DEF Finish
    <2>2. Cmd(p) \in Lists
      BY <2>1 DEF OwnShape, Fits
    <2>3. QED
      BY <2>1, <2>2, AfterTake
  <1>3. QED
    BY <1>1, <1>2

(* A command that is over holds nothing, and what reconcile listed is as it *)
(* was.                                                                    *)
LEMMA FinishHeld ==
    ASSUME OwnShape, NEW p \in Procs, HeldAt(p), Finish(p) \/ Stop(p),
           Cmd(p) = "reconcile" => backlog' = backlog /\ pc[p] # "list"
    PROVE  HeldAt(p)'
  <1>1. CASE pc'[p] = "idle" /\ Cmd(p)' = "none"
    BY <1>1 DEF HeldAt, Making, Before, Between, CopySteps
  <1>2. CASE pc'[p] = "next" /\ UNCHANGED <<job, cli, todo, snap>> /\ Cmd(p)' = Cmd(p)
    <2>1. Cmd(p) = "reconcile" => snap'[p] = backlog'
      BY <1>2 DEF HeldAt
    <2>2. QED
      BY <1>2, <2>1 DEF HeldAt, Making, Before, Between, CopySteps
  <1>3. QED
    BY <1>1, <1>2, AfterFinish

LEMMA RestatusedIsAlike ==
    ASSUME NEW rec \in Good, NEW s \in {"backlog", "active", "done", "archived"}
    PROVE  Alike(rec, [rec EXCEPT !.status = s])
  <1>1. rec # Absent /\ [rec EXCEPT !.status = s] \in Good
    BY GoodEdits
  <1>2. [rec EXCEPT !.status = s] # Absent
    BY <1>1, GoodEdits
  <1>3. QED
    BY <1>1, <1>2 DEF Alike, Records, Good

LEMMA CreateHeld ==
    ASSUME Shape, NEW p \in Procs, HeldAt(p),
           \/ AddRecord(p) \/ Bootstrap(p) \/ PickBranch(p) \/ MakeWorktree(p) \/ StoreNew(p)
           \/ LogCreated(p) \/ UndoTree(p) \/ UndoTicket(p) \/ UndoRecord(p)
    PROVE  HeldAt(p)'
  <1> USE DEF Shape, data, disk, gitVars, At, Cmd
  <1>1. Fits(p, pc[p], copy[p]) /\ copy[p] \in Good \cup {Absent} /\ OwnShape /\ NewRecord \in Good
    BY NewIsGood DEF OwnShape
  <1>2. Cmd(p) = "create" /\ Task(p) \in Tasks
    BY <1>1 DEF Fits, Takes, Untargeted, Lists, AddRecord, Bootstrap, PickBranch, MakeWorktree,
                StoreNew, LogCreated, UndoTree, UndoTicket, UndoRecord
  <1>3. CASE Finish(p)
    BY <1>1, <1>2, <1>3, FinishHeld
  <1>4. pc[p] # "add" => copy[p] \in Good
    BY <1>1, <1>2 DEF Fits, CopySteps, AddRecord, Bootstrap, PickBranch, MakeWorktree,
                StoreNew, LogCreated, UndoTree, UndoTicket, UndoRecord
  <1>5. CASE AddRecord(p) /\ ~Finish(p)
    <2>1. Take(p, "bootstrap", NewRecord) /\ backlog' = [backlog EXCEPT ![Task(p)] = NewRecord]
      BY <1>5 DEF AddRecord
    <2>2. backlog'[Task(p)] = NewRecord
      BY <1>2, <2>1 DEF DataShape
    <2>3. NewRecord # Absent /\ ~NewRecord.worktree
      BY <1>1, GoodEdits DEF NewRecord
    <2>4. QED
      BY <1>1, <1>2, <2>1, <2>2, <2>3, AfterTake DEF HeldAt, Making, Before, Between, CopySteps
  <1>6. CASE Bootstrap(p)
    <2>1. PICK step \in {"branch", "storenew", "undorecord"}, rec \in {copy[p], [copy[p] EXCEPT !.place = New]} :
             Take(p, step, rec) /\ (step # "undorecord" => rec = [copy[p] EXCEPT !.place = New])
      BY <1>6 DEF Bootstrap, Goto
    <2>5. copy[p] \in Good
      BY <1>4, <1>6 DEF Bootstrap
    <2>6. /\ [copy[p] EXCEPT !.place = New].place = New
          /\ [copy[p] EXCEPT !.place = New].worktree = copy[p].worktree
      BY <2>5 DEF Good, Records
    <2>2. rec.worktree = copy[p].worktree /\ (step # "undorecord" => rec.place = New)
      BY <2>1, <2>6
    <2>3. backlog' = backlog /\ pc[p] = "bootstrap"
      BY <1>6 DEF Bootstrap
    <2>4. QED
      BY <1>1, <1>2, <2>1, <2>2, <2>3, AfterTake DEF HeldAt, Making, Before, Between, CopySteps
  <1>7. CASE PickBranch(p)
    <2>1. CASE Goto(p, "undoticket") /\ UNCHANGED backlog /\ pc[p] = "branch"
      BY <1>1, <1>2, <2>1, AfterTake DEF Goto, HeldAt, Making, Before, Between, CopySteps
    <2>2. ASSUME NEW b, UNCHANGED backlog, pc[p] = "branch",
                 Take(p, "worktree", [copy[p] EXCEPT !.branch = b])
          PROVE  HeldAt(p)'
      <3> DEFINE rec == [copy[p] EXCEPT !.branch = b]
      <3>1. rec.place = copy[p].place /\ rec.worktree = copy[p].worktree
        BY <1>4, <2>2 DEF Good, Records
      <3>2. Take(p, "worktree", rec)
        BY <2>2
      <3> HIDE DEF rec
      <3>3. QED
        BY <1>1, <1>2, <2>2, <3>1, <3>2, AfterTake DEF HeldAt, Making, Before, Between, CopySteps
    <2>3. QED
      BY <1>7, <2>1, <2>2 DEF PickBranch
  <1>8. CASE MakeWorktree(p)
    <2>1. PICK step \in {"undoticket", "storenew"}, rec \in {copy[p], [copy[p] EXCEPT !.worktree = TRUE]} :
             Take(p, step, rec)
      BY <1>8 DEF MakeWorktree, Goto
    <2>2. rec.place = copy[p].place
      <3>1. copy[p] \in Good
        BY <1>4, <1>8 DEF MakeWorktree
      <3>2. QED
        BY <2>1, <3>1 DEF Good, Records
    <2>3. backlog' = backlog /\ pc[p] = "worktree"
      BY <1>8 DEF MakeWorktree
    <2>4. QED
      BY <1>1, <1>2, <2>1, <2>2, <2>3, AfterTake DEF HeldAt, Making, Before, Between, CopySteps
  <1>9. CASE StoreNew(p)
    <2>1. CASE Update(p, copy[p]) /\ Goto(p, "logcreated")
      <3>1. backlog'[Task(p)] = copy[p]
        BY <1>2, <2>1 DEF Update, DataShape
      <3>2. copy[p] # Absent
        BY <1>4, <1>9, GoodEdits DEF StoreNew
      <3>3. QED
        BY <1>1, <1>2, <2>1, <3>1, <3>2, AfterTake DEF Goto, HeldAt, Making, Before, Between, CopySteps
    <2>2. CASE backlog' = backlog /\ Goto(p, "undotree") /\ pc[p] = "storenew"
      BY <1>1, <1>2, <2>2, AfterTake DEF Goto, HeldAt, Making, Before, Between, CopySteps
    <2>3. QED
      BY <1>9, <2>1, <2>2 DEF StoreNew
  <1>10. CASE UndoTree(p) \/ UndoTicket(p)
    <2>1. PICK step \in {"undoticket", "undorecord"} :
             Goto(p, step) /\ pc[p] \in {"undotree", "undoticket"} /\ backlog' = backlog
      BY <1>10 DEF UndoTree, UndoTicket
    <2>2. QED
      BY <1>1, <1>2, <2>1, AfterTake DEF Goto, HeldAt, Making, Before, Between, CopySteps
  <1>11. QED
    BY <1>3, <1>5, <1>6, <1>7, <1>8, <1>9, <1>10 DEF LogCreated, UndoRecord

LEMMA GetLeads ==
    ASSUME NEW cmd, Takes(cmd, "get"), NEW rec \in Good, ~Refuses(cmd, rec)
    PROVE  LET step == StepAfterGet(cmd, rec)
           IN  /\ step \in {"check", "render"} => rec.worktree
               /\ step = "check" => cmd \in {"cleanup", "delete"}
               /\ step = "store" => cmd # "cleanup"
               /\ cmd = "status+owner" => step = "store"
  BY DEF Takes, Lists, Refuses, StepAfterGet

LEMMA GetHeld ==
    ASSUME Shape, NEW p \in Procs, HeldAt(p), Get(p)
    PROVE  HeldAt(p)'
  <1> DEFINE b == backlog[Task(p)]
             step == StepAfterGet(Cmd(p), b)
             rec == [b EXCEPT !.status = StatusAfter(job[p], b)]
  <1>1. /\ OwnShape /\ Fits(p, "get", copy[p]) /\ job[p] \in Jobs /\ pc[p] = "get"
        /\ Task(p) \in Tasks /\ UNCHANGED backlog
    BY DEF Shape, OwnShape, Get, At, Fits, Untargeted, data
  <1>2. Takes(Cmd(p), "get") /\ Cmd(p) # "reconcile"
    BY <1>1 DEF Fits, Takes
  <1>3. CASE Finish(p)
    BY <1>1, <1>2, <1>3, FinishHeld
  <1>4. CASE ~Finish(p)
    <2>1. b \in Good /\ b # Absent /\ ~Refuses(Cmd(p), b) /\ Take(p, step, rec)
      BY <1>1, <1>4 DEF Shape, DataShape, Get
    <2>2. StatusAfter(job[p], b) \in {"backlog", "active", "done", "archived"}
      BY <1>1, <2>1, StatusIsKnown DEF Fits, Cmd
    <2>3. Alike(b, rec)
      BY <2>1, <2>2, RestatusedIsAlike
    <2>4. /\ step \in {"handoff", "moveback", "check", "rmtickets", "render", "store"}
          /\ step \in {"check", "render"} => b.worktree
          /\ step = "check" => Cmd(p) \in {"cleanup", "delete"}
          /\ step = "store" => Cmd(p) # "cleanup"
          /\ Cmd(p) = "status+owner" => step = "store"
      BY <1>2, <2>1, AfterGet, GetLeads
    <2>5. Cmd(p) = "status+owner" => Alike(cli[p], b)
      BY <1>1 DEF HeldAt
    <2> HIDE DEF step, rec
    <2>6. /\ pc'[p] = step /\ copy'[p] = rec /\ cli' = cli /\ Task(p)' = Task(p)
          /\ Cmd(p)' = Cmd(p) /\ backlog'[Task(p)] = b
      BY <1>1, <2>1, AfterTake
    <2> HIDE DEF b
    <2>7. QED
      BY <1>2, <2>1, <2>3, <2>4, <2>5, <2>6
        DEF HeldAt, Making, Before, Between, CopySteps, Alike
  <1>5. QED
    BY <1>3, <1>4

LEMMA LoadHeld ==
    ASSUME Shape, NEW p \in Procs, HeldAt(p),
           Start(p) \/ Store(p) \/ Render(p) \/ CliGet(p) \/ CliStore(p)
    PROVE  HeldAt(p)'
  <1> USE DEF Shape, data, disk, gitVars, At
  <1>1. Fits(p, pc[p], copy[p]) /\ copy[p] \in Good \cup {Absent} /\ OwnShape
    BY DEF OwnShape
  <1>2. /\ Cmd(p) # "reconcile" /\ Task(p) \in Tasks /\ Takes(Cmd(p), pc[p])
        /\ pc[p] \in {"start", "store", "render", "cliget", "clistore"}
    BY <1>1 DEF Fits, Takes, Untargeted, Start, Store, Render, CliGet, CliStore
  <1>3. CASE Finish(p) \/ Stop(p)
    BY <1>1, <1>2, <1>3, FinishHeld
  <1>4. CASE Start(p) /\ ~Finish(p)
    <2>1. Goto(p, "get") /\ Cmd(p) = "start"
      BY <1>2, <1>4 DEF Start, Takes, Lists
    <2>2. QED
      BY <1>1, <2>1, AfterTake DEF Goto, HeldAt, Making, Before, Between, CopySteps
  <1>5. CASE Store(p) /\ ~Finish(p)
    <2>1. Update(p, copy[p]) /\ Goto(p, StepAfterStore(p)) /\ StepAfterStore(p) # "done" /\ pc[p] = "store"
      BY <1>5 DEF Store
    <2>2. backlog'[Task(p)] = copy[p]
      BY <1>2, <2>1 DEF Update, DataShape
    <2>3. copy[p] # Absent
      BY <1>1, <1>2, <2>1 DEF Fits, CopySteps, Takes, Lists
    <2>4. /\ StepAfterStore(p) \in {"logremoved", "clistore", "render"}
          /\ StepAfterStore(p) = "logremoved" <=> Cmd(p) = "cleanup"
          /\ StepAfterStore(p) = "clistore" <=> Cmd(p) = "status+owner"
          /\ StepAfterStore(p) = "render" => copy[p].worktree
      BY <2>1 DEF StepAfterStore
    <2>5. /\ Cmd(p) = "cleanup" => ~copy[p].worktree
          /\ Cmd(p) = "status+owner" => Alike(cli[p], copy[p])
      BY <2>1 DEF HeldAt
    <2>6. QED
      BY <1>1, <1>2, <2>1, <2>2, <2>3, <2>4, <2>5, AfterTake
        DEF Goto, HeldAt, Making, Before, Between, CopySteps, Alike
  <1>6. CASE CliGet(p) /\ ~Stop(p)
    <2>1. /\ pc'[p] = "get" /\ cli'[p] = backlog[Task(p)] /\ backlog[Task(p)] # Absent
          /\ Cmd(p) = "status+owner" /\ UNCHANGED <<backlog, job>>
      BY <1>1, <1>2, <1>6 DEF CliGet, OwnShape, Takes, Lists
    <2>2. QED
      BY <2>1 DEF HeldAt, Making, Before, Between, CopySteps, Alike, Cmd, Task
  <1>7. QED
    BY <1>3, <1>4, <1>5, <1>6 DEF Start, Store, Render, CliGet, CliStore

LEMMA MoveHeld ==
    ASSUME Shape, NEW p \in Procs, HeldAt(p), WriteHandoff(p) \/ MoveToArchive(p) \/ MoveBack(p)
    PROVE  HeldAt(p)'
  <1> USE DEF Shape, data, disk, gitVars, At
  <1>1. Fits(p, pc[p], copy[p]) /\ copy[p] \in Good \cup {Absent} /\ OwnShape
    BY DEF OwnShape
  <1>2. /\ \/ pc[p] \in {"handoff", "move"} /\ Cmd(p) = "archive"
           \/ pc[p] = "moveback" /\ Cmd(p) = "unarchive"
        /\ Task(p) \in Tasks /\ backlog' = backlog /\ copy[p] \in Good
    BY <1>1 DEF Fits, Takes, Untargeted, Lists, CopySteps, WriteHandoff, MoveToArchive, MoveBack
  <1>3. CASE Finish(p)
    BY <1>1, <1>2, <1>3, FinishHeld
  <1>4. CASE WriteHandoff(p) /\ ~Finish(p)
    <2>1. Goto(p, "move") /\ pc[p] = "handoff"
      BY <1>4 DEF WriteHandoff
    <2>2. QED
      BY <1>1, <1>2, <2>1, AfterTake DEF Goto, HeldAt, Making, Before, Between, CopySteps
  <1>5. ASSUME NEW s, NEW to, NEW step,
               Take(p, step, [copy[p] EXCEPT !.status = s, !.place = to]),
               step = "store" \/ (step = "check" /\ copy[p].worktree /\ Cmd(p) = "archive")
        PROVE  HeldAt(p)'
    <2> DEFINE rec == [copy[p] EXCEPT !.status = s, !.place = to]
    <2>1. rec.worktree = copy[p].worktree
      BY <1>2 DEF Good, Records
    <2>2. backlog[Task(p)] # Absent
      BY <1>2 DEF HeldAt, CopySteps
    <2>3. Take(p, step, rec)
      BY <1>5
    <2> HIDE DEF rec
    <2>4. QED
      BY <1>1, <1>2, <1>5, <2>1, <2>2, <2>3, AfterTake
        DEF HeldAt, Making, Before, Between, CopySteps
  <1>6. QED
    BY <1>2, <1>3, <1>4, <1>5 DEF WriteHandoff, MoveToArchive, MoveBack

LEMMA RemoveHeld ==
    ASSUME Shape, NEW p \in Procs, HeldAt(p),
           \/ CheckWorktree(p) \/ RemoveWorktree(p) \/ LogRemoved(p) \/ PruneBranch(p)
           \/ RemoveTickets(p) \/ RemoveRecord(p)
    PROVE  HeldAt(p)'
  <1> USE DEF Shape, data, disk, gitVars, At
  <1>1. Fits(p, pc[p], copy[p]) /\ copy[p] \in Good \cup {Absent} /\ OwnShape
    BY DEF OwnShape
  <1>2. /\ pc[p] \in {"check", "remove", "logremoved", "prunebranch", "rmtickets", "rmrecord"}
        /\ Cmd(p) \in {"archive", "cleanup", "delete", "prune"} /\ Takes(Cmd(p), pc[p])
        /\ Task(p) \in Tasks /\ (Cmd(p) # "prune" => copy[p] \in Good)
    BY <1>1 DEF Fits, Takes, Untargeted, Lists, CopySteps, CheckWorktree, RemoveWorktree,
                LogRemoved, PruneBranch, RemoveTickets, RemoveRecord
  <1>3. CASE Finish(p)
    BY <1>1, <1>2, <1>3, FinishHeld
  <1>4. backlog' = backlog \/ Finish(p)
    BY DEF CheckWorktree, RemoveWorktree, LogRemoved, PruneBranch, RemoveTickets, RemoveRecord
  <1>5. CASE Goto(p, "remove") /\ pc[p] = "check" /\ ~Finish(p)
    BY <1>1, <1>2, <1>4, <1>5, AfterTake DEF Goto, HeldAt, Making, Before, Between, CopySteps
  <1>6. CASE /\ ~Finish(p)
             /\ \/ Goto(p, "store") /\ Cmd(p) = "archive"
                \/ Goto(p, "rmtickets") /\ Cmd(p) = "delete"
                \/ Goto(p, "logremoved") /\ Cmd(p) = "delete"
                \/ Goto(p, "rmrecord") /\ Cmd(p) = "delete"
    <2>1. PICK step \in {"store", "rmtickets", "logremoved", "rmrecord"} :
             Goto(p, step) /\ (IF step = "store" THEN Cmd(p) = "archive" ELSE Cmd(p) = "delete")
      BY <1>6
    <2>2. backlog[Task(p)] # Absent
      BY <1>2, <2>1 DEF HeldAt, CopySteps
    <2>3. QED
      BY <1>1, <1>2, <1>4, <1>6, <2>1, <2>2, AfterTake
        DEF Goto, HeldAt, Making, Before, Between, CopySteps
  <1>7. CASE Goto(p, "prunebranch") /\ Cmd(p) = "archive" /\ pc[p] = "logremoved" /\ ~Finish(p)
    BY <1>1, <1>2, <1>4, <1>7, AfterTake DEF Goto, HeldAt, Making, Before, Between, CopySteps
  <1>8. ASSUME NEW step, Take(p, step, [copy[p] EXCEPT !.worktree = FALSE]), ~Finish(p),
               \/ step = "store" /\ Cmd(p) = "cleanup"
               \/ step = "logremoved" /\ Cmd(p) = "archive"
        PROVE  HeldAt(p)'
    <2> DEFINE rec == [copy[p] EXCEPT !.worktree = FALSE]
    <2>1. rec.worktree = FALSE
      BY <1>2, <1>8 DEF Good, Records
    <2>2. backlog[Task(p)] # Absent
      BY <1>2, <1>8 DEF HeldAt, CopySteps
    <2>3. Take(p, step, rec)
      BY <1>8
    <2> HIDE DEF rec
    <2>4. QED
      BY <1>1, <1>2, <1>4, <1>8, <2>1, <2>2, <2>3, AfterTake
        DEF HeldAt, Making, Before, Between, CopySteps
  <1>9. CASE CheckWorktree(p)
    BY <1>2, <1>3, <1>5, <1>6, <1>9 DEF CheckWorktree, Kept
  <1>10. CASE RemoveWorktree(p)
    <2>1. CASE Kept(p)
      BY <1>2, <1>3, <1>6, <2>1 DEF Kept
    <2>2. CASE ~Kept(p)
      <3>1. CASE Cmd(p) = "cleanup"
        BY <1>3, <1>8, <1>10, <2>2, <3>1 DEF RemoveWorktree
      <3>2. CASE Cmd(p) = "archive"
        BY <1>3, <1>8, <1>10, <2>2, <3>2 DEF RemoveWorktree
      <3>3. CASE Cmd(p) \in {"delete", "prune"}
        BY <1>3, <1>6, <1>10, <2>2, <3>3 DEF RemoveWorktree
      <3>4. QED
        BY <1>2, <3>1, <3>2, <3>3
    <2>3. QED
      BY <2>1, <2>2
  <1>11. CASE LogRemoved(p)
    <2>1. Cmd(p) \in {"cleanup", "delete", "archive"} /\ pc[p] = "logremoved"
      BY <1>2, <1>11 DEF LogRemoved, Takes, Lists
    <2>2. QED
      BY <1>3, <1>6, <1>7, <1>11, <2>1 DEF LogRemoved
  <1>12. CASE PruneBranch(p) \/ RemoveTickets(p)
    <2>1. PruneBranch(p) => Cmd(p) = "archive"
      BY <1>2 DEF PruneBranch, Takes, Lists
    <2>2. RemoveTickets(p) => Cmd(p) = "delete"
      BY <1>2 DEF RemoveTickets, Takes, Lists
    <2>3. QED
      BY <1>3, <1>6, <1>12, <2>1, <2>2 DEF PruneBranch, RemoveTickets
  <1>13. QED
    BY <1>3, <1>9, <1>10, <1>11, <1>12 DEF RemoveRecord

LEMMA BulkHeld ==
    ASSUME Shape, NEW p \in Procs, HeldAt(p),
           ListTasks(p) \/ ListOrphans(p) \/ NextTask(p) \/ Restore(p)
    PROVE  HeldAt(p)'
  <1> USE DEF Shape, data, disk, gitVars, At
  <1>1. /\ Fits(p, pc[p], copy[p]) /\ OwnShape /\ backlog' = backlog
        /\ Takes(Cmd(p), pc[p]) /\ pc[p] \in {"list", "orphans", "next", "restore"}
    BY DEF OwnShape, Fits, ListTasks, ListOrphans, NextTask, Restore
  <1>2. CASE Stop(p) /\ ~Restore(p)
    <2>1. /\ pc'[p] = "idle" /\ Cmd(p)' = "none"
      BY <1>1, <1>2 DEF Stop, OwnShape, Cmd, NoJob
    <2>2. QED
      BY <2>1 DEF HeldAt, Making, Before, Between, CopySteps
  <1>3. CASE Restore(p)
    <2>1. pc[p] = "restore" /\ Finish(p)
      BY <1>3 DEF Restore
    <2>2. QED
      BY <1>1, <2>1, FinishHeld
  <1>4. CASE ListTasks(p) /\ ~Stop(p)
    <2>1. /\ pc'[p] \in {"orphans", "next"} /\ job' = job
          /\ pc'[p] = "orphans" \/ Cmd(p) = "reconcile" => snap'[p] = backlog
          /\ pc'[p] = "orphans" => Cmd(p) = "prune"
      BY <1>1, <1>4 DEF ListTasks, OwnShape
    <2>2. QED
      BY <1>1, <2>1 DEF HeldAt, Making, Before, Between, CopySteps, Cmd, Takes, Lists
  <1>5. CASE ListOrphans(p) /\ ~Stop(p)
    <2>1. pc'[p] = "next" /\ job' = job /\ Cmd(p) = "prune"
      BY <1>1, <1>5 DEF ListOrphans, OwnShape, Takes, Lists
    <2>2. QED
      BY <1>1, <2>1 DEF HeldAt, Making, Before, Between, CopySteps, Cmd
  <1>6. CASE NextTask(p)
    <2>1. PICK t \in todo[p] : /\ job' = [job EXCEPT ![p].task = t]
                               /\ copy' = [copy EXCEPT ![p] = IF Cmd(p) = "reconcile" THEN snap[p][t] ELSE Absent]
      BY <1>6 DEF NextTask
    <2>2. Task(p)' = t /\ Cmd(p)' = Cmd(p)
      BY <1>1, <2>1 DEF OwnShape, Jobs, Task, Cmd
    <2>3. /\ pc[p] = "next" /\ snap' = snap /\ cli' = cli
          /\ pc'[p] = CASE Cmd(p) = "reconcile" -> "restore"
                        [] Cmd(p) = "prune" -> "check"
                        [] OTHER -> "get"
      BY <1>1, <1>6 DEF NextTask, OwnShape
    <2>4. CASE Cmd(p) = "reconcile"
      <3>1. snap[p] = backlog /\ snap[p][t] # Absent
        BY <1>1, <2>3, <2>4 DEF HeldAt, Fits
      <3>2. copy'[p] = backlog[t] /\ backlog[t] # Absent
        BY <1>1, <2>1, <2>4, <3>1 DEF OwnShape
      <3>3. QED
        BY <1>1, <2>2, <2>3, <2>4, <3>1, <3>2 DEF HeldAt, Making, Before, Between, CopySteps
    <2>5. CASE Cmd(p) # "reconcile"
      <3>1. Cmd(p) \in {"prune", "startall", "closeall"}
        BY <1>1, <2>3, <2>5 DEF Takes
      <3>2. pc'[p] \in {"check", "get"} /\ (pc'[p] = "check" => Cmd(p) = "prune")
        BY <2>3, <2>5, <3>1
      <3>3. QED
        BY <1>1, <2>2, <2>3, <3>1, <3>2 DEF HeldAt, Making, Before, Between, CopySteps
    <2>6. QED
      BY <2>4, <2>5
  <1>7. QED
    BY <1>2, <1>3, <1>4, <1>5, <1>6

LEMMA BeginHeld ==
    ASSUME Shape, NEW p \in Procs, HeldInv(p), Begin(p)
    PROVE  HeldInv(p)'
  <1> USE DEF Shape, OwnShape, DataShape
  <1>1. PICK j \in Requests :
           /\ job' = [job EXCEPT ![p] = j]
           /\ pc' = [pc EXCEPT ![p] = FirstStep(j.cmd)]
           /\ used' = used \cup (IF j.cmd = "create" THEN {j.task} ELSE {})
    BY DEF Begin
  <1>2. UNCHANGED <<backlog, copy, cli, snap>>
    BY DEF Begin
  <1>3. /\ pc'[p] = FirstStep(j.cmd) /\ Cmd(p)' = j.cmd /\ Task(p)' = j.task
    BY <1>1 DEF Cmd, Task
  <1>4. /\ FirstStep(j.cmd) \in {"add", "start", "list", "cliget", "get"}
        /\ j.cmd = "create" => j.task \in Tasks \ used
    BY FirstStepFits
  <1>5. /\ FirstStep(j.cmd) = "add" => j.cmd = "create"
        /\ FirstStep(j.cmd) = "get" => j.cmd # "status+owner"
        /\ j.cmd = "reconcile" => FirstStep(j.cmd) = "list"
    BY DEF FirstStep, Lists
  <1>6. FirstStep(j.cmd) = "add" => backlog'[j.task] = Absent /\ j.task \in used'
    BY <1>1, <1>2, <1>4, <1>5 DEF HeldInv, KnownAreUsed
  <1>7. KnownAreUsed'
    BY <1>1, <1>2 DEF HeldInv, KnownAreUsed
  <1>8. HeldAt(p)'
    BY <1>2, <1>3, <1>4, <1>5, <1>6 DEF HeldAt, Making, Before, Between, CopySteps
  <1>9. QED
    BY <1>7, <1>8 DEF HeldInv

LEMMA KnownPreserved ==
    ASSUME Shape, NEW p \in Procs, HeldInv(p), Step(p)
    PROVE  KnownAreUsed'
  <1> USE DEF Shape, data, disk, gitVars, At, HeldInv, KnownAreUsed
  <1>1. used' = used
    <2>1. CASE \/ AddRecord(p) \/ Bootstrap(p) \/ PickBranch(p) \/ MakeWorktree(p) \/ StoreNew(p)
               \/ LogCreated(p) \/ UndoTree(p) \/ UndoTicket(p) \/ UndoRecord(p)
      BY <2>1, Zenon DEF AddRecord, Bootstrap, PickBranch, MakeWorktree, StoreNew, LogCreated,
                  UndoTree, UndoTicket, UndoRecord
    <2>2. CASE \/ Get(p) \/ Start(p) \/ Store(p) \/ Render(p) \/ CliGet(p) \/ CliStore(p)
               \/ WriteHandoff(p) \/ MoveToArchive(p) \/ MoveBack(p)
      BY <2>2, Zenon DEF Get, Start, Store, Render, CliGet, CliStore, WriteHandoff, MoveToArchive, MoveBack
    <2>3. CASE \/ CheckWorktree(p) \/ RemoveWorktree(p) \/ LogRemoved(p) \/ PruneBranch(p)
               \/ RemoveTickets(p) \/ RemoveRecord(p)
               \/ ListTasks(p) \/ ListOrphans(p) \/ NextTask(p) \/ Restore(p)
      BY <2>3, Zenon DEF CheckWorktree, RemoveWorktree, LogRemoved, PruneBranch, RemoveTickets,
                  RemoveRecord, ListTasks, ListOrphans, NextTask, Restore
    <2>4. QED
      BY <2>1, <2>2, <2>3 DEF Step
  <1>2. ASSUME NEW rec, backlog' = [backlog EXCEPT ![Task(p)] = rec],
               rec = Absent \/ Task(p) \in used \/ backlog[Task(p)] # Absent
        PROVE  KnownAreUsed'
    BY <1>1, <1>2 DEF DataShape
  <1>3. CASE backlog' = backlog
    BY <1>1, <1>3
  <1>4. CASE AddRecord(p)
    BY <1>2, <1>3, <1>4 DEF AddRecord, HeldAt
  <1>5. CASE StoreNew(p) \/ Store(p) \/ CliStore(p)
    BY <1>2, <1>3, <1>5 DEF StoreNew, Store, CliStore, Update
  <1>6. CASE UndoRecord(p) \/ RemoveRecord(p)
    BY <1>2, <1>3, <1>6 DEF UndoRecord, RemoveRecord
  <1>7. CASE \/ Bootstrap(p) \/ PickBranch(p) \/ MakeWorktree(p) \/ LogCreated(p)
             \/ UndoTree(p) \/ UndoTicket(p) \/ Get(p) \/ Start(p) \/ Render(p) \/ CliGet(p)
    BY <1>3, <1>7 DEF Bootstrap, PickBranch, MakeWorktree, LogCreated, UndoTree, UndoTicket,
                      Get, Start, Render, CliGet
  <1>8. CASE \/ WriteHandoff(p) \/ MoveToArchive(p) \/ MoveBack(p) \/ CheckWorktree(p)
             \/ RemoveWorktree(p) \/ LogRemoved(p) \/ PruneBranch(p) \/ RemoveTickets(p)
             \/ ListTasks(p) \/ ListOrphans(p) \/ NextTask(p) \/ Restore(p)
    BY <1>3, <1>8 DEF WriteHandoff, MoveToArchive, MoveBack, CheckWorktree, RemoveWorktree,
                      LogRemoved, PruneBranch, RemoveTickets, ListTasks, ListOrphans, NextTask, Restore
  <1>9. QED
    BY <1>4, <1>5, <1>6, <1>7, <1>8 DEF Step

LEMMA HeldPreserved ==
    ASSUME Shape, NEW p, Procs = {p}, HeldInv(p), [Next]_vars
    PROVE  HeldInv(p)'
  <1>1. p \in Procs
    OBVIOUS
  <1>2. CASE Step(p)
    <2>1. HeldAt(p)'
      BY <1>1, <1>2, CreateHeld, GetHeld, LoadHeld, MoveHeld, RemoveHeld, BulkHeld DEF Step, HeldInv
    <2>2. QED
      BY <1>1, <1>2, <2>1, KnownPreserved DEF HeldInv
  <1>3. CASE Crash(p)
    <2>1. Stop(p) /\ UNCHANGED <<backlog, used>>
      BY <1>3 DEF Crash, data
    <2>2. pc'[p] = "idle" /\ Cmd(p)' = "none"
      BY <2>1 DEF Stop, Shape, OwnShape, Cmd, NoJob
    <2>3. HeldAt(p)'
      BY <2>2 DEF HeldAt, Making, Before, Between, CopySteps
    <2>4. QED
      BY <2>1, <2>3 DEF HeldInv, KnownAreUsed
  <1>4. CASE UNCHANGED <<data, own>>
    BY <1>4 DEF HeldInv, HeldAt, KnownAreUsed, data, own, Cmd, Task, Alike
  <1>5. QED
    <2>1. Next => Begin(p) \/ Step(p) \/ Crash(p) \/ \E t \in Tasks : User(t)
      BY DEF Next
    <2>2. (\E t \in Tasks : User(t)) \/ UNCHANGED vars => UNCHANGED <<data, own>>
      BY DEF User, vars
    <2>3. QED
      BY <1>1, <1>2, <1>3, <1>4, <2>1, <2>2, BeginHeld

LEMMA HeldInit == ASSUME Init, NEW p \in Procs PROVE HeldInv(p)
  BY DEF Init, HeldInv, HeldAt, KnownAreUsed, Nothing, NoJob, Cmd, Making, Before, Between, CopySteps

-----------------------------------------------------------------------------

(* The directory a record stands for, if there is one.                     *)
Home(rec) == IF rec = Absent THEN {} ELSE {Where(rec)}

FollowCopy == CopySteps \ {"bootstrap", "undorecord", "rmrecord", "clistore", "restore"}

(* The directories of the task that a process works on: those of its copy, *)
(* but for steps that have yet to make one or have removed it, and for     *)
(* those that leave directory and record alone.                            *)
Dirs(cmd, step, rec, stored) ==
    IF step \in {"bootstrap", "undorecord", "rmrecord"} THEN {}
    ELSE IF step \in FollowCopy /\ cmd # "prune" THEN {Where(rec)}
    ELSE Home(stored)

WorksOn(p, t) == pc[p] \notin Untargeted /\ Task(p) = t

TicketsFollow(p) ==
    \A t \in Tasks :
      tickets[t] = IF WorksOn(p, t) THEN Dirs(Cmd(p), pc[p], copy[p], backlog[t])
                   ELSE Home(backlog[t])

(* No death, no half-made directory, no failed removal of a record, and no *)
(* failed store behind a move.                                             *)
TicketFaults == {"crash", "bootstrap", "undorecord", "store"}

(* The directories and records of other tasks stay as they are.            *)
OthersStay(p) ==
    \A t \in Tasks : t # Task(p) => tickets'[t] = tickets[t] /\ backlog'[t] = backlog[t]

LEMMA FinishFollows ==
    ASSUME OwnShape, NEW p \in Procs, TicketsFollow(p), Finish(p) \/ Stop(p), OthersStay(p),
           Task(p) \in Tasks => tickets'[Task(p)] = Home(backlog'[Task(p)])
    PROVE  TicketsFollow(p)'
  <1>1. pc'[p] \in Untargeted
    BY AfterFinish DEF Untargeted
  <1>2. \A t \in Tasks : tickets'[t] = Home(backlog'[t])
    BY DEF OthersStay, TicketsFollow, WorksOn
  <1>3. QED
    BY <1>1, <1>2 DEF TicketsFollow, WorksOn, Home, Where

LEMMA TakeFollows ==
    ASSUME OwnShape, NEW p \in Procs, TicketsFollow(p), OthersStay(p),
           NEW step, NEW rec, Take(p, step, rec), step \notin Untargeted, Task(p) \in Tasks,
           tickets'[Task(p)] = Dirs(Cmd(p), step, rec, backlog'[Task(p)])
    PROVE  TicketsFollow(p)'
  <1>1. /\ pc'[p] = step /\ copy'[p] = rec /\ Cmd(p)' = Cmd(p) /\ Task(p)' = Task(p)
    BY AfterTake
  <1>2. \A t \in Tasks : t # Task(p) => tickets'[t] = Home(backlog'[t])
    BY DEF OthersStay, TicketsFollow, WorksOn
  <1>3. QED
    BY <1>1, <1>2 DEF TicketsFollow, WorksOn, Home, Where, Dirs

(* What the process at work finds.                                         *)
LEMMA FoundTickets ==
    ASSUME OwnShape, NEW p \in Procs, TicketsFollow(p), pc[p] \notin Untargeted
    PROVE  /\ Task(p) \in Tasks
           /\ tickets[Task(p)] = Dirs(Cmd(p), pc[p], copy[p], backlog[Task(p)])
  BY DEF OwnShape, Fits, TicketsFollow, WorksOn

LEMMA AlikeHome ==
    ASSUME NEW r, NEW s, Alike(r, s)
    PROVE  Home(r) = {Where(s)} /\ Home(s) = {Where(r)} /\ Home(r) = Home(s)
  BY DEF Alike, Home, Where

LEMMA CreateFollows ==
    ASSUME Shape, NEW p \in Procs, HeldAt(p), TicketsFollow(p), Faults \cap TicketFaults = {},
           \/ AddRecord(p) \/ Bootstrap(p) \/ PickBranch(p) \/ MakeWorktree(p) \/ StoreNew(p)
           \/ LogCreated(p) \/ UndoTree(p) \/ UndoTicket(p) \/ UndoRecord(p)
    PROVE  TicketsFollow(p)'
  <1> USE DEF data, disk, gitVars, At
  <1> DEFINE t == Task(p)
  <1>1. /\ OwnShape /\ Fits(p, pc[p], copy[p]) /\ copy[p] \in Good \cup {Absent}
        /\ "bootstrap" \notin Faults /\ "undorecord" \notin Faults
    BY DEF Shape, OwnShape, TicketFaults
  <1>2. /\ Cmd(p) = "create" /\ t \in Tasks /\ pc[p] \notin Untargeted
        /\ pc[p] # "add" => copy[p] \in Good
    BY <1>1 DEF Fits, Takes, Untargeted, Lists, CopySteps, AddRecord, Bootstrap, PickBranch,
                MakeWorktree, StoreNew, LogCreated, UndoTree, UndoTicket, UndoRecord
  <1>3. /\ tickets[t] = Dirs("create", pc[p], copy[p], backlog[t])
        /\ backlog \in [Tasks -> Good \cup {Absent}] /\ tickets \in [Tasks -> SUBSET Places]
    BY <1>1, <1>2, FoundTickets DEF Shape, DataShape, DiskShape
  <1>4. New # Absent /\ NewRecord # Absent
    BY PlacesFromRecords, NewIsGood, AbsentAssumption, GoodEdits
  <1>5. CASE AddRecord(p)
    <2>1. pc[p] = "add" /\ tickets[t] = {} /\ tickets' = tickets
      BY <1>3, <1>5 DEF AddRecord, HeldAt, Dirs, FollowCopy, CopySteps, Home
    <2>2. CASE Finish(p) /\ backlog' = backlog
      BY <1>1, <2>1, <2>2, FinishFollows DEF OthersStay, HeldAt, Home
    <2>3. CASE Take(p, "bootstrap", NewRecord) /\ backlog' = [backlog EXCEPT ![t] = NewRecord]
      <3>1. OthersStay(p)
        BY <1>3, <2>1, <2>3 DEF OthersStay
      <3>2. tickets'[t] = Dirs(Cmd(p), "bootstrap", NewRecord, backlog'[t])
        BY <2>1 DEF Dirs
      <3>3. QED
        BY <1>1, <1>2, <2>3, <3>1, <3>2, TakeFollows DEF Untargeted
    <2>4. QED
      BY <1>5, <2>2, <2>3 DEF AddRecord
  <1>6. CASE Bootstrap(p)
    <2> DEFINE step == IF job[p].opt = "repo" THEN "branch" ELSE "storenew"
               rec == [copy[p] EXCEPT !.place = New]
    <2>1. /\ pc[p] = "bootstrap" /\ tickets' = [tickets EXCEPT ![t] = @ \cup {New}]
          /\ Take(p, step, rec) /\ backlog' = backlog
      BY <1>1, <1>6 DEF Bootstrap
    <2>2. rec.place = New
      BY <1>2, <2>1 DEF Good, Records
    <2> HIDE DEF rec
    <2>3. tickets'[t] = Dirs(Cmd(p), step, rec, backlog'[t])
      BY <1>2, <1>3, <1>4, <2>1, <2>2 DEF Dirs, FollowCopy, CopySteps, Where
    <2>4. OthersStay(p)
      BY <1>3, <2>1 DEF OthersStay
    <2>5. QED
      BY <1>1, <1>2, <2>1, <2>3, <2>4, TakeFollows DEF Untargeted
  <1>7. ASSUME NEW step \in {"worktree", "storenew", "undotree", "undoticket", "logcreated"},
               NEW rec, Take(p, step, rec), rec.place = copy[p].place, pc[p] \in FollowCopy,
               tickets' = tickets, OthersStay(p)
        PROVE  TicketsFollow(p)'
    <2>1. tickets'[t] = Dirs(Cmd(p), step, rec, backlog'[t])
      BY <1>2, <1>3, <1>7 DEF Dirs, FollowCopy, CopySteps, Where
    <2>2. QED
      BY <1>1, <1>2, <1>7, <2>1, TakeFollows DEF Untargeted
  <1>8. CASE PickBranch(p)
    <2>1. pc[p] \in FollowCopy /\ tickets' = tickets /\ OthersStay(p) /\ copy[p] \in Good
      BY <1>2, <1>8 DEF PickBranch, FollowCopy, CopySteps, OthersStay
    <2>2. CASE Goto(p, "undoticket")
      BY <1>7, <2>1, <2>2 DEF Goto
    <2>3. ASSUME NEW b, Take(p, "worktree", [copy[p] EXCEPT !.branch = b]) PROVE TicketsFollow(p)'
      <3>1. [copy[p] EXCEPT !.branch = b].place = copy[p].place
        BY <2>1 DEF Good, Records
      <3>2. QED
        BY <1>7, <2>1, <2>3, <3>1
    <2>4. QED
      BY <1>8, <2>2, <2>3 DEF PickBranch
  <1>9. CASE MakeWorktree(p)
    <2>1. pc[p] \in FollowCopy /\ tickets' = tickets /\ OthersStay(p) /\ copy[p] \in Good
      BY <1>2, <1>9 DEF MakeWorktree, FollowCopy, CopySteps, OthersStay
    <2>2. [copy[p] EXCEPT !.worktree = TRUE].place = copy[p].place
      BY <2>1 DEF Good, Records
    <2>3. QED
      BY <1>7, <1>9, <2>1, <2>2 DEF MakeWorktree, Goto
  <1>10. CASE StoreNew(p)
    <2>1. pc[p] \in FollowCopy /\ tickets' = tickets /\ OthersStay(p)
      BY <1>3, <1>10 DEF StoreNew, FollowCopy, CopySteps, OthersStay, Update
    <2>2. QED
      BY <1>7, <1>10, <2>1 DEF StoreNew, Goto
  <1>11. CASE LogCreated(p)
    <2>1. pc[p] = "logcreated" /\ tickets' = tickets /\ backlog' = backlog /\ Finish(p)
      BY <1>11 DEF LogCreated
    <2>2. copy[p] = backlog[t] /\ backlog[t] # Absent
      BY <1>2, <2>1 DEF HeldAt, CopySteps
    <2>3. tickets'[t] = Home(backlog'[t])
      BY <1>3, <2>1, <2>2 DEF Dirs, FollowCopy, CopySteps, Home
    <2>4. QED
      BY <1>1, <2>1, <2>3, FinishFollows DEF OthersStay
  <1>12. CASE UndoTree(p)
    <2>1. pc[p] \in FollowCopy /\ tickets' = tickets /\ OthersStay(p)
      BY <1>12 DEF UndoTree, FollowCopy, CopySteps, OthersStay
    <2>2. QED
      BY <1>7, <1>12, <2>1 DEF UndoTree, Goto
  <1>13. CASE UndoTicket(p)
    <2>1. /\ pc[p] = "undoticket" /\ tickets' = [tickets EXCEPT ![t] = @ \ {New}]
          /\ Take(p, "undorecord", copy[p]) /\ backlog' = backlog
      BY <1>13 DEF UndoTicket, Goto
    <2>2. copy[p].place = New
      BY <2>1 DEF HeldAt
    <2>3. tickets'[t] = Dirs(Cmd(p), "undorecord", copy[p], backlog'[t])
      BY <1>2, <1>3, <1>4, <2>1, <2>2 DEF Dirs, FollowCopy, CopySteps, Where
    <2>4. OthersStay(p)
      BY <1>3, <2>1 DEF OthersStay
    <2>5. QED
      BY <1>1, <1>2, <2>1, <2>3, <2>4, TakeFollows DEF Untargeted
  <1>14. CASE UndoRecord(p)
    <2>1. /\ pc[p] = "undorecord" /\ backlog' = [backlog EXCEPT ![t] = Absent]
          /\ Finish(p) /\ tickets' = tickets
      BY <1>1, <1>14 DEF UndoRecord
    <2>2. tickets'[t] = Home(backlog'[t]) /\ OthersStay(p)
      BY <1>2, <1>3, <2>1 DEF Dirs, Home, OthersStay
    <2>3. QED
      BY <1>1, <2>1, <2>2, FinishFollows
  <1>15. QED
    BY <1>5, <1>6, <1>8, <1>9, <1>10, <1>11, <1>12, <1>13, <1>14

LEMMA LoadFollows ==
    ASSUME Shape, NEW p \in Procs, HeldAt(p), TicketsFollow(p), Faults \cap TicketFaults = {},
           \/ Get(p) \/ Start(p) \/ Store(p) \/ Render(p) \/ CliGet(p) \/ CliStore(p)
    PROVE  TicketsFollow(p)'
  <1> USE DEF data, disk, gitVars, At
  <1> DEFINE t == Task(p)
  <1>1. /\ OwnShape /\ Fits(p, pc[p], copy[p]) /\ job[p] \in Jobs /\ "store" \notin Faults
    BY DEF Shape, OwnShape, TicketFaults
  <1>2. /\ Cmd(p) # "prune" /\ t \in Tasks /\ pc[p] \notin Untargeted /\ Takes(Cmd(p), pc[p])
        /\ tickets' = tickets
    BY <1>1 DEF Fits, Takes, Untargeted, Lists, Get, Start, Store, Render, CliGet, CliStore
  <1>3. /\ tickets[t] = Dirs(Cmd(p), pc[p], copy[p], backlog[t])
        /\ backlog \in [Tasks -> Good \cup {Absent}]
    BY <1>1, <1>2, FoundTickets DEF Shape, DataShape
  <1>4. CASE Get(p)
    <2> DEFINE b == backlog[t]
               step == StepAfterGet(Cmd(p), b)
               rec == [b EXCEPT !.status = StatusAfter(job[p], b)]
    <2>1. tickets[t] = Home(b) /\ OthersStay(p) /\ pc[p] = "get" /\ backlog' = backlog
      BY <1>2, <1>3, <1>4 DEF Get, Dirs, FollowCopy, CopySteps, OthersStay
    <2>2. CASE Finish(p)
      BY <1>1, <1>2, <2>1, <2>2, FinishFollows
    <2>3. CASE ~Finish(p)
      <3>1. b \in Good /\ b # Absent /\ Take(p, step, rec)
        BY <1>2, <1>3, <1>4, <2>3 DEF Get
      <3>2. rec.place = b.place
        BY <3>1 DEF Good, Records
      <3>3. step \in {"handoff", "moveback", "check", "rmtickets", "render", "store"}
        BY <1>2, <2>1, <3>1, AfterGet
      <3> HIDE DEF step, rec
      <3>4. tickets'[t] = Dirs(Cmd(p), step, rec, backlog'[t])
        BY <1>2, <2>1, <3>1, <3>2, <3>3 DEF Dirs, FollowCopy, CopySteps, Where, Home
      <3>5. QED
        BY <1>1, <1>2, <2>1, <3>1, <3>3, <3>4, TakeFollows DEF Untargeted
    <2>4. QED
      BY <2>2, <2>3
  <1>5. CASE Start(p)
    <2>1. tickets[t] = Home(backlog[t]) /\ OthersStay(p) /\ backlog' = backlog
      BY <1>2, <1>3, <1>5 DEF Start, Dirs, FollowCopy, CopySteps, OthersStay
    <2>2. tickets'[t] = Dirs(Cmd(p), "get", copy[p], backlog'[t])
      BY <1>2, <2>1 DEF Dirs, FollowCopy, CopySteps
    <2>3. QED
      BY <1>1, <1>2, <1>5, <2>1, <2>2, FinishFollows, TakeFollows DEF Start, Goto, Untargeted
  <1>6. CASE Store(p)
    <2>1. pc[p] = "store" /\ backlog[t] # Absent /\ tickets[t] = {Where(copy[p])}
      BY <1>2, <1>3, <1>6 DEF Store, HeldAt, Dirs, FollowCopy, CopySteps
    <2>2. /\ backlog' = [backlog EXCEPT ![t] = copy[p]]
          /\ IF StepAfterStore(p) = "done" THEN Finish(p) ELSE Goto(p, StepAfterStore(p))
      BY <1>1, <1>6, <2>1 DEF Store, Update, UpdateFails
    <2>3. copy[p] # Absent /\ backlog'[t] = copy[p] /\ OthersStay(p)
      BY <1>1, <1>2, <1>3, <2>1, <2>2 DEF Fits, CopySteps, OthersStay
    <2>4. tickets'[t] = Home(backlog'[t])
      BY <1>2, <2>1, <2>3 DEF Home
    <2>5. StepAfterStore(p) \in {"logremoved", "clistore", "render", "done"}
      BY DEF StepAfterStore
    <2>6. ASSUME NEW step \in {"logremoved", "clistore", "render"}, Take(p, step, copy[p])
          PROVE  TicketsFollow(p)'
      <3>1. tickets'[t] = Dirs(Cmd(p), step, copy[p], backlog'[t])
        BY <1>2, <2>1, <2>4, <2>6 DEF Dirs, FollowCopy, CopySteps
      <3>2. QED
        BY <1>1, <1>2, <2>3, <2>6, <3>1, TakeFollows DEF Untargeted
    <2>7. QED
      BY <1>1, <2>2, <2>3, <2>4, <2>5, <2>6, FinishFollows DEF Goto
  <1>7. CASE Render(p)
    <2>1. Alike(backlog[t], copy[p]) /\ Finish(p) /\ backlog' = backlog /\ pc[p] = "render"
      BY <1>7 DEF Render, HeldAt
    <2>2. tickets[t] = Home(backlog[t])
      BY <1>2, <1>3, <2>1, AlikeHome DEF Dirs, FollowCopy, CopySteps
    <2>3. QED
      BY <1>1, <1>2, <2>1, <2>2, FinishFollows DEF OthersStay
  <1>8. CASE CliGet(p)
    <2>1. tickets[t] = Home(backlog[t]) /\ OthersStay(p) /\ backlog' = backlog
      BY <1>2, <1>3, <1>8 DEF CliGet, Dirs, FollowCopy, CopySteps, OthersStay
    <2>2. CASE Stop(p)
      BY <1>1, <1>2, <2>1, <2>2, FinishFollows
    <2>3. CASE ~Stop(p)
      <3>1. pc'[p] = "get" /\ job' = job
        BY <1>1, <1>8, <2>3 DEF CliGet, OwnShape
      <3>2. \A u \in Tasks : tickets'[u] = Home(backlog'[u])
        BY <1>2, <2>1 DEF TicketsFollow, WorksOn, OthersStay
      <3>3. QED
        BY <3>1, <3>2 DEF TicketsFollow, WorksOn, Dirs, FollowCopy, CopySteps, Home, Where, Cmd, Task
    <2>4. QED
      BY <2>2, <2>3
  <1>9. CASE CliStore(p)
    <2>1. pc[p] = "clistore" /\ Finish(p) /\ Cmd(p) = "status+owner"
      BY <1>2, <1>9 DEF CliStore, Takes, Lists
    <2>2. Alike(cli[p], backlog[t]) /\ tickets[t] = Home(backlog[t])
      BY <1>3, <2>1 DEF HeldAt, Dirs, FollowCopy, CopySteps
    <2>3. backlog' = backlog \/ backlog' = [backlog EXCEPT ![t] = cli[p]]
      BY <1>9 DEF CliStore, Update
    <2>4. Home(backlog'[t]) = Home(backlog[t])
      BY <1>2, <1>3, <2>2, <2>3, AlikeHome
    <2>5. OthersStay(p)
      BY <1>2, <1>3, <2>3 DEF OthersStay
    <2>6. QED
      BY <1>1, <1>2, <2>1, <2>2, <2>4, <2>5, FinishFollows
  <1>10. QED
    BY <1>4, <1>5, <1>6, <1>7, <1>8, <1>9

LEMMA MoveFollows ==
    ASSUME Shape, NEW p \in Procs, HeldAt(p), TicketsFollow(p), Faults \cap TicketFaults = {},
           WriteHandoff(p) \/ MoveToArchive(p) \/ MoveBack(p)
    PROVE  TicketsFollow(p)'
  <1> USE DEF data, disk, gitVars, At
  <1> DEFINE t == Task(p)
  <1>1. OwnShape /\ Fits(p, pc[p], copy[p])
    BY DEF Shape, OwnShape
  <1>2. /\ pc[p] \in {"handoff", "move", "moveback"} /\ Cmd(p) \in {"archive", "unarchive"}
        /\ t \in Tasks /\ pc[p] \notin Untargeted /\ copy[p] \in Good /\ backlog' = backlog
    BY <1>1 DEF OwnShape, Fits, Takes, Untargeted, Lists, CopySteps, WriteHandoff, MoveToArchive, MoveBack
  <1>3. /\ tickets[t] = {Where(copy[p])} /\ Alike(backlog[t], copy[p])
        /\ tickets \in [Tasks -> SUBSET Places]
    BY <1>1, <1>2, FoundTickets DEF Shape, DiskShape, HeldAt, Dirs, FollowCopy, CopySteps
  <1>4. CASE Finish(p) /\ tickets' = tickets
    <2>1. tickets'[t] = Home(backlog'[t])
      BY <1>2, <1>3, <1>4, AlikeHome
    <2>2. QED
      BY <1>1, <1>2, <1>4, <2>1, FinishFollows DEF OthersStay
  <1>5. CASE WriteHandoff(p)
    <2>1. tickets' = tickets
      BY <1>5 DEF WriteHandoff
    <2>2. CASE Goto(p, "move")
      <3>1. tickets'[t] = Dirs(Cmd(p), "move", copy[p], backlog'[t])
        BY <1>2, <1>3, <2>1 DEF Dirs, FollowCopy, CopySteps
      <3>2. QED
        BY <1>1, <1>2, <2>1, <2>2, <3>1, TakeFollows DEF OthersStay, Goto, Untargeted
    <2>3. QED
      BY <1>4, <1>5, <2>1, <2>2 DEF WriteHandoff
  <1>6. ASSUME NEW s, NEW to \in Places, NEW step \in {"check", "store"},
               Take(p, step, [copy[p] EXCEPT !.status = s, !.place = to]),
               MoveTicket(t, Where(copy[p]), to)
        PROVE  TicketsFollow(p)'
    <2> DEFINE rec == [copy[p] EXCEPT !.status = s, !.place = to]
    <2>1. rec.place = to /\ to # Absent
      BY <1>2, AbsentAssumption DEF Good, Records
    <2>2. Take(p, step, rec)
      BY <1>6
    <2> HIDE DEF rec
    <2>3. tickets'[t] = {to} /\ OthersStay(p)
      BY <1>2, <1>3, <1>6 DEF MoveTicket, OthersStay
    <2>4. tickets'[t] = Dirs(Cmd(p), step, rec, backlog'[t])
      BY <1>2, <1>6, <2>1, <2>3 DEF Dirs, FollowCopy, CopySteps, Where
    <2>5. QED
      BY <1>1, <1>2, <1>6, <2>2, <2>3, <2>4, TakeFollows DEF Untargeted
  <1>7. CASE MoveToArchive(p)
    <2>1. Deeper(Where(copy[p])) \in Places
      BY <1>2, <1>7, PlacesFromRecords DEF MoveToArchive
    <2>2. QED
      BY <1>4, <1>6, <1>7, <2>1 DEF MoveToArchive
  <1>8. CASE MoveBack(p)
    <2>1. Shallower(Where(copy[p])) \in Places
      BY <1>2, PlacesFromRecords
    <2>2. QED
      BY <1>4, <1>6, <1>8, <2>1 DEF MoveBack
  <1>9. QED
    BY <1>5, <1>7, <1>8

LEMMA RemoveFollows ==
    ASSUME Shape, NEW p \in Procs, HeldAt(p), TicketsFollow(p), Faults \cap TicketFaults = {},
           \/ CheckWorktree(p) \/ RemoveWorktree(p) \/ LogRemoved(p) \/ PruneBranch(p)
           \/ RemoveTickets(p) \/ RemoveRecord(p)
    PROVE  TicketsFollow(p)'
  <1> USE DEF data, disk, gitVars, At
  <1> DEFINE t == Task(p)
  <1>1. /\ OwnShape /\ Fits(p, pc[p], copy[p])
        /\ backlog \in [Tasks -> Good \cup {Absent}] /\ tickets \in [Tasks -> SUBSET Places]
    BY DEF Shape, OwnShape, DataShape, DiskShape
  <1>2. /\ pc[p] \in {"check", "remove", "logremoved", "prunebranch", "rmtickets", "rmrecord"}
        /\ Cmd(p) \in {"archive", "cleanup", "delete", "prune"} /\ Takes(Cmd(p), pc[p])
        /\ t \in Tasks /\ pc[p] \notin Untargeted /\ (Cmd(p) # "prune" => copy[p] \in Good)
    BY <1>1 DEF OwnShape, Fits, Takes, Untargeted, Lists, CopySteps, CheckWorktree, RemoveWorktree,
                LogRemoved, PruneBranch, RemoveTickets, RemoveRecord
  <1>3. tickets[t] = Dirs(Cmd(p), pc[p], copy[p], backlog[t])
    BY <1>1, <1>2, FoundTickets
  <1>4. ASSUME NEW step \in {"remove", "store", "logremoved", "prunebranch", "rmtickets"},
               NEW rec, Take(p, step, rec), Cmd(p) = "prune" \/ rec.place = copy[p].place,
               pc[p] # "rmrecord", UNCHANGED <<tickets, backlog>>
        PROVE  TicketsFollow(p)'
    <2>1. tickets'[t] = Dirs(Cmd(p), step, rec, backlog'[t])
      BY <1>2, <1>3, <1>4 DEF Dirs, FollowCopy, CopySteps, Where
    <2>2. QED
      BY <1>1, <1>2, <1>4, <2>1, TakeFollows DEF OthersStay, Untargeted
  <1>5. CASE /\ Finish(p) /\ UNCHANGED <<tickets, backlog>>
             /\ Cmd(p) \in {"prune", "cleanup"}
    <2>1. Cmd(p) = "cleanup" => pc[p] \in {"check", "remove", "logremoved"}
      BY <1>2, <1>5 DEF Takes, Lists
    <2>2. Cmd(p) = "prune" => pc[p] \in {"check", "remove"}
      BY <1>2 DEF Takes, Lists
    <2>3. tickets[t] = Home(backlog[t])
      <3>1. CASE Cmd(p) = "prune"
        BY <1>3, <2>2, <3>1 DEF Dirs, FollowCopy, CopySteps
      <3>2. CASE Cmd(p) = "cleanup" /\ pc[p] = "logremoved"
        <4>1. backlog[t] = copy[p] /\ backlog[t] # Absent
          BY <3>2 DEF HeldAt, CopySteps
        <4>2. QED
          BY <1>3, <3>2, <4>1 DEF Dirs, FollowCopy, CopySteps, Home
      <3>3. CASE Cmd(p) = "cleanup" /\ pc[p] \in {"check", "remove"}
        <4>1. Alike(backlog[t], copy[p])
          BY <3>3 DEF HeldAt
        <4>2. QED
          BY <1>3, <3>3, <4>1, AlikeHome DEF Dirs, FollowCopy, CopySteps
      <3>4. QED
        BY <1>5, <2>1, <3>1, <3>2, <3>3
    <2>4. QED
      BY <1>1, <1>2, <1>5, <2>3, FinishFollows DEF OthersStay
  <1>6. CASE CheckWorktree(p)
    BY <1>2, <1>4, <1>5, <1>6 DEF CheckWorktree, Kept, Goto
  <1>7. CASE RemoveWorktree(p)
    <2>1. UNCHANGED <<tickets, backlog>> /\ pc[p] = "remove"
      BY <1>7 DEF RemoveWorktree
    <2>2. CASE Kept(p)
      BY <1>2, <1>4, <1>5, <2>1, <2>2 DEF Kept, Goto
    <2>3. CASE ~Kept(p)
      <3>1. CASE Cmd(p) \in {"cleanup", "archive"}
        <4>1. [copy[p] EXCEPT !.worktree = FALSE].place = copy[p].place
          BY <1>2, <3>1 DEF Good, Records
        <4>2. \E step \in {"store", "logremoved"} : Take(p, step, [copy[p] EXCEPT !.worktree = FALSE])
          BY <1>7, <2>3, <3>1 DEF RemoveWorktree
        <4>3. QED
          BY <1>4, <2>1, <4>1, <4>2
      <3>2. CASE Cmd(p) = "delete"
        BY <1>4, <1>7, <2>1, <2>3, <3>2 DEF RemoveWorktree, Goto
      <3>3. CASE Cmd(p) = "prune"
        BY <1>5, <1>7, <2>1, <2>3, <3>3 DEF RemoveWorktree
      <3>4. QED
        BY <1>2, <3>1, <3>2, <3>3
    <2>4. QED
      BY <2>2, <2>3
  <1>8. CASE LogRemoved(p)
    <2>1. Cmd(p) \in {"cleanup", "delete", "archive"} /\ pc[p] = "logremoved"
      BY <1>2, <1>8 DEF LogRemoved, Takes, Lists
    <2>2. UNCHANGED <<tickets, backlog>>
      BY <1>8 DEF LogRemoved
    <2>3. CASE Finish(p) /\ Cmd(p) = "cleanup"
      BY <1>5, <2>1, <2>2, <2>3
    <2>4. ASSUME NEW step \in {"rmtickets", "prunebranch", "store"}, Goto(p, step)
          PROVE  TicketsFollow(p)'
      BY <1>4, <2>1, <2>2, <2>4 DEF Goto
    <2>5. QED
      BY <1>8, <2>1, <2>3, <2>4 DEF LogRemoved
  <1>9. CASE PruneBranch(p)
    BY <1>4, <1>9 DEF PruneBranch, Goto
  <1>10. CASE RemoveTickets(p)
    <2>1. /\ pc[p] = "rmtickets" /\ Cmd(p) = "delete" /\ backlog' = backlog
          /\ tickets' = [tickets EXCEPT ![t] = @ \ {Where(copy[p]), Flat, Deeper(Flat)}]
          /\ Take(p, "rmrecord", copy[p])
      BY <1>2, <1>10 DEF RemoveTickets, Goto, Takes, Lists
    <2>2. tickets'[t] = {} /\ OthersStay(p)
      BY <1>1, <1>2, <1>3, <2>1 DEF Dirs, FollowCopy, CopySteps, OthersStay
    <2>3. tickets'[t] = Dirs(Cmd(p), "rmrecord", copy[p], backlog'[t])
      BY <2>2 DEF Dirs
    <2>4. QED
      BY <1>1, <1>2, <2>1, <2>2, <2>3, TakeFollows DEF Untargeted
  <1>11. CASE RemoveRecord(p)
    <2>1. /\ pc[p] = "rmrecord" /\ tickets' = tickets /\ Finish(p)
          /\ backlog' = [backlog EXCEPT ![t] = Absent]
      BY <1>11 DEF RemoveRecord
    <2>2. tickets'[t] = Home(backlog'[t]) /\ OthersStay(p)
      BY <1>1, <1>2, <1>3, <2>1 DEF Dirs, Home, OthersStay
    <2>3. QED
      BY <1>1, <2>1, <2>2, FinishFollows
  <1>12. QED
    BY <1>6, <1>7, <1>8, <1>9, <1>10, <1>11

(* A step that finds and leaves every directory where the record says.     *)
LEMMA RestedFollows ==
    ASSUME NEW p \in Procs, TicketsFollow(p), UNCHANGED <<tickets, backlog>>,
           pc[p] \in Untargeted \cup {"restore"},
           \/ pc'[p] \in Untargeted \cup {"add", "start", "cliget", "get", "restore"}
           \/ pc'[p] = "check" /\ Cmd(p)' = "prune"
    PROVE  TicketsFollow(p)'
  <1>1. \A t \in Tasks : tickets[t] = Home(backlog[t])
    BY DEF TicketsFollow, WorksOn, Dirs, FollowCopy, CopySteps, Untargeted
  <1>2. QED
    BY <1>1 DEF TicketsFollow, WorksOn, Dirs, FollowCopy, CopySteps, Home, Where, Untargeted

LEMMA BulkFollows ==
    ASSUME Shape, NEW p \in Procs, TicketsFollow(p),
           Begin(p) \/ ListTasks(p) \/ ListOrphans(p) \/ NextTask(p) \/ Restore(p)
    PROVE  TicketsFollow(p)'
  <1> USE DEF data, disk, gitVars, At
  <1>1. /\ OwnShape /\ UNCHANGED <<tickets, backlog>> /\ Fits(p, pc[p], copy[p])
        /\ pc[p] \in Untargeted \cup {"restore"}
    BY DEF Shape, OwnShape, Begin, ListTasks, ListOrphans, NextTask, Restore, Untargeted
  <1>2. CASE Begin(p)
    <2>1. PICK j \in Requests : pc' = [pc EXCEPT ![p] = FirstStep(j.cmd)]
      BY <1>2 DEF Begin
    <2>2. pc'[p] \in {"add", "start", "list", "cliget", "get"}
      BY <1>1, <2>1, FirstStepFits DEF OwnShape, Shape, DataShape
    <2>3. QED
      BY <1>1, <2>2, RestedFollows DEF Untargeted
  <1>3. CASE (ListTasks(p) \/ ListOrphans(p)) /\ ~Stop(p)
    <2>1. pc'[p] \in {"orphans", "next"}
      BY <1>1, <1>3 DEF ListTasks, ListOrphans, OwnShape
    <2>2. QED
      BY <1>1, <2>1, RestedFollows DEF Untargeted
  <1>4. CASE NextTask(p)
    <2>1. Cmd(p) \in {"reconcile", "prune", "startall", "closeall"}
      BY <1>1, <1>4 DEF NextTask, Fits, Takes
    <2>2. Cmd(p)' = Cmd(p)
      BY <1>1, <1>4 DEF NextTask, OwnShape, Jobs, Cmd
    <2>3. /\ Cmd(p) = "reconcile" => pc'[p] = "restore"
          /\ Cmd(p) = "prune" => pc'[p] = "check"
          /\ Cmd(p) \in {"startall", "closeall"} => pc'[p] = "get"
      BY <1>1, <1>4 DEF NextTask, OwnShape
    <2>4. QED
      BY <1>1, <2>1, <2>2, <2>3, RestedFollows
  <1>5. CASE Restore(p) \/ Stop(p)
    <2>1. pc'[p] \in {"idle", "next"}
      BY <1>1, <1>5, AfterFinish DEF Restore
    <2>2. QED
      BY <1>1, <2>1, RestedFollows DEF Untargeted
  <1>6. QED
    BY <1>2, <1>3, <1>4, <1>5

LEMMA FollowPreserved ==
    ASSUME Shape, NEW p, Procs = {p}, HeldInv(p), TicketsFollow(p), Faults \cap TicketFaults = {},
           [Next]_vars
    PROVE  TicketsFollow(p)'
  <1>1. p \in Procs /\ ~Crash(p) /\ HeldAt(p)
    BY DEF Crash, TicketFaults, HeldInv
  <1>2. CASE Begin(p) \/ Step(p)
    BY <1>1, <1>2, CreateFollows, LoadFollows, MoveFollows, RemoveFollows, BulkFollows DEF Step
  <1>3. CASE UNCHANGED <<data, tickets, own>>
    BY <1>3 DEF TicketsFollow, WorksOn, Dirs, Home, Where, data, own, Cmd, Task
  <1>4. QED
    <2>1. Next => Begin(p) \/ Step(p) \/ Crash(p) \/ \E t \in Tasks : User(t)
      BY DEF Next
    <2>2. (\E t \in Tasks : User(t)) \/ UNCHANGED vars => UNCHANGED <<data, tickets, own>>
      BY DEF User, vars, disk
    <2>3. QED
      BY <1>1, <1>2, <1>3, <2>1, <2>2

(* What one process does, whatever of it fails but the steps of            *)
(* TicketFaults: between its commands each ticket directory is where the   *)
(* record of its task says and nowhere else.                               *)
THEOREM TicketsRest ==
    ASSUME NEW p, Procs = {p}, Faults \cap TicketFaults = {}
    PROVE  Spec => []TicketWhereRecorded
  <1>1. Init => Shape /\ HeldInv(p) /\ TicketsFollow(p)
    <2>1. Init => TicketsFollow(p)
      BY DEF Init, TicketsFollow, WorksOn, Untargeted, Home, Nothing
    <2>2. QED
      BY <2>1, ShapeInit, HeldInit
  <1>2. Shape /\ HeldInv(p) /\ TicketsFollow(p) /\ [Next]_vars
           => Shape' /\ HeldInv(p)' /\ TicketsFollow(p)'
    BY ShapePreserved, HeldPreserved, FollowPreserved
  <1>3. TicketsFollow(p) => TicketWhereRecorded
    BY DEF TicketsFollow, TicketWhereRecorded, Resting, At, WorksOn, Untargeted, Home
  <1>4. QED
    BY <1>1, <1>2, <1>3, PTL DEF Spec

-----------------------------------------------------------------------------

Has(rec) == rec # Absent /\ rec.worktree

Gone == {"bootstrap", "undoticket", "undorecord", "logremoved", "rmtickets", "rmrecord"}

(* Who says which worktree a task has: the copy of the process that works  *)
(* on it, or the record; in the steps of Gone it has none.                 *)
Holder(step, rec, stored) ==
    IF step \in Gone THEN Absent
    ELSE IF step \in CopySteps \ {"clistore", "restore"} THEN rec
    ELSE stored

(* A creation is counted last, and a removal after it.                     *)
Count(cmd, step, rec, stored) ==
    IF step \in Making \cup {"logcreated"} THEN 0
    ELSE IF step = "logremoved" \/ (step = "store" /\ cmd = "cleanup") THEN 1
    ELSE IF Has(Holder(step, rec, stored)) THEN 1 ELSE 0

TreeOf(rec) == IF Has(rec) THEN "present" ELSE "absent"
BranchOf(rec) == IF Has(rec) THEN rec.branch ELSE NoBranch

Tidy(t, rec, n) == tree[t] = TreeOf(rec) /\ registered[t] = BranchOf(rec) /\ ledger[t] = n
Rests(t) == Tidy(t, backlog[t], IF Has(backlog[t]) THEN 1 ELSE 0)

TreesFollow(p) ==
    /\ Cmd(p) = "prune" => pc[p] \in {"list", "orphans"}
    /\ \A t \in Tasks :
         IF WorksOn(p, t)
         THEN Tidy(t, Holder(pc[p], copy[p], backlog[t]), Count(Cmd(p), pc[p], copy[p], backlog[t]))
         ELSE Rests(t)

(* No death, no failed removal of a worktree, and no failed store behind   *)
(* one; and nobody deletes a worktree by hand.                             *)
TreeFaults == {"crash", "remove", "store"}

OtherTreesStay(p) ==
    \A t \in Tasks : t # Task(p) =>
      /\ tree'[t] = tree[t] /\ registered'[t] = registered[t] /\ ledger'[t] = ledger[t]
      /\ backlog'[t] = backlog[t]

LEMMA FinishTidy ==
    ASSUME OwnShape, NEW p \in Procs, TreesFollow(p), OtherTreesStay(p),
           Stop(p) \/ (Finish(p) /\ Cmd(p) # "prune"),
           Task(p) \in Tasks =>
             /\ tree'[Task(p)] = TreeOf(backlog'[Task(p)])
             /\ registered'[Task(p)] = BranchOf(backlog'[Task(p)])
             /\ ledger'[Task(p)] = IF Has(backlog'[Task(p)]) THEN 1 ELSE 0
    PROVE  TreesFollow(p)'
  <1>1. pc'[p] \in Untargeted /\ Cmd(p)' # "prune"
    <2>1. CASE Stop(p)
      BY <2>1 DEF Stop, OwnShape, Untargeted, Cmd, NoJob
    <2>2. CASE Finish(p) /\ Cmd(p) # "prune"
      BY <2>2, AfterFinish DEF Untargeted
    <2>3. QED
      BY <2>1, <2>2
  <1>2. ASSUME NEW t \in Tasks PROVE Rests(t)'
    <2>1. CASE t = Task(p)
      BY <2>1 DEF Rests, Tidy, TreeOf, BranchOf, Has
    <2>2. CASE t # Task(p)
      <3>1. Rests(t)
        BY <2>2 DEF TreesFollow, WorksOn
      <3>2. QED
        BY <2>2, <3>1 DEF OtherTreesStay, Rests, Tidy, TreeOf, BranchOf, Has
    <2>3. QED
      BY <2>1, <2>2
  <1>3. QED
    BY <1>1, <1>2 DEF TreesFollow, WorksOn

LEMMA TakeTidy ==
    ASSUME OwnShape, NEW p \in Procs, TreesFollow(p), OtherTreesStay(p),
           NEW step, NEW rec, Take(p, step, rec), step \notin Untargeted, Cmd(p) # "prune",
           tree'[Task(p)] = TreeOf(Holder(step, rec, backlog'[Task(p)])),
           registered'[Task(p)] = BranchOf(Holder(step, rec, backlog'[Task(p)])),
           ledger'[Task(p)] = Count(Cmd(p), step, rec, backlog'[Task(p)])
    PROVE  TreesFollow(p)'
  <1>1. /\ pc'[p] = step /\ copy'[p] = rec /\ Cmd(p)' = Cmd(p) /\ Task(p)' = Task(p)
    BY AfterTake
  <1>2. ASSUME NEW t \in Tasks, t # Task(p) PROVE Rests(t)'
    <2>1. Rests(t)
      BY <1>2 DEF TreesFollow, WorksOn
    <2>2. QED
      BY <1>2, <2>1 DEF OtherTreesStay, Rests, Tidy, TreeOf, BranchOf, Has
  <1>3. Tidy(Task(p), Holder(step, rec, backlog[Task(p)]),
             Count(Cmd(p), step, rec, backlog[Task(p)]))'
    BY <1>1 DEF Tidy, TreeOf, BranchOf, Has, Holder, Count
  <1>4. QED
    BY <1>1, <1>2, <1>3 DEF TreesFollow, WorksOn

LEMMA FoundTree ==
    ASSUME OwnShape, NEW p \in Procs, TreesFollow(p), pc[p] \notin Untargeted
    PROVE  LET t == Task(p) IN
             /\ t \in Tasks
             /\ Tidy(t, Holder(pc[p], copy[p], backlog[t]), Count(Cmd(p), pc[p], copy[p], backlog[t]))
             /\ Cmd(p) # "prune"
  BY DEF OwnShape, Fits, TreesFollow, WorksOn, Untargeted

LEMMA AlikeHas ==
    ASSUME NEW r, NEW s, Alike(r, s)
    PROVE  Has(r) = Has(s) /\ TreeOf(r) = TreeOf(s) /\ BranchOf(r) = BranchOf(s)
  BY DEF Alike, Has, TreeOf, BranchOf

LEMMA CreateTidy ==
    ASSUME Shape, NEW p \in Procs, HeldAt(p), TreesFollow(p),
           \/ AddRecord(p) \/ Bootstrap(p) \/ PickBranch(p) \/ MakeWorktree(p) \/ StoreNew(p)
           \/ LogCreated(p) \/ UndoTree(p) \/ UndoTicket(p) \/ UndoRecord(p)
    PROVE  TreesFollow(p)'
  <1> USE DEF data, disk, gitVars, At
  <1> DEFINE t == Task(p)
  <1>1. OwnShape /\ Fits(p, pc[p], copy[p]) /\ copy[p] \in Good \cup {Absent}
    BY DEF Shape, OwnShape
  <1>2. /\ Cmd(p) = "create" /\ t \in Tasks /\ pc[p] \notin Untargeted /\ pc[p] \in Making \cup {"logcreated"}
        /\ pc[p] # "add" => copy[p] \in Good
    BY <1>1 DEF Fits, Takes, Untargeted, Lists, CopySteps, Making, Before, Between, AddRecord, Bootstrap,
                PickBranch, MakeWorktree, StoreNew, LogCreated, UndoTree, UndoTicket, UndoRecord
  <1>3. /\ tree[t] = TreeOf(Holder(pc[p], copy[p], backlog[t]))
        /\ registered[t] = BranchOf(Holder(pc[p], copy[p], backlog[t]))
        /\ ledger[t] = 0
        /\ backlog \in [Tasks -> Good \cup {Absent}] /\ ledger \in [Tasks -> Int]
        /\ tree \in [Tasks -> {"absent", "husk", "present"}]
        /\ registered \in [Tasks -> Branches \cup {NoBranch}]
    BY <1>1, <1>2, FoundTree DEF Shape, DataShape, DiskShape, GitTypeOK, Tidy, Count
  <1>4. ~Has(Absent) /\ ~Has(NewRecord)
    BY DEF Has, NewRecord
  <1>5. ASSUME NEW step \in (Making \cup {"logcreated"}) \ {"add"}, NEW rec, Take(p, step, rec),
               OtherTreesStay(p), ledger' = ledger,
               tree'[t] = TreeOf(IF step \in Gone THEN Absent ELSE rec),
               registered'[t] = BranchOf(IF step \in Gone THEN Absent ELSE rec)
        PROVE  TreesFollow(p)'
    <2>1. Holder(step, rec, backlog'[t]) = IF step \in Gone THEN Absent ELSE rec
      BY <1>5 DEF Holder, Making, Before, Between, CopySteps, Gone
    <2>2. Count(Cmd(p), step, rec, backlog'[t]) = ledger'[t] /\ step \notin Untargeted
      BY <1>3, <1>5 DEF Count, Making, Before, Between, Untargeted
    <2>3. QED
      BY <1>1, <1>2, <1>5, <2>1, <2>2, TakeTidy
  <1>6. CASE AddRecord(p)
    <2>1. pc[p] = "add" /\ backlog[t] = Absent /\ UNCHANGED <<tree, registered, ledger>>
      BY <1>6 DEF AddRecord, HeldAt
    <2>2. tree[t] = "absent" /\ registered[t] = NoBranch
      BY <1>3, <1>4, <2>1 DEF Holder, Gone, CopySteps, TreeOf, BranchOf
    <2>3. CASE Finish(p) /\ backlog' = backlog
      BY <1>1, <1>2, <1>3, <1>4, <2>1, <2>2, <2>3, FinishTidy DEF OtherTreesStay, TreeOf, BranchOf
    <2>4. CASE Take(p, "bootstrap", NewRecord) /\ backlog' = [backlog EXCEPT ![t] = NewRecord]
      <3>1. OtherTreesStay(p)
        BY <1>3, <2>1, <2>4 DEF OtherTreesStay
      <3>2. QED
        BY <1>4, <1>5, <2>1, <2>2, <2>4, <3>1 DEF Gone, TreeOf, BranchOf, Making, Before
    <2>5. QED
      BY <1>6, <2>3, <2>4 DEF AddRecord
  <1>7. CASE Bootstrap(p) \/ PickBranch(p)
    <2>1. /\ pc[p] \in {"bootstrap", "branch"} /\ copy[p] \in Good
          /\ UNCHANGED <<tree, registered, ledger, backlog>> /\ ~copy[p].worktree
      BY <1>2, <1>7 DEF Bootstrap, PickBranch, HeldAt
    <2>2. tree[t] = "absent" /\ registered[t] = NoBranch
      BY <1>3, <1>4, <2>1 DEF Holder, Gone, CopySteps, TreeOf, BranchOf, Has
    <2>3. ASSUME NEW step \in (Making \cup {"logcreated"}) \ {"add"}, NEW rec, Take(p, step, rec),
                 ~rec.worktree
          PROVE  TreesFollow(p)'
      <3>1. /\ tree'[t] = TreeOf(IF step \in Gone THEN Absent ELSE rec)
            /\ registered'[t] = BranchOf(IF step \in Gone THEN Absent ELSE rec)
        BY <2>1, <2>2, <2>3 DEF TreeOf, BranchOf, Has
      <3>2. OtherTreesStay(p)
        BY <2>1 DEF OtherTreesStay
      <3>3. QED
        BY <1>5, <2>1, <2>3, <3>1, <3>2
    <2>4. /\ [copy[p] EXCEPT !.place = New].worktree = copy[p].worktree
          /\ \A b : [copy[p] EXCEPT !.branch = b].worktree = copy[p].worktree
      BY <2>1 DEF Good, Records
    <2>5. CASE Bootstrap(p)
      BY <2>1, <2>3, <2>4, <2>5 DEF Bootstrap, Goto, Making, Before, Between
    <2>6. CASE PickBranch(p)
      BY <2>1, <2>3, <2>4, <2>6 DEF PickBranch, Goto, Making, Before, Between
    <2>7. QED
      BY <1>7, <2>5, <2>6
  <1>8. CASE MakeWorktree(p)
    <2> DEFINE b == copy[p].branch
               rec == [copy[p] EXCEPT !.worktree = TRUE]
    <2>1. /\ pc[p] = "worktree" /\ copy[p] \in Good /\ b \in Branches /\ ~copy[p].worktree
          /\ UNCHANGED <<ledger, backlog>>
      BY <1>1, <1>2, <1>8 DEF MakeWorktree, HeldAt, Fits
    <2>2. CASE AddTree(t, b) /\ Take(p, "storenew", rec)
      <3>1. rec \in Good /\ rec # Absent /\ rec.branch = b /\ rec.worktree
        <4>1. rec \in Good
          BY <2>1, GoodEdits
        <4>2. rec.branch = b /\ rec.worktree
          BY <2>1 DEF Good, Records
        <4> HIDE DEF rec
        <4>3. QED
          BY <4>1, <4>2, GoodEdits
      <3>2. Take(p, "storenew", rec)
        BY <2>2
      <3> HIDE DEF rec
      <3>3. tree'[t] = TreeOf(rec) /\ registered'[t] = BranchOf(rec) /\ OtherTreesStay(p)
        BY <1>2, <1>3, <2>1, <2>2, <3>1 DEF AddTree, TreeOf, BranchOf, Has, OtherTreesStay
      <3>4. QED
        BY <1>5, <2>1, <3>2, <3>3 DEF Making, Between, Gone
    <2>3. CASE Goto(p, "undoticket") /\ UNCHANGED gitVars
      <3>1. tree'[t] = TreeOf(Absent) /\ registered'[t] = BranchOf(Absent) /\ OtherTreesStay(p)
        BY <1>3, <2>1, <2>3 DEF Holder, Gone, CopySteps, TreeOf, BranchOf, Has, OtherTreesStay
      <3>2. QED
        BY <1>5, <2>1, <2>3, <3>1 DEF Goto, Making, Gone
    <2>4. QED
      BY <1>8, <2>2, <2>3 DEF MakeWorktree
  <1>9. CASE StoreNew(p)
    <2>1. /\ pc[p] = "storenew" /\ UNCHANGED <<tree, registered, ledger>> /\ OtherTreesStay(p)
      BY <1>3, <1>9 DEF StoreNew, Update, OtherTreesStay
    <2>2. tree'[t] = TreeOf(copy[p]) /\ registered'[t] = BranchOf(copy[p])
      BY <1>3, <2>1 DEF Holder, Gone, CopySteps
    <2>3. QED
      BY <1>5, <1>9, <2>1, <2>2 DEF StoreNew, Goto, Making, Gone
  <1>10. CASE LogCreated(p)
    <2>1. /\ pc[p] = "logcreated" /\ Finish(p) /\ UNCHANGED <<tree, registered, backlog>>
          /\ ledger' = [ledger EXCEPT ![t] = IF copy[p].worktree THEN @ + 1 ELSE @]
      BY <1>10 DEF LogCreated
    <2>2. backlog[t] = copy[p] /\ copy[p] # Absent
      BY <1>2, <2>1, GoodEdits DEF HeldAt
    <2>3. tree'[t] = TreeOf(backlog'[t]) /\ registered'[t] = BranchOf(backlog'[t])
      BY <1>3, <2>1, <2>2 DEF Holder, Gone, CopySteps
    <2>4. ledger'[t] = (IF copy[p].worktree THEN 1 ELSE 0)
      BY <1>2, <1>3, <2>1
    <2>5. OtherTreesStay(p)
      BY <1>3, <2>1 DEF OtherTreesStay
    <2>6. QED
      BY <1>1, <1>2, <2>1, <2>2, <2>3, <2>4, <2>5, FinishTidy DEF Has
  <1>11. CASE UndoTree(p)
    <2>1. pc[p] = "undotree" /\ UNCHANGED <<ledger, backlog>> /\ Take(p, "undoticket", copy[p])
      BY <1>11 DEF UndoTree, Goto
    <2>2. tree[t] = TreeOf(copy[p]) /\ registered[t] = BranchOf(copy[p]) /\ copy[p] # Absent
      BY <1>2, <1>3, <2>1, GoodEdits DEF Holder, Gone, CopySteps
    <2>3. /\ tree'[t] = "absent" /\ registered'[t] = NoBranch
          /\ OtherTreesStay(p)
      <3>1. CASE copy[p].worktree
        <4>1. RemoveTree(t)
          BY <1>11, <2>2, <3>1 DEF UndoTree, PassesCheck, TreeOf, Has
        <4>2. QED
          BY <1>2, <1>3, <2>1, <4>1 DEF RemoveTree, OtherTreesStay
      <3>2. CASE ~copy[p].worktree
        BY <1>11, <2>1, <2>2, <3>2 DEF UndoTree, TreeOf, BranchOf, Has, OtherTreesStay
      <3>3. QED
        BY <3>1, <3>2
    <2>4. QED
      BY <1>4, <1>5, <2>1, <2>3 DEF TreeOf, BranchOf, Gone, Making
  <1>12. CASE UndoTicket(p)
    <2>1. /\ pc[p] = "undoticket" /\ UNCHANGED <<tree, registered, ledger, backlog>>
          /\ Take(p, "undorecord", copy[p])
      BY <1>12 DEF UndoTicket, Goto
    <2>2. QED
      BY <1>3, <1>5, <2>1 DEF Holder, Gone, Making, OtherTreesStay
  <1>13. CASE UndoRecord(p)
    <2>1. /\ pc[p] = "undorecord" /\ Finish(p) /\ UNCHANGED <<tree, registered, ledger>>
          /\ backlog' = backlog \/ backlog' = [backlog EXCEPT ![t] = Absent]
      BY <1>13 DEF UndoRecord
    <2>2. backlog[t] = NewRecord
      BY <2>1 DEF HeldAt, Making
    <2>3. ~Has(backlog'[t]) /\ OtherTreesStay(p)
      BY <1>2, <1>3, <1>4, <2>1, <2>2 DEF OtherTreesStay
    <2>4. QED
      BY <1>1, <1>2, <1>3, <1>4, <2>1, <2>3, FinishTidy DEF Holder, Gone, TreeOf, BranchOf
  <1>14. QED
    BY <1>6, <1>7, <1>8, <1>9, <1>10, <1>11, <1>12, <1>13

LEMMA LoadTidy ==
    ASSUME Shape, NEW p \in Procs, HeldAt(p), TreesFollow(p), Faults \cap TreeFaults = {},
           \/ Get(p) \/ Start(p) \/ Store(p) \/ Render(p) \/ CliGet(p) \/ CliStore(p)
    PROVE  TreesFollow(p)'
  <1> USE DEF data, disk, gitVars, At
  <1> DEFINE t == Task(p)
             b == backlog[t]
  <1>1. /\ OwnShape /\ Fits(p, pc[p], copy[p]) /\ job[p] \in Jobs /\ "store" \notin Faults
    BY DEF Shape, OwnShape, TreeFaults
  <1>2. /\ Cmd(p) # "prune" /\ t \in Tasks /\ pc[p] \notin Untargeted /\ Takes(Cmd(p), pc[p])
        /\ registered' = registered /\ ledger' = ledger
        /\ tree' = tree \/ Render(p)
    BY <1>1 DEF Fits, Takes, Untargeted, Lists, Get, Start, Store, Render, CliGet, CliStore, WriteBelow
  <1>3. /\ tree[t] = TreeOf(Holder(pc[p], copy[p], b))
        /\ registered[t] = BranchOf(Holder(pc[p], copy[p], b))
        /\ ledger[t] = Count(Cmd(p), pc[p], copy[p], b)
        /\ backlog \in [Tasks -> Good \cup {Absent}]
        /\ tree \in [Tasks -> {"absent", "husk", "present"}]
    BY <1>1, <1>2, FoundTree DEF Shape, DataShape, DiskShape, GitTypeOK, Tidy
  <1>4. pc[p] \in {"get", "start", "cliget", "clistore"} =>
           /\ tree[t] = TreeOf(b) /\ registered[t] = BranchOf(b)
           /\ ledger[t] = IF Has(b) THEN 1 ELSE 0
    BY <1>3 DEF Holder, Count, Gone, CopySteps, Making, Before, Between
  <1>5. CASE Get(p)
    <2> DEFINE step == StepAfterGet(Cmd(p), b)
               rec == [b EXCEPT !.status = StatusAfter(job[p], b)]
    <2>1. OtherTreesStay(p) /\ pc[p] = "get" /\ backlog' = backlog /\ tree' = tree
      BY <1>2, <1>5 DEF Get, OtherTreesStay
    <2>2. CASE Finish(p)
      BY <1>1, <1>2, <1>4, <2>1, <2>2, FinishTidy
    <2>3. CASE ~Finish(p)
      <3>1. b \in Good /\ b # Absent /\ ~Refuses(Cmd(p), b) /\ Take(p, step, rec)
        BY <1>2, <1>3, <1>5, <2>3 DEF Get
      <3>2. StatusAfter(job[p], b) \in {"backlog", "active", "done", "archived"}
        BY <1>1, <3>1, StatusIsKnown DEF Fits, Cmd
      <3>3. Alike(b, rec)
        BY <3>1, <3>2, RestatusedIsAlike
      <3>4. /\ step \in {"handoff", "moveback", "check", "rmtickets", "render", "store"}
            /\ step = "store" => Cmd(p) # "cleanup"
            /\ step = "rmtickets" => ~b.worktree
        <4>1. step = "rmtickets" => ~b.worktree
          BY DEF StepAfterGet
        <4>2. QED
          BY <1>2, <2>1, <3>1, <4>1, AfterGet, GetLeads
      <3> HIDE DEF step, rec, b
      <3>5. Has(rec) = Has(b) /\ TreeOf(rec) = TreeOf(b) /\ BranchOf(rec) = BranchOf(b)
        BY <3>3, AlikeHas
      <3>6. step = "rmtickets" => ~Has(b) /\ ~Has(Absent)
        BY <3>4 DEF Has
      <3>7. /\ TreeOf(Holder(step, rec, b)) = TreeOf(b)
            /\ BranchOf(Holder(step, rec, b)) = BranchOf(b)
            /\ Count(Cmd(p), step, rec, b) = IF Has(b) THEN 1 ELSE 0
        BY <3>4, <3>5, <3>6
          DEF Holder, Count, Gone, CopySteps, Making, Before, Between, TreeOf, BranchOf
      <3>8. backlog'[t] = b /\ step \notin Untargeted
        BY <2>1, <3>4 DEF b, Untargeted
      <3>9. QED
        BY <1>1, <1>2, <1>4, <2>1, <3>1, <3>7, <3>8, TakeTidy
    <2>4. QED
      BY <2>2, <2>3
  <1>6. CASE Start(p)
    <2>1. pc[p] = "start" /\ OtherTreesStay(p) /\ backlog' = backlog /\ tree' = tree
      BY <1>2, <1>6 DEF Start, OtherTreesStay
    <2>2. CASE Finish(p)
      BY <1>1, <1>2, <1>4, <2>1, <2>2, FinishTidy
    <2>3. CASE Take(p, "get", copy[p])
      <3>1. /\ Holder("get", copy[p], b) = b /\ "get" \notin Untargeted
            /\ Count(Cmd(p), "get", copy[p], b) = IF Has(b) THEN 1 ELSE 0
        BY DEF Holder, Count, Gone, CopySteps, Making, Before, Between, Untargeted
      <3>2. QED
        BY <1>1, <1>2, <1>4, <2>1, <2>3, <3>1, TakeTidy
    <2>4. QED
      BY <1>6, <2>2, <2>3 DEF Start, Goto
  <1>7. CASE Store(p)
    <2>1. /\ pc[p] = "store" /\ b # Absent /\ tree' = tree
          /\ Cmd(p) = "cleanup" => ~copy[p].worktree
      BY <1>2, <1>7 DEF Store, HeldAt, CopySteps
    <2>2. /\ backlog' = [backlog EXCEPT ![t] = copy[p]]
          /\ IF StepAfterStore(p) = "done" THEN Finish(p) ELSE Goto(p, StepAfterStore(p))
      BY <1>1, <1>7, <2>1 DEF Store, Update, UpdateFails
    <2>3. backlog'[t] = copy[p] /\ OtherTreesStay(p)
      BY <1>2, <1>3, <2>1, <2>2 DEF OtherTreesStay
    <2>4. /\ tree[t] = TreeOf(copy[p]) /\ registered[t] = BranchOf(copy[p])
          /\ Cmd(p) # "cleanup" => ledger[t] = IF Has(copy[p]) THEN 1 ELSE 0
          /\ Cmd(p) = "cleanup" => ledger[t] = 1 /\ ~Has(copy[p])
      BY <1>3, <2>1 DEF Holder, Count, Gone, CopySteps, Making, Before, Between, Has
    <2>5. /\ StepAfterStore(p) \in {"logremoved", "clistore", "render", "done"}
          /\ StepAfterStore(p) = "logremoved" <=> Cmd(p) = "cleanup"
      BY DEF StepAfterStore
    <2>6. ASSUME NEW step \in {"logremoved", "clistore", "render"}, Take(p, step, copy[p]),
                 step = "logremoved" <=> Cmd(p) = "cleanup"
          PROVE  TreesFollow(p)'
      <3>1. /\ TreeOf(Holder(step, copy[p], copy[p])) = TreeOf(copy[p])
            /\ BranchOf(Holder(step, copy[p], copy[p])) = BranchOf(copy[p])
            /\ Count(Cmd(p), step, copy[p], copy[p]) = ledger[t]
        BY <2>4, <2>6
          DEF Holder, Count, Gone, CopySteps, Making, Before, Between, TreeOf, BranchOf, Has
      <3>2. QED
        BY <1>1, <1>2, <2>1, <2>3, <2>4, <2>6, <3>1, TakeTidy DEF Untargeted
    <2>7. QED
      BY <1>1, <1>2, <2>1, <2>2, <2>3, <2>4, <2>5, <2>6, FinishTidy DEF Goto
  <1>8. CASE Render(p)
    <2>1. /\ Alike(b, copy[p]) /\ Finish(p) /\ backlog' = backlog /\ pc[p] = "render"
          /\ copy[p].worktree
      BY <1>2, <1>8 DEF Render, HeldAt
    <2>2. /\ tree[t] = TreeOf(b) /\ registered[t] = BranchOf(b) /\ ledger[t] = IF Has(b) THEN 1 ELSE 0
      BY <1>3, <2>1, AlikeHas DEF Holder, Count, Gone, CopySteps, Making, Before, Between
    <2>3. tree[t] = "present"
      BY <2>1, <2>2 DEF TreeOf, Has, Alike
    <2>4. tree' = tree
      BY <1>2, <1>3, <1>8, <2>3 DEF Render, WriteBelow
    <2>5. QED
      BY <1>1, <1>2, <2>1, <2>2, <2>4, FinishTidy DEF OtherTreesStay
  <1>9. CASE CliGet(p)
    <2>1. pc[p] = "cliget" /\ OtherTreesStay(p) /\ backlog' = backlog /\ tree' = tree
      BY <1>2, <1>9 DEF CliGet, OtherTreesStay
    <2>2. CASE Stop(p)
      BY <1>1, <1>2, <1>4, <2>1, <2>2, FinishTidy
    <2>3. CASE ~Stop(p)
      <3>1. pc'[p] = "get" /\ job' = job
        BY <1>1, <1>9, <2>3 DEF CliGet, OwnShape
      <3>2. \A u \in Tasks : Rests(u)
        BY <1>2, <1>4, <2>1 DEF TreesFollow, WorksOn, Rests, Tidy
      <3>3. \A u \in Tasks : Rests(u)'
        BY <1>2, <2>1, <3>2 DEF Rests, Tidy, TreeOf, BranchOf, Has
      <3>4. Holder("get", copy[p], b)' = b' /\ Count(Cmd(p), "get", copy[p], b)' = (IF Has(b) THEN 1 ELSE 0)'
        BY DEF Holder, Count, Gone, CopySteps, Making, Before, Between, Has
      <3>5. QED
        BY <1>2, <3>1, <3>3, <3>4
          DEF TreesFollow, WorksOn, Cmd, Task, Rests, Holder, Count, Gone, CopySteps, Making,
              Before, Between, Has
    <2>4. QED
      BY <2>2, <2>3
  <1>10. CASE CliStore(p)
    <2>1. pc[p] = "clistore" /\ Finish(p) /\ Cmd(p) = "status+owner" /\ tree' = tree
      BY <1>2, <1>10 DEF CliStore, Takes, Lists
    <2>2. Alike(cli[p], b)
      BY <2>1 DEF HeldAt
    <2>3. backlog' = backlog \/ backlog' = [backlog EXCEPT ![t] = cli[p]]
      BY <1>10 DEF CliStore, Update
    <2>4. OtherTreesStay(p) /\ backlog'[t] \in {b, cli[p]}
      BY <1>2, <1>3, <2>1, <2>3 DEF OtherTreesStay
    <2>5. /\ Has(backlog'[t]) = Has(b) /\ TreeOf(backlog'[t]) = TreeOf(b)
          /\ BranchOf(backlog'[t]) = BranchOf(b)
      BY <2>2, <2>4, AlikeHas
    <2>6. QED
      BY <1>1, <1>2, <1>4, <2>1, <2>4, <2>5, FinishTidy
  <1>11. QED
    BY <1>5, <1>6, <1>7, <1>8, <1>9, <1>10

LEMMA MoveTidy ==
    ASSUME Shape, NEW p \in Procs, HeldAt(p), TreesFollow(p),
           WriteHandoff(p) \/ MoveToArchive(p) \/ MoveBack(p)
    PROVE  TreesFollow(p)'
  <1> USE DEF data, disk, gitVars, At
  <1> DEFINE t == Task(p)
             c == copy[p]
  <1>1. OwnShape /\ Fits(p, pc[p], c)
    BY DEF Shape, OwnShape
  <1>2. /\ pc[p] \in {"handoff", "move", "moveback"} /\ Cmd(p) \in {"archive", "unarchive"}
        /\ t \in Tasks /\ pc[p] \notin Untargeted /\ c \in Good
        /\ UNCHANGED <<backlog, tree, registered, ledger>>
    BY <1>1 DEF OwnShape, Fits, Takes, Untargeted, Lists, CopySteps, WriteHandoff, MoveToArchive, MoveBack
  <1>3. /\ tree[t] = TreeOf(c) /\ registered[t] = BranchOf(c) /\ ledger[t] = IF Has(c) THEN 1 ELSE 0
        /\ Alike(backlog[t], c)
    BY <1>1, <1>2, FoundTree DEF Tidy, Holder, Count, Gone, CopySteps, Making, Before, Between, HeldAt
  <1>4. OtherTreesStay(p)
    BY <1>2 DEF OtherTreesStay
  <1>5. CASE Finish(p)
    <2>1. /\ Has(backlog[t]) = Has(c) /\ TreeOf(backlog[t]) = TreeOf(c)
          /\ BranchOf(backlog[t]) = BranchOf(c)
      BY <1>3, AlikeHas
    <2>2. QED
      BY <1>1, <1>2, <1>3, <1>4, <1>5, <2>1, FinishTidy
  <1>6. ASSUME NEW step \in {"move", "check", "store"}, NEW rec, Take(p, step, rec),
               rec # Absent, rec.worktree = c.worktree, rec.branch = c.branch
        PROVE  TreesFollow(p)'
    <2>1. c # Absent
      BY <1>3 DEF Alike
    <2>2. Has(rec) = Has(c) /\ TreeOf(rec) = TreeOf(c) /\ BranchOf(rec) = BranchOf(c)
      BY <1>6, <2>1 DEF Has, TreeOf, BranchOf
    <2>3. /\ Holder(step, rec, backlog'[t]) = rec
          /\ Count(Cmd(p), step, rec, backlog'[t]) = IF Has(rec) THEN 1 ELSE 0
      BY <1>2, <1>6 DEF Holder, Count, Gone, CopySteps, Making, Before, Between
    <2>4. QED
      BY <1>1, <1>2, <1>3, <1>4, <1>6, <2>2, <2>3, TakeTidy DEF Untargeted
  <1>7. ASSUME NEW s \in {"backlog", "archived"}, NEW to \in Places, NEW step \in {"check", "store"},
               Take(p, step, [c EXCEPT !.status = s, !.place = to])
        PROVE  TreesFollow(p)'
    <2> DEFINE rec == [c EXCEPT !.status = s, !.place = to]
    <2>1. rec \in Good /\ rec.worktree = c.worktree /\ rec.branch = c.branch
      <3>1. rec \in Good
        BY <1>2, GoodEdits
      <3>2. rec.worktree = c.worktree /\ rec.branch = c.branch
        BY <1>2 DEF Good, Records
      <3>3. QED
        BY <3>1, <3>2
    <2>2. Take(p, step, rec)
      BY <1>7
    <2> HIDE DEF rec
    <2>3. QED
      BY <1>6, <2>1, <2>2, GoodEdits
  <1>8. CASE WriteHandoff(p)
    BY <1>3, <1>5, <1>6, <1>8 DEF WriteHandoff, Goto, Alike
  <1>9. CASE MoveToArchive(p)
    <2>1. Deeper(Where(c)) \in Places
      BY <1>2, <1>9, PlacesFromRecords DEF MoveToArchive
    <2>2. QED
      BY <1>5, <1>7, <1>9, <2>1 DEF MoveToArchive
  <1>10. CASE MoveBack(p)
    <2>1. Shallower(Where(c)) \in Places
      BY <1>2, PlacesFromRecords
    <2>2. QED
      BY <1>5, <1>7, <1>10, <2>1 DEF MoveBack
  <1>11. QED
    BY <1>8, <1>9, <1>10

LEMMA RemoveTidy ==
    ASSUME Shape, NEW p \in Procs, HeldAt(p), TreesFollow(p), Faults \cap TreeFaults = {},
           \/ CheckWorktree(p) \/ RemoveWorktree(p) \/ LogRemoved(p) \/ PruneBranch(p)
           \/ RemoveTickets(p) \/ RemoveRecord(p)
    PROVE  TreesFollow(p)'
  <1> USE DEF data, disk, gitVars, At
  <1> DEFINE t == Task(p)
             c == copy[p]
  <1>1. /\ OwnShape /\ Fits(p, pc[p], c) /\ "remove" \notin Faults
        /\ backlog \in [Tasks -> Good \cup {Absent}] /\ ledger \in [Tasks -> Int]
        /\ tree \in [Tasks -> {"absent", "husk", "present"}]
        /\ registered \in [Tasks -> Branches \cup {NoBranch}]
    BY DEF Shape, OwnShape, DataShape, DiskShape, GitTypeOK, TreeFaults
  <1>2. /\ pc[p] \in {"check", "remove", "logremoved", "prunebranch", "rmtickets", "rmrecord"}
        /\ pc[p] \notin Untargeted /\ t \in Tasks /\ Takes(Cmd(p), pc[p])
        /\ Cmd(p) \in {"archive", "cleanup", "delete"} /\ c \in Good /\ c # Absent
    <2>1. /\ pc[p] \in {"check", "remove", "logremoved", "prunebranch", "rmtickets", "rmrecord"}
          /\ pc[p] \notin Untargeted
      BY DEF Untargeted, CheckWorktree, RemoveWorktree, LogRemoved, PruneBranch, RemoveTickets, RemoveRecord
    <2>2. t \in Tasks /\ Cmd(p) # "prune"
      BY <1>1, <2>1, FoundTree
    <2>3. Takes(Cmd(p), pc[p]) /\ c \in Good /\ c # Absent
      BY <1>1, <2>1, <2>2 DEF Fits, CopySteps, OwnShape
    <2>4. QED
      BY <2>1, <2>2, <2>3 DEF Takes, Lists
  <1>3. /\ tree[t] = TreeOf(Holder(pc[p], c, backlog[t]))
        /\ registered[t] = BranchOf(Holder(pc[p], c, backlog[t]))
        /\ ledger[t] = Count(Cmd(p), pc[p], c, backlog[t])
    BY <1>1, <1>2, FoundTree DEF Tidy
  <1>4. pc[p] \in {"check", "remove"} =>
           /\ c.worktree /\ Has(c)
           /\ tree[t] = "present" /\ registered[t] = BranchOf(c) /\ ledger[t] = 1
    BY <1>2, <1>3 DEF HeldAt, Has, TreeOf, Holder, Count, Gone, CopySteps, Making, Before, Between
  <1>5. pc[p] \in {"logremoved", "rmtickets", "rmrecord"} =>
           /\ tree[t] = "absent" /\ registered[t] = NoBranch
           /\ ledger[t] = IF pc[p] = "logremoved" THEN 1 ELSE 0
    BY <1>3 DEF Has, TreeOf, BranchOf, Holder, Count, Gone, Making, Before, Between
  <1>6. ASSUME NEW step \in {"remove", "store", "logremoved", "prunebranch", "rmtickets", "rmrecord"},
               NEW rec, Take(p, step, rec), OtherTreesStay(p),
               tree'[t] = TreeOf(IF step \in Gone THEN Absent ELSE rec),
               registered'[t] = BranchOf(IF step \in Gone THEN Absent ELSE rec),
               ledger'[t] = IF step = "logremoved" \/ (step = "store" /\ Cmd(p) = "cleanup") THEN 1
                            ELSE IF step \in Gone THEN 0 ELSE IF Has(rec) THEN 1 ELSE 0
        PROVE  TreesFollow(p)'
    <2>1. Holder(step, rec, backlog'[t]) = IF step \in Gone THEN Absent ELSE rec
      BY <1>6 DEF Holder, CopySteps, Gone
    <2>2. Count(Cmd(p), step, rec, backlog'[t]) = ledger'[t] /\ step \notin Untargeted
      BY <1>6, <2>1 DEF Count, Making, Before, Between, Untargeted, Has
    <2>3. QED
      BY <1>1, <1>2, <1>6, <2>1, <2>2, TakeTidy
  <1>7. TreeOf(Absent) = "absent" /\ BranchOf(Absent) = NoBranch
    BY DEF TreeOf, BranchOf, Has
  <1>8. CASE CheckWorktree(p)
    <2>1. /\ pc[p] = "check" /\ UNCHANGED <<tree, registered, ledger, backlog>>
          /\ IF PassesCheck(t, Forced(p)) THEN Goto(p, "remove") ELSE Kept(p)
      BY <1>8 DEF CheckWorktree
    <2>2. OtherTreesStay(p)
      BY <2>1 DEF OtherTreesStay
    <2>3. ASSUME NEW step \in {"remove", "store"}, Goto(p, step), step = "store" => Cmd(p) = "archive"
          PROVE  TreesFollow(p)'
      <3>1. TreeOf(c) = "present" /\ step \notin Gone
        BY <1>4, <2>1, <2>3 DEF TreeOf, Gone
      <3>2. QED
        BY <1>4, <1>6, <2>1, <2>2, <2>3, <3>1 DEF Goto
    <2>4. CASE Kept(p) /\ ~PassesCheck(t, Forced(p))
      <3>1. Cmd(p) # "delete"
        BY <1>4, <2>1, <2>4 DEF PassesCheck, Forced
      <3>2. CASE Cmd(p) = "archive"
        BY <2>3, <2>4, <3>2 DEF Kept
      <3>3. CASE Cmd(p) = "cleanup"
        <4>1. Alike(backlog[t], c) /\ Finish(p)
          BY <2>1, <2>4, <3>3 DEF HeldAt, Kept
        <4>2. Has(backlog[t]) = Has(c) /\ TreeOf(backlog[t]) = TreeOf(c) /\ BranchOf(backlog[t]) = BranchOf(c)
          BY <4>1, AlikeHas
        <4>3. TreeOf(c) = "present"
          BY <1>4, <2>1 DEF TreeOf
        <4>4. QED
          BY <1>1, <1>2, <1>4, <2>1, <2>2, <4>1, <4>2, <4>3, FinishTidy
      <3>4. QED
        BY <1>2, <3>1, <3>2, <3>3
    <2>5. QED
      BY <2>1, <2>3, <2>4
  <1>9. CASE RemoveWorktree(p)
    <2> DEFINE bare == [c EXCEPT !.worktree = FALSE]
    <2>1. pc[p] = "remove" /\ RemoveTree(t) /\ UNCHANGED <<backlog, ledger>>
      BY <1>1, <1>4, <1>9 DEF RemoveWorktree
    <2>2. tree'[t] = "absent" /\ registered'[t] = NoBranch /\ ledger'[t] = 1 /\ OtherTreesStay(p)
      BY <1>1, <1>2, <1>4, <2>1 DEF RemoveTree, OtherTreesStay
    <2>3. \/ Cmd(p) = "cleanup" /\ Take(p, "store", bare)
          \/ Cmd(p) = "archive" /\ Take(p, "logremoved", bare)
          \/ Cmd(p) = "delete" /\ Take(p, "logremoved", c)
      BY <1>1, <1>2, <1>4, <1>9, <2>1 DEF RemoveWorktree, Goto
    <2>4. ~bare.worktree
      BY <1>2 DEF Good, Records
    <2> HIDE DEF bare
    <2>5. TreeOf(bare) = "absent" /\ BranchOf(bare) = NoBranch
      BY <2>4 DEF TreeOf, BranchOf, Has
    <2>6. QED
      BY <1>6, <1>7, <2>2, <2>3, <2>5 DEF Gone
  <1>10. CASE LogRemoved(p)
    <2>1. /\ pc[p] = "logremoved" /\ UNCHANGED <<backlog, tree, registered>>
          /\ ledger' = [ledger EXCEPT ![t] = @ - 1]
      BY <1>10 DEF LogRemoved
    <2>2. ledger'[t] = 0 /\ OtherTreesStay(p)
      BY <1>1, <1>2, <1>5, <2>1 DEF OtherTreesStay
    <2>3. Cmd(p) # "delete" => ~Has(c) /\ TreeOf(c) = "absent" /\ BranchOf(c) = NoBranch
      BY <2>1 DEF HeldAt, Has, TreeOf, BranchOf
    <2>4. CASE Cmd(p) = "cleanup"
      <3>1. Finish(p) /\ backlog[t] = c
        BY <1>10, <2>1, <2>4 DEF LogRemoved, HeldAt
      <3>2. QED
        BY <1>1, <1>2, <1>5, <2>1, <2>2, <2>3, <2>4, <3>1, FinishTidy
    <2>5. CASE Cmd(p) = "delete"
      <3>1. Take(p, "rmtickets", c)
        BY <1>10, <2>5 DEF LogRemoved, Goto
      <3>2. QED
        BY <1>5, <1>6, <1>7, <2>1, <2>2, <3>1 DEF Gone
    <2>6. CASE Cmd(p) = "archive"
      <3>1. \E step \in {"prunebranch", "store"} : Take(p, step, c)
        BY <1>10, <2>6 DEF LogRemoved, Goto
      <3>2. QED
        BY <1>5, <1>6, <2>1, <2>2, <2>3, <2>6, <3>1 DEF Gone
    <2>7. QED
      BY <1>2, <2>4, <2>5, <2>6
  <1>11. CASE PruneBranch(p)
    <2>1. /\ pc[p] = "prunebranch" /\ UNCHANGED <<tree, registered, ledger, backlog>> /\ Take(p, "store", c)
      BY <1>11 DEF PruneBranch, RemoveBranch, Goto
    <2>2. Cmd(p) = "archive" /\ OtherTreesStay(p)
      BY <1>2, <2>1 DEF Takes, Lists, OtherTreesStay
    <2>3. tree[t] = TreeOf(c) /\ registered[t] = BranchOf(c) /\ ledger[t] = IF Has(c) THEN 1 ELSE 0
      BY <1>3, <2>1 DEF Holder, Count, Gone, CopySteps, Making, Before, Between
    <2>4. QED
      BY <1>6, <2>1, <2>2, <2>3 DEF Gone
  <1>12. CASE RemoveTickets(p)
    <2>1. /\ pc[p] = "rmtickets" /\ UNCHANGED <<tree, registered, ledger, backlog>> /\ Take(p, "rmrecord", c)
      BY <1>12 DEF RemoveTickets, Goto
    <2>2. QED
      BY <1>5, <1>6, <1>7, <2>1 DEF Gone, OtherTreesStay
  <1>13. CASE RemoveRecord(p)
    <2>1. /\ pc[p] = "rmrecord" /\ UNCHANGED <<tree, registered, ledger>> /\ Finish(p)
          /\ backlog' = [backlog EXCEPT ![t] = Absent]
      BY <1>13 DEF RemoveRecord
    <2>2. backlog'[t] = Absent /\ OtherTreesStay(p) /\ ~Has(Absent)
      BY <1>1, <1>2, <2>1 DEF OtherTreesStay, Has
    <2>3. QED
      BY <1>1, <1>2, <1>5, <1>7, <2>1, <2>2, FinishTidy
  <1>14. QED
    BY <1>8, <1>9, <1>10, <1>11, <1>12, <1>13

(* A step that finds and leaves every worktree where the record says.      *)
LEMMA RestedTidy ==
    ASSUME OwnShape, NEW p \in Procs, TreesFollow(p),
           UNCHANGED <<tree, registered, ledger, backlog>>,
           pc[p] \in Untargeted \cup {"restore"},
           Cmd(p)' = "prune" => pc'[p] \in {"list", "orphans"},
           pc'[p] \in Untargeted \cup {"add", "start", "cliget", "get", "restore"},
           pc'[p] = "add" => Task(p)' \in Tasks /\ backlog[Task(p)'] = Absent
    PROVE  TreesFollow(p)'
  <1>1. ASSUME NEW t \in Tasks PROVE Rests(t)
    BY DEF TreesFollow, WorksOn, Rests, Holder, Count, Untargeted, Gone, CopySteps, Making, Before, Between
  <1>2. ASSUME NEW t \in Tasks PROVE Rests(t)'
    BY <1>1 DEF Rests, Tidy, TreeOf, BranchOf, Has
  <1>3. ASSUME NEW t \in Tasks, WorksOn(p, t)'
        PROVE  Tidy(t, Holder(pc[p], copy[p], backlog[t]), Count(Cmd(p), pc[p], copy[p], backlog[t]))'
    <2>1. pc'[p] \in {"add", "start", "cliget", "get", "restore"} /\ Task(p)' = t
      BY <1>3 DEF WorksOn
    <2>2. /\ Holder(pc[p], copy[p], backlog[t])' = backlog'[t]
          /\ Count(Cmd(p), pc[p], copy[p], backlog[t])' = IF Has(backlog[t])' THEN 1 ELSE 0
      <3>1. CASE pc'[p] = "add"
        BY <2>1, <3>1 DEF Holder, Count, Has, Gone, CopySteps, Making, Before, Between
      <3>2. CASE pc'[p] # "add"
        BY <2>1, <3>2 DEF Holder, Count, Has, Gone, CopySteps, Making, Before, Between
      <3>3. QED
        BY <3>1, <3>2
    <2>3. QED
      BY <1>2, <2>2 DEF Rests, Tidy, Has, TreeOf, BranchOf, Holder
  <1>4. QED
    BY <1>2, <1>3 DEF TreesFollow

LEMMA BulkTidy ==
    ASSUME Shape, NEW p \in Procs, HeldInv(p), TreesFollow(p),
           Begin(p) \/ ListTasks(p) \/ ListOrphans(p) \/ NextTask(p) \/ Restore(p)
    PROVE  TreesFollow(p)'
  <1> USE DEF data, disk, gitVars, At
  <1>1. /\ OwnShape /\ Fits(p, pc[p], copy[p]) /\ HeldAt(p)
        /\ pc[p] \in Untargeted \cup {"restore"} /\ UNCHANGED <<ledger, backlog>>
        /\ Restore(p) \/ UNCHANGED <<tree, registered>>
    BY DEF Shape, OwnShape, HeldInv, Begin, ListTasks, ListOrphans, NextTask, Restore, Untargeted
  <1>2. CASE Begin(p)
    <2>1. PICK j \in Requests :
             /\ job' = [job EXCEPT ![p] = j]
             /\ pc' = [pc EXCEPT ![p] = FirstStep(j.cmd)]
      BY <1>2 DEF Begin
    <2>2. /\ pc'[p] = FirstStep(j.cmd) /\ Cmd(p)' = j.cmd /\ Task(p)' = j.task
      BY <1>1, <2>1 DEF OwnShape, Cmd, Task
    <2>3. /\ pc'[p] \in {"add", "start", "list", "cliget", "get"}
          /\ j.cmd = "create" => j.task \in Tasks \ used
      BY <1>1, <2>2, FirstStepFits DEF Shape, DataShape
    <2>4. (pc'[p] = "add" => j.cmd = "create") /\ (j.cmd = "prune" => pc'[p] = "list")
      BY <2>2 DEF FirstStep, Lists
    <2>5. pc'[p] = "add" => Task(p)' \in Tasks /\ backlog[Task(p)'] = Absent
      BY <2>2, <2>3, <2>4 DEF HeldInv, KnownAreUsed
    <2>6. UNCHANGED <<tree, registered, ledger, backlog>>
      BY <1>1, <1>2 DEF Begin
    <2>7. QED
      BY <1>1, <2>2, <2>3, <2>4, <2>5, <2>6, RestedTidy DEF Untargeted
  <1>3. CASE Stop(p) /\ ~Restore(p)
    <2>1. /\ pc'[p] = "idle" /\ Cmd(p)' = "none"
      BY <1>1, <1>3 DEF Stop, OwnShape, Cmd, NoJob
    <2>2. QED
      BY <1>1, <1>3, <2>1, RestedTidy DEF Untargeted
  <1>4. CASE ListTasks(p) /\ ~Stop(p)
    <2>1. /\ pc'[p] \in {"orphans", "next"} /\ job' = job
          /\ pc'[p] = "next" => Cmd(p) # "prune"
      BY <1>1, <1>4 DEF ListTasks, OwnShape
    <2>2. UNCHANGED <<tree, registered>> /\ Cmd(p)' = Cmd(p)
      BY <1>4, <2>1 DEF ListTasks, Cmd
    <2>3. QED
      BY <1>1, <2>1, <2>2, RestedTidy DEF Untargeted
  <1>5. CASE ListOrphans(p)
    <2>1. snap[p] = backlog /\ pc[p] = "orphans"
      BY <1>1, <1>5 DEF ListOrphans, HeldAt
    <2>2. \A t \in Tasks : registered[t] = BranchOf(backlog[t])
      BY <2>1 DEF TreesFollow, WorksOn, Rests, Tidy, Untargeted
    <2>3. \A t \in Tasks : registered[t] # NoBranch => t \in Known(snap[p]) /\ snap[p][t].worktree
      BY <2>1, <2>2 DEF BranchOf, Has, Known
    <2>4. Stop(p)
      BY <1>5, <2>3 DEF ListOrphans
    <2>5. ~Restore(p)
      BY <2>1 DEF Restore
    <2>6. QED
      BY <1>3, <2>4, <2>5
  <1>6. CASE NextTask(p)
    <2>1. Cmd(p) \in {"reconcile", "startall", "closeall"} /\ pc[p] = "next"
      BY <1>1, <1>6 DEF NextTask, Fits, Takes, TreesFollow
    <2>2. Cmd(p)' = Cmd(p)
      BY <1>1, <1>6 DEF NextTask, OwnShape, Jobs, Cmd
    <2>3. pc'[p] \in {"restore", "get"} /\ UNCHANGED <<tree, registered>>
      BY <1>1, <1>6, <2>1 DEF NextTask, OwnShape
    <2>4. QED
      BY <1>1, <2>1, <2>2, <2>3, RestedTidy
  <1>7. CASE Restore(p)
    <2>1. pc[p] = "restore" /\ Finish(p) /\ Cmd(p) = "reconcile" /\ Task(p) \in Tasks
      BY <1>1, <1>7 DEF Restore, Fits, Takes, Lists, Untargeted
    <2>2. backlog[Task(p)] = copy[p] /\ copy[p] # Absent /\ copy[p].worktree
      BY <1>1, <2>1 DEF HeldAt, Fits, CopySteps
    <2>3. tree[Task(p)] = "present"
      BY <1>1, <2>1, <2>2, FoundTree DEF Tidy, Holder, TreeOf, Has, Gone, CopySteps, Untargeted
    <2>4. UNCHANGED <<tree, registered>>
      BY <1>7, <2>3 DEF Restore, CanAdd
    <2>5. pc'[p] \in {"idle", "next"} /\ (Cmd(p)' = "none" \/ Cmd(p)' = Cmd(p))
      BY <1>1, <2>1, AfterFinish
    <2>6. QED
      BY <1>1, <2>1, <2>4, <2>5, RestedTidy DEF Untargeted
  <1>8. QED
    BY <1>2, <1>3, <1>4, <1>5, <1>6, <1>7

LEMMA TreesPreserved ==
    ASSUME Shape, NEW p, Procs = {p}, HeldInv(p), TreesFollow(p), Faults \cap TreeFaults = {},
           "delete" \notin Outside, [Next]_vars
    PROVE  TreesFollow(p)'
  <1>1. p \in Procs /\ ~Crash(p) /\ HeldAt(p)
    BY DEF Crash, TreeFaults, HeldInv
  <1>2. CASE Begin(p) \/ Step(p)
    BY <1>1, <1>2, CreateTidy, LoadTidy, MoveTidy, RemoveTidy, BulkTidy DEF Step
  <1>3. CASE UNCHANGED <<backlog, tree, registered, ledger, own>>
    BY <1>3 DEF TreesFollow, WorksOn, Rests, Tidy, Holder, Count, TreeOf, BranchOf, Has, own, Cmd, Task
  <1>4. QED
    <2>1. Next => Begin(p) \/ Step(p) \/ Crash(p) \/ \E t \in Tasks : User(t)
      BY DEF Next
    <2>2. (\E t \in Tasks : User(t)) \/ UNCHANGED vars => UNCHANGED <<backlog, tree, registered, ledger, own>>
      BY DEF User, Edit, Push, vars, data, disk, gitVars
    <2>3. QED
      BY <1>1, <1>2, <1>3, <2>1, <2>2

(* What one process does, whatever of it fails but the steps of TreeFaults,*)
(* while users edit and push: between its commands a task has a worktree   *)
(* exactly when its record says so, registered on the branch the record    *)
(* names, and the worktree metric counts it once.                          *)
THEOREM WorktreesRest ==
    ASSUME NEW p, Procs = {p}, Faults \cap TreeFaults = {}, "delete" \notin Outside
    PROVE  Spec => []WorktreeWhereRecorded
  <1>1. Init => Shape /\ HeldInv(p) /\ TreesFollow(p)
    <2>1. Init => TreesFollow(p)
      BY DEF Init, GitInit, TreesFollow, WorksOn, Rests, Tidy, TreeOf, BranchOf, Has, Nothing, NoJob,
             Untargeted, Cmd
    <2>2. QED
      BY <2>1, ShapeInit, HeldInit
  <1>2. Shape /\ HeldInv(p) /\ TreesFollow(p) /\ [Next]_vars
           => Shape' /\ HeldInv(p)' /\ TreesFollow(p)'
    BY ShapePreserved, HeldPreserved, TreesPreserved
  <1>3. TreesFollow(p) => WorktreeWhereRecorded
    BY DEF TreesFollow, WorktreeWhereRecorded, Resting, At, WorksOn, Untargeted, Rests, Tidy,
           TreeOf, BranchOf, Has
  <1>4. QED
    BY <1>1, <1>2, <1>3, PTL DEF Spec

=============================================================================
