---------------------------- MODULE TaskLifecycle ----------------------------
(***************************************************************************)
(* The task commands of adb (core/taskmanager.go, cli/task.go,             *)
(* cli/work.go) over the backlog, the ticket directories and the git       *)
(* worktrees.  Each process runs one command at a time.  A step is one     *)
(* call into the backlog (atomic, as FileRegistry shows), one directory    *)
(* operation or one git command; steps of several processes interleave,    *)
(* and a command that loaded a task writes its whole copy back.            *)
(*                                                                         *)
(* All tasks belong to one repository and derive the same branch name from *)
(* their titles, the case the uniqueness guard in Create is for; a task's  *)
(* second choice is the name with its id.                                  *)
(***************************************************************************)
EXTENDS GitWorktrees

CONSTANTS Procs, Absent,
          Plain,     \* the branch every title maps to
          Commands,  \* the commands that run
          Targets,   \* statuses that task update sets
          Faults,    \* steps that may fail, and "crash"
          Outside,   \* what users do meanwhile: "edit", "push", "delete"
          QuietEdits,\* whether they edit only while no command removes a tree
          MaxDepth,  \* bound: _archived directories nest this deep
          MinLedger  \* bound: no reconcile starts with a ledger below this

ASSUME TaskLifecycleAssumption ==
    /\ Branches = Tasks \cup {Plain} /\ Plain \notin Tasks /\ NoBranch \notin Branches
    /\ Targets \subseteq {"backlog", "active", "done", "archived"}
    /\ MaxDepth \in Nat /\ MinLedger \in Int /\ QuietEdits \in BOOLEAN

VARIABLES backlog,  \* the record of each task
          tickets,  \* the places on disk where a task has a ticket directory
          ledger,   \* worktree.created minus worktree.removed events
          used,     \* ids generated so far
          pc, job,  \* each process's step and command
          copy,     \* the task the command loaded and will write back
          cli,      \* the task that task update loaded before anything else
          todo,     \* what a bulk command has still to do
          snap,     \* the backlog that a worktree command loaded
          discarded \* history: tasks whose unsaved work an unforced removal took

own == <<pc, job, copy, cli, todo, snap>>
data == <<backlog, used, ledger>>
disk == <<tickets, gitVars, discarded>>
vars == <<data, disk, own>>

(* A place is a ticket directory below tickets/: under so many _archived   *)
(* directories, in the nested layout or as the flat tickets/<ID> that a    *)
(* record without a path stands for.                                       *)
Places == {"nested", "flat"} \X (0 .. MaxDepth)
Flat == <<"flat", 0>>
New == <<"nested", 0>>
Depth(place) == place[2]

(* "active" stands for in_progress, blocked and review.                    *)
Records == [status : {"backlog", "active", "done", "archived"},
            place : Places \cup {Absent},
            worktree : BOOLEAN,
            branch : Branches \cup {NoBranch}]

(* No record and no place is the value that stands for none.               *)
ASSUME AbsentAssumption == Absent \notin Records /\ Absent \notin Places

NewRecord == [status |-> "backlog", place |-> Absent, worktree |-> FALSE, branch |-> NoBranch]

Nothing == [t \in Tasks |-> Absent]
Known(table) == {t \in Tasks : table[t] # Absent}

(* resolveTicketDir                                                        *)
Where(rec) == IF rec.place = Absent THEN Flat ELSE rec.place

Lists == {"startall", "closeall", "reconcile", "prune"}

Requests ==
    {j \in [cmd : {"create"}, task : Tasks \ used, opt : {"repo", "norepo"}]
       \cup [cmd : {"resume", "start", "priority", "initiative", "unarchive", "delete"},
             task : used, opt : {"-"}]
       \cup [cmd : {"status", "status+owner"}, task : used, opt : Targets]
       \cup [cmd : {"archive"}, task : used, opt : {"-", "force", "keep", "prune"}]
       \cup [cmd : {"cleanup"}, task : used, opt : {"-", "force"}]
       \cup [cmd : Lists, task : {Absent}, opt : {"-"}]
       : j.cmd \in Commands}

NoJob == [cmd |-> "none", task |-> Absent, opt |-> "-"]

Steps == {"idle", "add", "bootstrap", "branch", "worktree", "storenew", "logcreated",
          "undotree", "undoticket", "undorecord", "get", "start", "list", "cliget", "next",
          "store", "clistore", "render", "handoff", "move", "check", "remove", "logremoved",
          "prunebranch", "moveback", "rmtickets", "rmrecord", "restore", "orphans"}

TypeOK ==
    /\ backlog \in [Tasks -> Records \cup {Absent}]
    /\ tickets \in [Tasks -> SUBSET Places]
    /\ ledger \in [Tasks -> Int]
    /\ used \subseteq Tasks
    /\ pc \in [Procs -> Steps]
    /\ \A p \in Procs : job[p].task \in Tasks \cup {Absent}
    /\ copy \in [Procs -> Records \cup {Absent}]
    /\ cli \in [Procs -> Records \cup {Absent}]
    /\ todo \in [Procs -> SUBSET Tasks]
    /\ snap \in [Procs -> [Tasks -> Records \cup {Absent}]]
    /\ discarded \subseteq Tasks
    /\ GitTypeOK

Init ==
    /\ backlog = Nothing
    /\ tickets = [t \in Tasks |-> {}]
    /\ ledger = [t \in Tasks |-> 0]
    /\ used = {}
    /\ pc = [p \in Procs |-> "idle"]
    /\ job = [p \in Procs |-> NoJob]
    /\ copy = [p \in Procs |-> Absent]
    /\ cli = [p \in Procs |-> Absent]
    /\ todo = [p \in Procs |-> {}]
    /\ snap = [p \in Procs |-> Nothing]
    /\ discarded = {}
    /\ GitInit

-----------------------------------------------------------------------------
(* Moving through a command.                                               *)

At(p, step) == pc[p] = step
Task(p) == job[p].task
Cmd(p) == job[p].cmd
Forced(p) == job[p].opt = "force" \/ Cmd(p) = "delete"

Take(p, step, rec) ==
    /\ pc' = [pc EXCEPT ![p] = step]
    /\ copy' = [copy EXCEPT ![p] = rec]
    /\ UNCHANGED <<job, cli, todo, snap>>

Goto(p, step) == Take(p, step, copy[p])

Stop(p) ==
    /\ pc' = [pc EXCEPT ![p] = "idle"]
    /\ job' = [job EXCEPT ![p] = NoJob]
    /\ copy' = [copy EXCEPT ![p] = Absent]
    /\ cli' = [cli EXCEPT ![p] = Absent]
    /\ todo' = [todo EXCEPT ![p] = {}]
    /\ snap' = [snap EXCEPT ![p] = Nothing]

(* The command is over, with or without an error; a bulk command goes on   *)
(* to its next task.                                                       *)
Finish(p) == IF todo[p] = {} THEN Stop(p) ELSE Take(p, "next", Absent)

FirstStep(cmd) ==
    CASE cmd = "create"       -> "add"
      [] cmd = "start"        -> "start"
      [] cmd \in Lists        -> "list"
      [] cmd = "status+owner" -> "cliget"
      [] OTHER                -> "get"

Begin(p) ==
    /\ At(p, "idle")
    /\ \E j \in Requests :
         /\ j.cmd = "reconcile" => \A t \in Tasks : ledger[t] >= MinLedger
         /\ job' = [job EXCEPT ![p] = j]
         /\ pc' = [pc EXCEPT ![p] = FirstStep(j.cmd)]
         /\ used' = used \cup (IF j.cmd = "create" THEN {j.task} ELSE {})
    /\ UNCHANGED <<backlog, ledger, copy, cli, todo, snap, disk>>

(* BacklogManager.UpdateTask: the whole record, when the task is there.    *)
Update(p, rec) ==
    /\ backlog[Task(p)] # Absent
    /\ backlog' = [backlog EXCEPT ![Task(p)] = rec]

UpdateFails(p, step) == backlog[Task(p)] = Absent \/ step \in Faults

-----------------------------------------------------------------------------
(* Create, after the id was generated.                                     *)

AddRecord(p) ==
    /\ At(p, "add")
    /\ \/ /\ backlog' = [backlog EXCEPT ![Task(p)] = NewRecord]
          /\ Take(p, "bootstrap", NewRecord)
       \/ "add" \in Faults /\ Finish(p) /\ UNCHANGED backlog
    /\ UNCHANGED <<used, ledger, disk>>

(* A failed bootstrap may leave a part of the ticket directory.            *)
Bootstrap(p) ==
    /\ At(p, "bootstrap")
    /\ \/ /\ tickets' = [tickets EXCEPT ![Task(p)] = @ \cup {New}]
          /\ Take(p, IF job[p].opt = "repo" THEN "branch" ELSE "storenew",
                  [copy[p] EXCEPT !.place = New])
       \/ /\ "bootstrap" \in Faults
          /\ tickets' \in {tickets, [tickets EXCEPT ![Task(p)] = @ \cup {New}]}
          /\ Goto(p, "undorecord")
    /\ UNCHANGED <<data, gitVars, discarded>>

(* The branch-uniqueness guard.                                            *)
PickBranch(p) ==
    LET b == IF Plain \in branches THEN Task(p) ELSE Plain
    IN  /\ At(p, "branch")
        /\ IF b \in branches THEN Goto(p, "undoticket")
           ELSE Take(p, "worktree", [copy[p] EXCEPT !.branch = b])
        /\ UNCHANGED <<data, disk>>

MakeWorktree(p) ==
    LET t == Task(p)
        b == copy[p].branch
    IN  /\ At(p, "worktree")
        /\ \/ /\ CanCreate(t, b)
              /\ AddTree(t, b)
              /\ Take(p, "storenew", [copy[p] EXCEPT !.worktree = TRUE])
           \/ /\ ~CanCreate(t, b) \/ "worktree" \in Faults
              /\ Goto(p, "undoticket")
              /\ UNCHANGED gitVars
        /\ UNCHANGED <<data, tickets, discarded>>

StoreNew(p) ==
    /\ At(p, "storenew")
    /\ \/ Update(p, copy[p]) /\ Goto(p, "logcreated")
       \/ UpdateFails(p, "storenew") /\ Goto(p, "undotree") /\ UNCHANGED backlog
    /\ UNCHANGED <<used, ledger, disk>>

LogCreated(p) ==
    /\ At(p, "logcreated")
    /\ ledger' = [ledger EXCEPT ![Task(p)] = IF copy[p].worktree THEN @ + 1 ELSE @]
    /\ Finish(p)
    /\ UNCHANGED <<backlog, used, disk>>

\* Mutant: the rollback forgets the worktree.
UndoNoTree(p) ==
    /\ At(p, "undotree")
    /\ Goto(p, "undoticket")
    /\ UNCHANGED <<data, disk>>

UndoTree(p) ==
    /\ At(p, "undotree")
    /\ IF copy[p].worktree /\ PassesCheck(Task(p), TRUE) THEN RemoveTree(Task(p))
       ELSE UNCHANGED gitVars
    /\ Goto(p, "undoticket")
    /\ UNCHANGED <<data, tickets, discarded>>

\* Mutant: the rollback forgets the ticket directory.
UndoNoTicket(p) ==
    /\ At(p, "undoticket")
    /\ Goto(p, "undorecord")
    /\ UNCHANGED <<data, disk>>

UndoTicket(p) ==
    /\ At(p, "undoticket")
    /\ tickets' = [tickets EXCEPT ![Task(p)] = @ \ {New}]
    /\ Goto(p, "undorecord")
    /\ UNCHANGED <<data, gitVars, discarded>>

UndoRecord(p) ==
    /\ At(p, "undorecord")
    /\ \/ backlog' = [backlog EXCEPT ![Task(p)] = Absent]
       \/ "undorecord" \in Faults /\ UNCHANGED backlog
    /\ Finish(p)
    /\ UNCHANGED <<used, ledger, disk>>

-----------------------------------------------------------------------------
(* The commands that load one task, change their copy and store it.        *)

Refuses(cmd, rec) ==
    CASE cmd = "archive"   -> rec.status = "archived"
      [] cmd = "resume"    -> rec.status = "archived" \/ (rec.status # "backlog" /\ ~rec.worktree)
      [] cmd = "unarchive" -> rec.status # "archived"
      [] cmd = "cleanup"   -> ~rec.worktree
      [] OTHER             -> FALSE

StatusAfter(j, rec) ==
    CASE j.cmd \in {"status", "status+owner"}                  -> j.opt
      [] j.cmd \in {"start", "startall"}                       -> "active"
      [] j.cmd = "closeall"                                    -> "done"
      [] j.cmd = "resume" /\ rec.status = "backlog"            -> "active"
      [] OTHER                                                 -> rec.status

StepAfterGet(cmd, rec) ==
    CASE cmd = "archive"                              -> "handoff"
      [] cmd = "unarchive"                            -> "moveback"
      [] cmd = "cleanup"                              -> "check"
      [] cmd = "delete"                               -> IF rec.worktree THEN "check" ELSE "rmtickets"
      [] cmd = "resume" /\ rec.status # "backlog"     -> "render"
      [] OTHER                                        -> "store"

Get(p) ==
    LET rec == backlog[Task(p)]
    IN  /\ At(p, "get")
        /\ IF rec = Absent THEN Finish(p)
           ELSE IF Refuses(Cmd(p), rec) THEN Finish(p)
           ELSE Take(p, StepAfterGet(Cmd(p), rec), [rec EXCEPT !.status = StatusAfter(job[p], rec)])
        /\ UNCHANGED <<data, disk>>

(* Start looks at the status first and leaves UpdateStatus to load again.  *)
Start(p) ==
    LET rec == backlog[Task(p)]
    IN  /\ At(p, "start")
        /\ IF rec # Absent /\ rec.status = "backlog" THEN Goto(p, "get") ELSE Finish(p)
        /\ UNCHANGED <<data, disk>>

StepAfterStore(p) ==
    CASE Cmd(p) = "cleanup"                                           -> "logremoved"
      [] Cmd(p) = "status+owner"                                      -> "clistore"
      [] Cmd(p) \in {"resume", "initiative"} /\ copy[p].worktree      -> "render"
      [] OTHER                                                        -> "done"

Store(p) ==
    /\ At(p, "store")
    /\ \/ /\ Update(p, copy[p])
          /\ IF StepAfterStore(p) = "done" THEN Finish(p) ELSE Goto(p, StepAfterStore(p))
       \/ UpdateFails(p, "store") /\ Finish(p) /\ UNCHANGED backlog
    /\ UNCHANGED <<used, ledger, disk>>

(* Resume and SetInitiative write task-context.md below the worktree path. *)
Render(p) ==
    /\ At(p, "render")
    /\ WriteBelow(Task(p))
    /\ Finish(p)
    /\ UNCHANGED <<data, tickets, discarded>>

(* task update loads the task before everything else and stores that copy  *)
(* when it sets the owner.                                                 *)
CliGet(p) ==
    LET rec == backlog[Task(p)]
    IN  /\ At(p, "cliget")
        /\ IF rec = Absent THEN Stop(p)
           ELSE /\ pc' = [pc EXCEPT ![p] = "get"]
                /\ cli' = [cli EXCEPT ![p] = rec]
                /\ UNCHANGED <<job, copy, todo, snap>>
        /\ UNCHANGED <<data, disk>>

CliStore(p) ==
    /\ At(p, "clistore")
    /\ \/ Update(p, cli[p])
       \/ UpdateFails(p, "clistore") /\ UNCHANGED backlog
    /\ Finish(p)
    /\ UNCHANGED <<used, ledger, disk>>

-----------------------------------------------------------------------------
(* Archive, Unarchive, Cleanup and Delete.                                 *)

(* handoff.md goes into the recorded ticket directory, which must exist.   *)
WriteHandoff(p) ==
    /\ At(p, "handoff")
    /\ IF Where(copy[p]) \in tickets[Task(p)] THEN Goto(p, "move") ELSE Finish(p)
    /\ UNCHANGED <<data, disk>>

(* A rename needs its source, and refuses an existing directory as target. *)
CanMove(t, from, to) == from \in tickets[t] /\ to \notin tickets[t]

\* Mutant: the directory is copied.
CopyTicket(t, from, to) == tickets' = [tickets EXCEPT ![t] = @ \cup {to}]

MoveTicket(t, from, to) == tickets' = [tickets EXCEPT ![t] = (@ \ {from}) \cup {to}]

Deeper(place) == <<place[1], place[2] + 1>>

Shallower(place) == IF Depth(place) = 0 THEN Flat ELSE <<place[1], place[2] - 1>>

MoveToArchive(p) ==
    LET from == Where(copy[p])
        to == Deeper(from)
    IN  /\ At(p, "move")
        /\ Depth(from) < MaxDepth
        /\ \/ /\ CanMove(Task(p), from, to)
              /\ MoveTicket(Task(p), from, to)
              /\ Take(p, IF copy[p].worktree /\ job[p].opt # "keep" THEN "check" ELSE "store",
                      [copy[p] EXCEPT !.status = "archived", !.place = to])
           \/ /\ ~CanMove(Task(p), from, to) \/ "move" \in Faults
              /\ Finish(p)
              /\ UNCHANGED tickets
        /\ UNCHANGED <<data, gitVars, discarded>>

MoveBack(p) ==
    LET from == Where(copy[p])
        to == Shallower(from)
    IN  /\ At(p, "moveback")
        /\ \/ /\ CanMove(Task(p), from, to)
              /\ MoveTicket(Task(p), from, to)
              /\ Take(p, "store", [copy[p] EXCEPT !.status = "backlog", !.place = to])
           \/ /\ ~CanMove(Task(p), from, to) \/ "moveback" \in Faults
              /\ Finish(p)
              /\ UNCHANGED tickets
        /\ UNCHANGED <<data, gitVars, discarded>>

(* RemoveWorktree was refused or failed: Archive keeps the worktree,       *)
(* Delete goes on without it, Cleanup and prune report it.                 *)
Kept(p) ==
    CASE Cmd(p) = "archive" -> Goto(p, "store")
      [] Cmd(p) = "delete"  -> Goto(p, "rmtickets")
      [] OTHER              -> Finish(p)

CheckWorktree(p) ==
    /\ At(p, "check")
    /\ IF PassesCheck(Task(p), Forced(p)) THEN Goto(p, "remove") ELSE Kept(p)
    /\ UNCHANGED <<data, disk>>

RemoveWorktree(p) ==
    LET t == Task(p)
    IN  /\ At(p, "remove")
        /\ \/ /\ tree[t] = "present"
              /\ RemoveTree(t)
              /\ discarded' = discarded \cup (IF Forced(p) THEN {} ELSE {t} \cap unsaved)
              /\ CASE Cmd(p) = "cleanup" -> Take(p, "store", [copy[p] EXCEPT !.worktree = FALSE])
                   [] Cmd(p) = "archive" -> Take(p, "logremoved", [copy[p] EXCEPT !.worktree = FALSE])
                   [] Cmd(p) = "delete"  -> Goto(p, "logremoved")
                   [] OTHER              -> Finish(p)
           \/ /\ tree[t] # "present" \/ "remove" \in Faults
              /\ Kept(p)
              /\ UNCHANGED <<gitVars, discarded>>
        /\ UNCHANGED <<data, tickets>>

LogRemoved(p) ==
    /\ At(p, "logremoved")
    /\ ledger' = [ledger EXCEPT ![Task(p)] = @ - 1]
    /\ CASE Cmd(p) = "cleanup"                           -> Finish(p)
         [] Cmd(p) = "delete"                            -> Goto(p, "rmtickets")
         [] Cmd(p) = "archive" /\ job[p].opt = "prune"   -> Goto(p, "prunebranch")
         [] OTHER                                        -> Goto(p, "store")
    /\ UNCHANGED <<backlog, used, disk>>

PruneBranch(p) ==
    /\ At(p, "prunebranch")
    /\ RemoveBranch(copy[p].branch)
    /\ Goto(p, "store")
    /\ UNCHANGED <<data, tickets, discarded>>

(* The recorded directory and the two flat ones.                           *)
RemoveTickets(p) ==
    /\ At(p, "rmtickets")
    /\ tickets' = [tickets EXCEPT ![Task(p)] = @ \ {Where(copy[p]), Flat, Deeper(Flat)}]
    /\ Goto(p, "rmrecord")
    /\ UNCHANGED <<data, gitVars, discarded>>

RemoveRecord(p) ==
    /\ At(p, "rmrecord")
    /\ backlog' = [backlog EXCEPT ![Task(p)] = Absent]
    /\ Finish(p)
    /\ UNCHANGED <<used, ledger, disk>>

-----------------------------------------------------------------------------
(* StartAll, CloseAll, work reconcile and work prune load the backlog once *)
(* and work through a list.                                                *)

Live(table) == {t \in Known(table) : table[t].status # "archived"}

ListTasks(p) ==
    LET chosen == CASE Cmd(p) = "startall" -> {t \in Known(backlog) : backlog[t].status = "backlog"}
                    [] Cmd(p) = "closeall" -> {t \in Known(backlog) : backlog[t].status = "active"}
                    [] OTHER               -> {t \in Live(backlog) : backlog[t].worktree}
    IN  /\ At(p, "list")
        /\ CASE Cmd(p) = "prune" /\ Live(backlog) # {} ->
                  /\ pc' = [pc EXCEPT ![p] = "orphans"]
                  /\ snap' = [snap EXCEPT ![p] = backlog]
                  /\ UNCHANGED <<job, copy, cli, todo>>
             [] Cmd(p) # "prune" /\ chosen # {} ->
                  /\ pc' = [pc EXCEPT ![p] = "next"]
                  /\ todo' = [todo EXCEPT ![p] = chosen]
                  /\ snap' = [snap EXCEPT ![p] = IF Cmd(p) = "reconcile" THEN backlog ELSE @]
                  /\ UNCHANGED <<job, copy, cli>>
             [] OTHER -> Stop(p)
        /\ UNCHANGED <<data, disk>>

(* findOrphanedWorktrees: git lists them, and no task of the loaded        *)
(* backlog has their path.                                                 *)
ListOrphans(p) ==
    LET orphans == {t \in Tasks : /\ registered[t] # NoBranch
                                  /\ ~(t \in Known(snap[p]) /\ snap[p][t].worktree)}
    IN  /\ At(p, "orphans")
        /\ IF orphans = {} THEN Stop(p)
           ELSE /\ pc' = [pc EXCEPT ![p] = "next"]
                /\ todo' = [todo EXCEPT ![p] = orphans]
                /\ UNCHANGED <<job, copy, cli, snap>>
        /\ UNCHANGED <<data, disk>>

NextTask(p) ==
    /\ At(p, "next")
    /\ \E t \in todo[p] :
         /\ todo' = [todo EXCEPT ![p] = @ \ {t}]
         /\ job' = [job EXCEPT ![p].task = t]
         /\ copy' = [copy EXCEPT ![p] = IF Cmd(p) = "reconcile" THEN snap[p][t] ELSE Absent]
    /\ pc' = [pc EXCEPT ![p] = CASE Cmd(p) = "reconcile" -> "restore"
                                 [] Cmd(p) = "prune"     -> "check"
                                 [] OTHER                -> "get"]
    /\ UNCHANGED <<cli, snap, data, disk>>

\* Mutant: the branch is derived from the title again.
RestorePlain(p) ==
    /\ At(p, "restore")
    /\ IF CanAdd(Task(p), Plain) THEN AddTree(Task(p), Plain)
       ELSE UNCHANGED gitVars
    /\ Finish(p)
    /\ UNCHANGED <<data, tickets, discarded>>

(* A path where something exists is skipped; git may refuse to add it.     *)
Restore(p) ==
    /\ At(p, "restore")
    /\ IF CanAdd(Task(p), copy[p].branch) THEN AddTree(Task(p), copy[p].branch)
       ELSE UNCHANGED gitVars
    /\ Finish(p)
    /\ UNCHANGED <<data, tickets, discarded>>

-----------------------------------------------------------------------------

Crash(p) ==
    /\ "crash" \in Faults /\ ~At(p, "idle")
    /\ Stop(p)
    /\ UNCHANGED <<data, disk>>

User(t) ==
    /\ \/ /\ "edit" \in Outside
          /\ QuietEdits => \A p \in Procs : ~At(p, "remove")
          /\ Edit(t)
       \/ "push" \in Outside /\ Push(t)
       \/ "delete" \in Outside /\ DeleteDirectory(t)
    /\ UNCHANGED <<data, tickets, discarded, own>>

Step(p) ==
    \/ AddRecord(p) \/ Bootstrap(p) \/ PickBranch(p) \/ MakeWorktree(p) \/ StoreNew(p)
    \/ LogCreated(p) \/ UndoTree(p) \/ UndoTicket(p) \/ UndoRecord(p)
    \/ Get(p) \/ Start(p) \/ Store(p) \/ Render(p) \/ CliGet(p) \/ CliStore(p)
    \/ WriteHandoff(p) \/ MoveToArchive(p) \/ MoveBack(p) \/ CheckWorktree(p)
    \/ RemoveWorktree(p) \/ LogRemoved(p) \/ PruneBranch(p) \/ RemoveTickets(p)
    \/ RemoveRecord(p) \/ ListTasks(p) \/ ListOrphans(p) \/ NextTask(p) \/ Restore(p)

Next ==
    \/ \E p \in Procs : Begin(p) \/ Step(p) \/ Crash(p)
    \/ \E t \in Tasks : User(t)

Spec == Init /\ [][Next]_vars

-----------------------------------------------------------------------------

Resting == \A p \in Procs : At(p, "idle")

(* Between commands a task's ticket directory is where its record says and *)
(* nowhere else, whatever was archived, failed or rolled back; a task that *)
(* is gone, or was never created, has none.                                *)
TicketWhereRecorded ==
    Resting => \A t \in Tasks :
        tickets[t] = IF backlog[t] = Absent THEN {} ELSE {Where(backlog[t])}

(* A task whose creation got as far as storing its paths has one ticket    *)
(* directory at every moment, whoever moves it, until it is deleted.       *)
TicketKept ==
    \A t \in Known(backlog) :
        backlog[t].place # Absent /\ (\A p \in Procs : Task(p) = t => ~At(p, "rmrecord"))
            => Cardinality(tickets[t]) = 1

(* Between commands a task has a worktree exactly when its record says so, *)
(* on the branch it names, and the worktree metric counts it.              *)
WorktreeWhereRecorded ==
    Resting => \A t \in Tasks :
        LET has == backlog[t] # Absent /\ backlog[t].worktree
        IN  /\ tree[t] = IF has THEN "present" ELSE "absent"
            /\ has => registered[t] = backlog[t].branch
            /\ ledger[t] = IF has THEN 1 ELSE 0

(* A worktree that its task's record claims is on the branch the record    *)
(* names, though every task would like the same branch name.               *)
BranchOfItsTask ==
    \A t \in Known(backlog) :
        backlog[t].worktree /\ tree[t] = "present" => registered[t] = backlog[t].branch

(* Removing a worktree without force takes no uncommitted or unpushed work:*)
(* "in-flight changes are never discarded silently" (cli/task.go:331-332). *)
WorkIsKept == discarded = {}

=============================================================================
