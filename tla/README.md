# A verification project for adb (ai-dev-brain)

`adb` is a Go command line program that keeps a developer's tasks, their ticket
directories, their git worktrees and much derived knowledge in the files of one
workspace. There is no server. Every CLI command, every editor hook, the MCP
server and the scheduler daemon is an operating-system process of its own that
opens the same files, so what is hard in this system is what happens between two
file operations: another process, an error, a crash, or a user who edits or
deletes.

The modules here model that for every part of adb that keeps state. TLC checks
them on small instances; TLAPS proves what matters most of the registry, the ids, the
task lifecycle, ingestion, the stages, the hooks, the automation and the issue
sync for instances of any size.

## 1. The system

### Components

| component | state | operations | correct when |
|---|---|---|---|
| backlog registry (`storage/backlog.go`, `atomicwrite.go`, `lockfile`) | `backlog.yaml`, its sidecar lock, one RWMutex per process | AddTask, UpdateTask, RemoveTask, GetTask, Load, Save | every call is atomic; no change of another caller is lost; locks come free |
| task ids (`core/taskid.go`) | the counter file, locked itself | GenerateTaskID | ids are unique and grow |
| task lifecycle (`core/taskmanager.go`, `cli/task.go`) | records, ticket directories, the event log's worktree balance | create, resume, start, start-all, close-all, update, archive, unarchive, cleanup, delete | record, directory, worktree and metric agree; a ticket directory is never lost |
| worktrees (`integration/worktree.go`, `cli/work.go`) | directories below `work/`, git's register, branches | create, restore, remove, list, reconcile, prune | unsaved work is not thrown away; a task's worktree is on its own branch |
| ingestion (`core/ingestion.go`, `storage/ingeststore.go`) | raw manifest, review queue, decision ledger, nodes | land, submit, accept, reject | no proposal is lost or decided twice; what is in the graph has a decision |
| stages (`core/stagemanager.go`, `stagegate.go`) | organizations, initiatives with their gate, evidence files, metrics, two logs | create, set stage, link, evaluate, advance, override, record | a stage is left only through its gate or by a human with a reason; advances are audited |
| hooks (`core/hookengine.go`, `internal/hooks`) | kill switch, steer file, evidence list, change list | pre/post tool use, stop, task completed, session end | a halt halts; gates hold; a message is shown once; a change is reported |
| vector memory (`internal/memory`, `core/knowledgeindex.go`) | a SQLite file, in each process a copy with a graph index | store, index, search, delete, list | searches answer from their copy fully and of their own namespace; no vector of another embedder |
| clones (`integration/reposync*.go`, `cli/repos.go`) | clones under `repos/` | pull, sync, delete merged branches | no commit of the user is lost; a branch follows its own upstream |
| scheduler and automation (`internal/scheduler`, `cli/scheduler.go`, `core/rules.go`) | PID file, job states, event cursor, outputs of rules | start, stop, restart, status, tick, drain, fire | one daemon; every event dispatched once; outputs all or none |
| event log (`observability/eventlog.go`) | an append-only JSON-lines file, rotated | log, read all, read since, tail | in order of time up to concurrent writers |
| issue sync (`integration/issuesync`) | per task a remote number and a baseline hash; the issue | create, update, close, reopen, label, pull | one issue per task; the two sides converge; the baseline never lies |
| session store (`storage/sessionstore.go`) | an index and one directory per session | next id, save, delete, list | ids unique; index and directories agree |
| scaffolds (`core/projectinit.go`, `harness_install.go`, `drift.go`) | generated files and a manifest of what was generated | init project, update, drift, harness | an edited file is kept; the plan is right |
| wiki and knowledge (`core/wikipublisher.go`, `knowledge.go`) | pages and navigation | publish | every link leads to a page |
| context files (`core/aicontext.go`, `contextgen.go`) | `CLAUDE.md`, its section hashes, ticket contexts | sync context, rich, task-context | changed sections are told; an agent's notes stay |
| cloud sync (`integration/cloudsync`) | an object store | push, pull, destroy | only scanned, allowed files leave; a pull after a push is whole |
| state migration (`internal/migration.go`) | legacy and current state files | move if absent | never overwrites, never loses |
| governance registries (`storage/adrstore.go`, `debtstore.go`, `crmstore.go`, `rulestore.go`) | a YAML file each | add, update, remove | ids unique; what was reported is kept |

`PROJECT.json` lists the remaining parts (file channel, terminal state, MCP
server, wiring) with what is or is not modelled of them and why.

### How they interact

A `task create` draws an id from the counter, adds a record to the registry,
makes the ticket directory, asks git whether the branch exists, adds the
worktree, and stores the record again with the paths, undoing all of it when a
step fails. Later commands load the record, act on the directories or on git,
and store *the whole record they loaded*. Nothing holds a lock from the load to
the store: the registry makes each call atomic and nothing more. Stages,
issue sync and most small registries work the same way. Every command starts
with the state migration and logs events; the scheduler's daemon reads the log
behind a cursor and fires rules; hooks run as separate processes of many agents
over shared small files; `CLAUDE.md`, the wiki, the memory and the cloud archive
are derived from the rest and read it while it changes.

### What is hard

Interleavings of two processes between load and store; the order of the writes
of one command, with a failure or a death between any two; sequences of legal
commands (archive, change the status, archive again); a user who edits, pushes
or deletes while commands run; and answers that get lost (an issue was created,
its number was not). The list, with one entry per place in the code, is under
`hazards` in `PROJECT.json`.

## 2. The modules

| module | models | composed with |
|---|---|---|
| `Registry` | what BacklogManager promises: each call, in one atomic step, answers and takes effect, or fails without effect | abstract specification of `FileRegistry` |
| `FileRegistry` | the same calls as the code runs them: mutex, flock, load, change in memory, temporary file, rename, unlock; failures; crashes of a process with all its threads | refines `Registry` |
| `TaskIds` | GenerateTaskID step by step | |
| `GitWorktrees` | worktrees of one repository: directory, git's register, branches, unsaved work | part of `TaskLifecycle` |
| `TaskLifecycle` | all task commands, `work reconcile` and `work prune`, over records, ticket directories and `GitWorktrees` | uses the registry calls as atomic steps, which the refinement justifies |
| `Ingestion` | landing raw content; proposals through confidence gate, review queue, graph and ledger | stands alone |
| `Stages` | organizations, initiatives, evidence, gates, metrics and the audit events | stands alone |
| `Hooks` | the five hook events of several agents over the shared small files | checked beside `Memory` |
| `Memory` | the vector store, its embedder check, the indexers and searches | |
| `Repos` | pulls and syncs of clones while a user works in them | checked in `MCWorkspace` |
| `EventLog` | stamping, appending, rotating, following | part of `Automation` |
| `RuleEngine` | one firing of a rule: gate, action, outputs | part of `Automation` |
| `Automation` | the scheduler's commands and daemons, their jobs, the cursor | over `EventLog` and `RuleEngine` |
| `IssueSync` | a task, its context file, its issue, and the reconcile runs between them | stands alone |
| `Scaffold`, `Wiki`, `AIContext`, `CloudArchive`, `StateMigration` | the parts of a workspace that keep files of their own | checked together in `MCWorkspace` |
| `SessionStore`, `Records` | the session index and the registries, which hand out numbers | checked in `MCTaskIds`, beside `TaskIds` |
| `Sublists` | filtering a list in order, without recursion | used by `EventLog`, `RuleEngine`, `Automation` and `Memory` |
| `FileRegistryProofs`, `TaskLifecycleProofs`, `IngestionProofs`, `StagesProofs`, `AutomationProofs`, `IssueSyncProofs` | the TLAPS proofs of the module of that name | |
| `HooksProofs` | the proofs about `Hooks`, `Memory` and `Repos` | one section each |
| `WorkspaceProofs` | the proofs about `TaskIds`, `StateMigration`, `Records`, `CloudArchive`, `SessionStore`, `Scaffold`, `Wiki` and `AIContext` | one section each |
| `MC*` | the small instances for TLC | |

In all of them one step is one registry call, one file operation, one git
command or one call of a provider: what another process can see. Where a module
takes a load-change-rename under a file lock for one step, `FileRegistry` is the
reason that it may.

### Registry and FileRegistry

`table` and `file` are `backlog.yaml` as a function from task ids to records;
a record is an opaque value. A thread's `pc` is its place in a call: `mutex`
(before `mu.Lock`), `flock` (before `acquireFileLock`), `load`, `write` (the
temporary file), `rename`, `unlock` (the deferred unlock of the file) and
`unmutex`; readers take only the read lock and go through `read` and `runlock`.
`Refuse` is the early return when an id exists already or is missing. `Crash`
kills a process: its descriptors close, which frees the flock, and its mutex and
threads are gone. A temporary file that a crash leaves is never read, so it is
not part of the state. `sync.RWMutex` is modelled without writer preference,
which allows more behaviours than Go does. `Load` followed by `Save` of a
rewritten table is how the bulk commands (`task migrate-types`, `task
normalize`, `task migrate-blocked-by`) use the registry; `Migrated` is the
rewriting.

The refinement maps `file` to `table` and a call to itself: the abstract step
happens at the rename for a change, at the read for a reading, at the refusal
or the failing operation otherwise; every other step stutters.

### TaskIds

`counter` is what the counter file reads as (an empty file reads as 0, as in
`readCounter`), `flock` its lock. The write is in place, so `Truncate` and
`WriteCounter` are two steps. `issued` and `floor` are history variables.
`TornWrites` says whether a call may stop between the two; `MaxId` bounds the
numbers for TLC, and the proofs hold for every value of it.

### GitWorktrees and TaskLifecycle

All tasks belong to one repository and, from equal titles, derive the same
branch name `Plain`, the case that the uniqueness guard of Create exists for;
the second choice is the name with the task's id. `tree` says what is at a
worktree path: nothing, a working tree, or a *husk*, a plain directory (which
`task resume` makes when it writes the context file below a path whose worktree
is gone). `registered` is the branch git lists for the path; it outlives a
directory that somebody deletes by hand. `unsaved` are the trees that the dirty
guard refuses to remove.

`backlog` holds records with the fields the commands decide on: status
(`active` stands for in_progress, blocked and review), ticket place, whether a
worktree path is set, branch. A *place* is a layout (nested or the flat
`tickets/<ID>`) and the number of `_archived` directories above it. `ledger` is
worktree.created minus worktree.removed, what the dashboard shows as *Worktrees
Active*.

A process's `pc` is the next call of its command, `copy` the record it loaded
and will store, `cli` the copy that `task update` loads before everything else,
`todo` and `snap` the list and the backlog a bulk command works from. Create is
`AddRecord`, `Bootstrap`, `PickBranch`, `MakeWorktree`, `StoreNew`, `LogCreated`
with `UndoTree`, `UndoTicket`, `UndoRecord` as its rollback; the commands that
load, change and store share `Get` and `Store`; archive is `WriteHandoff`,
`MoveToArchive`, `CheckWorktree`, `RemoveWorktree`, `LogRemoved`, `PruneBranch`,
`Store`. A rename refuses an existing target, as Go's `os.Rename` does for
directories. `Faults` names the steps that may fail and, with `crash`, lets a
process die before any step; `Outside` is what users do meanwhile.

### Ingestion

`queue` and `ledger` say how often the review queue and the decision ledger hold
each proposal (submitting again submits the same id, as `proposalID` derives it
from the payload), `nodes` the ingested nodes with their links, `manifest` and
`content` the landed artifacts of one source and their files. Every store call
is two steps, reading its file and replacing it. `propose` works through its
`batch` as Submit does: an item at or above the threshold is applied and
recorded, or queued when applying fails; any other is queued. `accept` is `Take`,
`StoreTaken`, then `Look` (AddEdge), `PutLoad`, `PutStore`, `Record`,
`RecordStore`; `reject` goes from the queue to the ledger. `held` is the proposal
that is in neither file at the moment, and `lost` counts those whose command
ended then, by an error it reports or by a crash. Content that is being written
may stay torn.

### Stages

`index` is `initiatives/index.yaml` in file order, each record with its stage,
the gate result that its last advance stored, and its graph links; `hand` is
history, the stage a human put it to. A command that changes an initiative reads
it without the lock (`GetInitiative`), for an advance evaluates the evidence
(`Evaluate`, after the refusals of `Refused`), and stores the whole record it
read (`Store`): the two reads may be of different moments, which is where stale
writes come from. `emitAdvanceEvents` is one `Emit` per event. The metric
registry has no file lock and its load and write are two steps. `stageGates` is
the code's table; evidence is the three values per metric that the thresholds
tell apart, and whether a file is there.

### Hooks, Memory and Repos

`Hooks`: an agent runs one hook at a time and then its tool (`Run`). A `direct`
hook runs `adb hook` itself; a `wrapper` is the installed shell script that sets
`ADB_HOOK_ACTIVE` first, so that the recursion guard ends the command before it
looks at anything. `KillSwitch`, `RenameSteer`, `PrintSteer`, `BlockVendor`,
`Evidence`, `SpecGate` are PreToolUse in order; `Track` is PostToolUse; `Pause`
Stop; `QualityGates`, `GetChanges`, `UpdateContext`, `ClearChanges` TaskCompleted;
`ClearEvidence` SessionEnd. Each is one file operation. `Track` is the write of a
change; nobody sees the open before it until the file is removed, so `ClearChanges`
chooses which of the agents about to track have it open (`orphaned`).

`Memory`: `memoryEntries` and `embedderMeta` are the two tables; a process that
has the store open keeps `nodes`, the copy made at the open, which only its own
writes change. `rebuildIndex` loads it, `Upsert` and `DeleteEntry` write the
table and then the copy, `Search` asks the approximate graph index (its answer
is an input) and falls back to a scan when too few hits are of the namespace.

`Repos`: a commit is the sequence of edits that led to it, so an ancestor is a
prefix. `pullOneRepo` is fetch, the checks of branch and tree, then the pull; `SyncRepo`
fetches, reads the current branch, checks, merges, lists merged branches and
deletes them one by one, with the user's `Switch`, `Commit`, `NewBranch`, `Detach`,
`EditClone` and `PushBranch` in between. What git itself does is external.

### EventLog, RuleEngine and Automation

A writer takes its time stamp and appends later, so lines may be out of order
(`late`). It opens the log before it writes the line; the open matters only when
the log is renamed in between, so `RotateIfLarge` chooses which of the writers on
their way have it open, and their lines go to the rotated file (`stranded`).
The daemon's slot runs `invoke` (skipping when the job's lock is taken),
reads the cursor, reads the events since, and for each works through the rules
that match; the cursor is stored once, when the drain has no event left. Rules follow `Validate`, the
gate, the action and then all outputs, rendered before the first is applied.
`start`, `stop`, `restart` and `status` read the PID file, probe the process,
spawn or signal it and remove the file in separate steps; a daemon that is told
to stop lets its job end.

### IssueSync

One task with its record, its `context.md` and the issues on its host. A run
loads the record, reads the body, gets the issue, and by `Reconcile` (baseline
hash of status and body, then the newer time) creates, pushes or pulls; a push
is labels to remove, edit, close or reopen, and the whole-record write-back, each
a step that may fail or whose answer may be lost. GitHub and GitLab differ in
labels and in what they say of a closed issue; of a new issue whose URL does not
parse adb stores the number 0, which is none. Four history variables name what the
properties except: `unseen` has the issues that people changed since adb wrote or
read them, and only those; `cut` those that a push changed before it was cut
short, by a failed close or reopen, a failed write-back or a death; `causes` which
failures and races there were, a failed reopen and a death before it as `reopen`;
`meant` is the status people last set, in the record or by a change of an issue
in `unseen` that a sync then pulled.

### The parts of a workspace

`Scaffold`: templates of two versions, disk, manifest; `newInitUpdateCmd` plans
from the three and `WriteArtifact` writes file by file before `writeManifest`.
`Wiki`: a publish walks the tasks, writes pages, then navigation in order.
`AIContext`: a rich sync loads the state, makes the sections one by one, writes
`CLAUDE.md`, then the state. `CloudArchive`: stage by walking, scan the copy,
upload one object at a time. `StateMigration`: check, rename, or copy and remove
across devices, for each file of the SQLite trio in turn. `SessionStore`: the
index hands out ids and is written in place. `Records`: four registries that
differ in their lock and in when the number is drawn.

## 3. What TLC checks

| run | instance | question and answer |
|---|---|---|
| `registry` | 2 processes of a thread each, 2 tasks, 2 records, all calls with Load and Save | No lost update, refinement of `Registry` under all failures and crashes, the lock is always released: holds under fairness |
| `numbers` | three parts: 3 callers, ids up to 4; 2 captures, 2 clerks, 4 registries, each with deaths | Ids are unique and grow: holds when no call stops between Truncate and WriteString; sessions and registry records keep numbers and files: holds |
| `lifecycle` | 1 process, 2 tasks, all commands, six failures, edits and pushes | Between commands every task's directory, worktree and metric are what its record says, and no unsaved work is taken: holds |
| `lifecycle_races` | 2 processes, 1 task, failures and crashes | A ticket directory is in exactly one place at every moment: holds |
| `lifecycle_branches` | 2 processes, 2 tasks, users delete worktrees | A claimed worktree is on its own task's branch: holds |
| `ingestion` | 1 process, 2 nodes, 2 contents, 1 cursor, 3 proposals, five failures, crashes | No proposal is lost or decided twice, what is in the graph has a decision, an edge never replaces another, content is listed once: holds |
| `stages` | 2 processes, 1 initiative, 3 commands, 2 watched pieces of evidence, three failures | A stage has its gate, humans decide, advances are audited: holds |
| `hooks` | 2 agents, 3 files, 3 events, 2 messages; 2 memory processes, 2 embedders, 2 commands | Kill switch, gates, steering, change reports; searches and the index: holds |
| `automation` | 2 daemons, 1 command line, 3 jobs, 3 rules, 2 events, 2 ticks, 2 commands, crashes and failures | Events are dispatched once, one daemon, whole outputs, true reports: holds |
| `issue_sync` | 1 process, 3 hosts, 4 statuses, 2 edits, 1 failure of ten kinds | One issue per task, an honest baseline, statuses round-trip, and the two sides converge: holds under fairness |
| `workspace` | six parts with small sets of files, two or three processes where commands overlap (section *Bounds*), deaths or failures; 2 clones, 1 pull, 3 user actions | Edits, plans, links, reported changes, archive and state files; no work lost in clones: holds |
| `hooks_wrapped` | as `hooks`, hooks run by the wrapper | violated: the kill switch does not stop a tool whose hook the recursion guard ended |

The violated property is what `hookengine.go` says of the kill switch; `findings`
in `PROJECT.json` quotes it.

**Composite properties.** A property that names several parts is the conjunction
of named definitions, each with its own comment, where the parts speak of one
promise and break together (`SearchesAreRight`, `IndexIsSound`, `UpdatesAreRight`,
`ArchiveIsSound`, `DispatchedOnce`, `ReportsTrue`, `LinkedOnce` and so on).

**Parts.** `MCWorkspace`, `MCTaskIds` and `MCHooks` hold modules that share no variable and
read no file of one another. A behaviour in which all of them step is an
interleaving of behaviours that never meet, so each behaviour of the instance is
of one `part`, chosen in `Init`, and the others stay in one initial state. It
loses no violation of a property that speaks of one part, as all of these do.

**Bounds.** Two processes give the registry every pair of callers in separate
processes; threads that share a process and its mutex are covered by the proofs,
as are the type invariant, mutual exclusion and fresh writes. Two tasks
are enough for one to be disturbed by a change of the other and for two to want
one branch. `MaxDepth` = 2 lets an already archived directory be archived once
more; no command looks further. `MinLedger` keeps a reconcile from starting once
the metric is below zero, which bounds the ledger (reconcile adds a worktree
without logging it). Ids are never drawn twice in `TaskLifecycle`, which makes
the number of creates the number of tasks; runs go on with all other commands.
`lifecycle` runs one command at a time because its properties speak of rest
between commands, and lets each fallible step fail in each state; `TicketKept`
and `BranchOfItsTask` are the properties that survive interleaving. `ingestion`
submits three proposals in batches of up to two: enough for an edge before and
after the node it starts from, a second edge beside it, and an item that follows
a failed one; with one more process its properties do not hold (section 5).
`stages` runs three commands: two that overlap and one that comes after, or a
stale one around two. `Watched` is one metric and one verdict of the same gate;
all other evidence is met, so that each gate is reached. `hooks` has three hook
events, so that a hook overlaps one that runs and another begins after; two
messages, as one can be renamed over the other. In `Memory`, `MaxTexts` = 2
tells a nearer from a farther entry, and two edges beside a task's files fill
both namespaces. In `Repos` three actions of a user make a branch, a commit on it
and a switch back. `automation` has a second daemon for the one a command starts
beside or after the first, one event that rules want and one that they do not.
`issue_sync` allows two edits, one on each side or both on one, and one failure;
a second process needs more than twelve million states and is left to the proofs,
which hold for any number. In `workspace` three movers let one die or copy while
two others meet, two syncs of context files overlap, and a pull of the clones
meets a sync of them. The templates, the wiki and the archive run one command at a
time, as their modules do (pushes of the archive, and beside them pulls and
destroys): users act between its steps, and it dies (templates, wiki) or any step
of it fails (archive). In `numbers` three callers, two captures and two clerks
overlap, and one command of each part dies.

**Fairness.** `registry` and `issue_sync` check liveness. `registry` assumes weak
fairness of each thread's own steps (`Advance`): the operating system runs a
thread that can go on. Nothing forces a call, a failure or a crash; the property
is about releasing the lock, so weak fairness is enough. `issue_sync` assumes
weak fairness of the steps of a command that runs, and that someone keeps running
`adb sync issues` with its default direction (strong fairness of `LoadBoth`,
since other runs may come first): without a next run nothing converges, and the
scheduler or a user is what gives it. Edits and failures are bounded, not fair.
The other modules state no liveness: `scheduler` promises none (a daemon may be
stopped for ever, a line of more than 64 KB makes its reader fail for ever).

**QuietEdits.** `WorkIsKept` holds in `lifecycle` with users editing at every
moment but one, between the dirty check and `git worktree remove --force`, two
commands that nothing makes atomic. Setting `QuietEdits` to FALSE shows the loss.

**Exceptions.** Many promises hold up to a race or a failure that the code does
not guard against. A property then names it by a history variable that only that
very event sets (`raced`, `crowded`, `clashed`, `unlinked`, `torn`, `disturbed`
and the like), so that the property says exactly when the promise is kept.
Section 5 lists what happens in those cases.

## 4. What TLAPS proves

**Registry.** For any sets of threads, processes, tasks and records with
`FileRegistryAssumption` (the sentinels are no members, records are no answers,
`Migrated` maps records to records):

- `TypeCorrect`, `WritersExclude`, `WritesAreFresh`: the three invariants;
- `NoLostUpdate`: a record changes only by a call that names it or by the save of
  a whole backlog;
- `Refinement`: `FileRegistry` implements `Registry`.

The inductive invariant is `TypeOK`, `CallInv` (a thread's outcome fits its
place), `LockInv` (a thread between flock and unlock is the lock's holder) and
`FreshWrite`. Mutual exclusion is not inductive by itself, because it does not
say who holds the lock; `LockInv` does, and with it a rename of one thread
cannot make stale what another has loaded. Step by step each is a lemma
(`TypePreserved`, `CallPreserved`, `LockPreserved`, `FreshPreserved`); the
refinement cites `FreshWrite` at the one step that matters, the rename, to see
that the temporary file is the effect of the call on the file of this moment.

**Ids.** For any number of callers with `TaskIdsAssumption`: `TypeCorrect`, and,
without torn writes, `IdsAreUnique` and `IdsGrow`. The invariant adds
`CounterInv` (the file is never behind a number given away, except while its
holder rewrites it) and `PendingInv` (no two calls are on the way to hand out the
same number).

**Task lifecycle.** For any tasks, processes, commands, faults and outside
actions, with `TaskLifecycleAssumption` and `AbsentAssumption` (the value that
stands for none is no record and no place):

- `TypeCorrect`: the types, by `Shape`, which adds which steps each command takes
  and that a record with a worktree names a branch;
- `BranchesMatch`: a worktree that a record claims is on the branch the record
  names. What the record says now is not enough, since any stale copy may be
  stored later; `BranchInv` says that of one task all copies, wherever they are,
  and git's register name one branch (`Named`), because a task is named a branch
  once, by its create, before any other process has seen it;
- `TicketsAreKept`, if processes do not die or no command deletes (a delete that
  dies between its two removals leaves a record without a directory): a created
  task has exactly one ticket directory. `TicketInv` says that a task has no
  directory only while it is not stored, a delete is about to remove its record,
  or nobody has seen where the directory is (`Unseen`), which holds until the
  create stores it; a move has one source and refuses a taken target;
- `WorkSurvives`, if users do not edit while a removal is under way
  (`QuietEdits`): no unforced removal takes unsaved work. A check that passed
  stays true until the removal, whatever other processes do in between;
- `TicketsRest` and `WorktreesRest`, for one process (`Procs = {p}`) that does not
  die: between its commands every ticket directory, and every worktree with its
  branch and its count in the metric, is as the records say. Two processes break
  this with stale copies, and so do the failures left out (`TicketFaults`,
  `TreeFaults`): a store that fails behind a move or a removal, a bootstrap that
  leaves half a directory, an undo that leaves the record, a removal of a worktree
  that git refuses and delete passes over, and, for worktrees, users who delete them by
  hand (they may edit and push). In the middle of a command nothing is as the
  record says; `HeldAt` says step by step how the copy that the process holds
  compares with the record, and `TicketsFollow` and `TreesFollow` whose word the
  directories (`Dirs`), the worktree (`Holder`) and the metric (`Count`) follow at
  each step: the record's, that of the copy about to be stored, or neither, when
  they have gone and the record has not. TLC checked both on one process before.

**Ingestion.** For any sets of nodes, contents and cursors, any commands and any
failures, with `IngestionAssumption` and one process at a time (`OneAtATime`; the
property speaks of what failures do, and two processes do break it):
`TypeCorrect`, `Conservation`, `ProvenanceKept`, `LandsOnce` and `EdgesAreKept`.
The invariant adds to the types `CommandInv` (which steps hold a proposal),
`ReadInv` (what a command read is what its file still holds when it replaces it,
which is where two processes would fail) and `PutInv` (the links about to be put
are those of the source and the new one). Conservation goes by a `Balance` per
proposal, one lemma per step that moves a proposal from one file to another.
Provenance is not inductive, since a held proposal may leave by a rejection;
`GraphInv` asks for a proposal that was applied and is about to be recorded as
accepted.

**Stages.** For any processes, organizations, initiatives, evidence, commands and
failures: `StagesHaveGates`, `HumansKeepDeciding`, `IdsStayUnique`,
`AdvancesStayAudited` and `MetricsSurvive`. What the
index says is not inductive, because any process may store a record it read long
ago; the invariant asks the same of every record that a process holds between
its read and its store (`RecordInv`), adds what the refusals have established for
an advance on its way (`AdvanceInv`), and that an organization once found stays
(`OwnerInv`). `Shape` fits each process's step to the command it runs.

`AdvancesStayAudited` and `MetricsSurvive` are about the log and the metrics.
`AuditInv` follows an event from the advance to the log: a command that is about
to log holds, once each, only events of its own advance which are due, neither
logged nor given up, and no two commands hold one event. `MetricInv` says that a
process about to write the metrics holds the index of this moment, unless its
names have clashed, and knows what it would undo.

**Hooks.** For any agents, files and failures: `KillHalts` and `GatesAreKept`
under the assumption that hooks run directly (`"wrapper" \notin Routes`, which
`hooks_wrapped` shows to be needed), `EvidenceLives` and `ChangesReported` under
none. The invariants place each agent's history at its step: how many tools it
has run since the halt, which gates the write it is about to make has passed,
whose evidence a session holds, and that a change is in the file, in a list that
an agent has read and not yet reported, reported, or raced.
A change that was written to a removed file counts as raced, too.
`MessagesShownOnce` follows a message that was not renamed over: it is at one
place, waiting, held by one agent, shown, or dropped with an agent that died
(`Placed`), and a printer prints what it holds, unless both messages are among
those that were renamed over (`Printing`).

**Memory.** For any processes, tasks, files, embedders, texts, edges and deaths,
with `MemoryAssumption` (finitely many tasks, files and edges, and no embedder
that looks like an empty metadata table): `MemoryIndexIsSound` and
`SearchesFindTheNearest`. What the database says of its embedder is inductive
only with what every open process believes (`ClientFits`): from the check on its
embedder is the one on record, since the record is written once, and its copy of
the entries is the table until another process writes. An index reflects the
files and edges at its end because at each step what is not in its list any more
is already stored (`FilesDone`, `EdgesDone`), and a text that was read and is
about to be stored is still the file's (`Progress`), for as long as `moved` and
`apart` say that nobody interfered. The searches need no more of the state than
that; the rest of that proof is about `Nearest`: that sets of the asked size
exist and which entries they hold, by way of counting lemmas.

**Clones.** For any clones, branches, tasks, pulls, syncs and users, with
`ReposAssumption` (finitely many clones and branches, `main` a branch, `HEAD`
none): `ClonesKeepWork`, an action property over the invariant `ReposInv`. It says
what a pull or a sync has read and may still rely on: the default branch of the
clone at hand, and until the user acts there that it is checked out (`PullFits`)
and clean; of a sync, that it forwards a branch that has an upstream (`SyncFits`);
and that a pull's results and its list of clones make up its plan (`PlanFits`).
That no commit is lost is then a matter of ancestors: a fast-forward goes to a
descendant (`AncestorsGrow`), and `git branch -d` refuses what is not merged.

**Automation.** For any daemons, commands, rules, events and deaths, with
`AutomationAssumption` and `RulesAssumption` (the rules pass `Validate`):
`EveryEventOnce`, `AtMostOneDaemon`, `NoPartialOutputs` and `ReportsHold`. Each
property needs more than it says:

- *no event is lost* speaks of the cursor file, but a drain works from the cursor
  it read (`from`) and on a batch that an append may have overtaken. `LostInv`
  asks of both, the file and every drain's own cursor, that what is at or before
  it is safe (`Passed`: taken, late, skipped, or in a batch), and that
  some event that was in the log or the start of the daemon is at or after it
  (`Reached`), which is why an event that is appended below it is late. An event
  whose line goes to a rotated file counts as skipped from the rotation on. A batch
  keeps the order of time, so the cursor that moves to its head passes nothing that is still in it;
- *none twice* adds, while one daemon lives (`LoneInv`), that an event which was
  taken is before the cursor, in the drain that will move it, or in `again`
  (`Stored`), and that a drain read the cursor that is still in the file
  (`DrainAt`). `OneRun` gives both: a job has one invocation at a time;
- *one daemon* is not inductive between the steps of a command: `OneInv` says what
  the command at work has seen, that nothing is up when it spawns or has removed
  the PID file, and that what is up is what it is about to signal or to write;
- *whole outputs* needs that a rule whose outputs are next has run its action for
  the event at the head of the batch (`RanInv`);
- *true reports* needs that every daemon alive has counted what is finished
  (`CountInv`), and that the shown, the missed and the lines ahead of the follower
  share nothing and make up what was appended (`TailInv`).

The reads of the log go through `Sublist`; its lemmas (what it holds, that it
keeps order and does not repeat) are proved by well-founded induction over
concrete sets.

**Issue sync.** For any number of processes, any hosts, statuses, edits and
failures, with `IssueSyncAssumption`: `OneIssuePerTask`, `BaselineDoesNotLie` and
`StatusComesBack`. TLC runs one process; the theorems say that more of them break
the promises only through what the properties name `overlap`. `Alone` and
`KnownLink` say that without it one process is at work and its copy has the
record's link. `OneInv` counts the issue whose number is on its way to the record
(`Making`), `HonestInv` follows the issue through a push and a pull: what it says
after the edit, after its state was set and before the write-back (`HonestAt`),
and that otherwise the baseline describes it (`Baseline`), for an issue that
nobody else changed and no push left half done (`Known`). Statuses come back
because an issue never has two of adb's labels (`OneLabel`), has after the edit
just that of the record (`TripAt`), and a pull of an issue that only adb changed
would bring back the record's own status (`Echo`), as long as no issue stays
closed that the record reopens: a failed reopen is in `causes`, a death before it
too. An issue that could not be closed still has the record's label, and a pull
reads the status from it.

**The parts of a workspace.** All of them, in `WorkspaceProofs`:

- *State migration* (`StateSurvives`), for any list of files, processes, errors and
  deaths, with `MigrationAssumption` (the sentinel is no process and no file).
  Inside one file system a file is in one place at any moment (`Renamed`). Across
  two, `Copied` says that one process at most is between the check and the removal
  of a file, how far it has come (`Copying`: what it opened is the whole file until
  it removes it), that nobody has gone past the file by then, and that everybody
  who went past it finds everything in `.adb/`.
- *Registries* (`RegistriesAreHonest`), with `RecordsAssumption` (finitely many
  processes). The numbers are those up to `Limit`, which counts the commands that
  have drawn one: it grows with each draw, so a number once drawn stays in range.
  `Shared` says what the lock buys the decisions: the holder finds the file as it
  loaded it, every record it holds has its text, and the number it drew is free.
  Without the lock the same holds until two commands overlap.
- *Cloud archive* (`ArchiveStaysSound`), with `CloudAssumption` (some content is
  clean). `PushInv` carries the scan to the upload: the copies uploaded are those
  the scan passed, whatever happens to the files meanwhile. `BucketInv` says that a
  push without failure is in the archive until the next upload or delete,
  `PullInv` that what a pull is to bring has come or is still listed and there.
- *Session store* (`SessionsSurvive`), with `SessionStoreAssumption` (finitely many
  processes). A command is the rest of its list of steps (`Todo`), so how far it
  has come is a length. Ids go up to `IdLimit`, the captures that have drawn one and
  one more. `OneUpdates` says that, while nothing is disturbed, one command updates
  the index at a time and what it read is what the index was: it knows every id
  that a capture holds and every session reported (`Fits`). `OwnIds` gives a capture
  its files as far as it has written them, `FilesKept` those of reported sessions.
  `AllThere` is about overlapping commands too: what the index lists, or a command
  is about to write back, has its `session.yaml`, or was given or deleted.
- *Templates* (`UpdatesStayRight`, `EditsStay`), with `ScaffoldAssumption`: versions
  are positive and 1 is one of them, no template's text is what a user writes or a
  blank file, and the harness files are none of a project's. `ManifestFits` is what
  makes a second update find nothing: a manifest of this version has every file of
  the project, and where it differs from the template so does the disk, but for
  files a command has just written or died after. While a command runs `CommandFits`
  ties what is written, recorded and still to do to one another: an update follows
  its plan (`OnPlan`), so what it has not come to is as the plan found it, unless
  the user touched it since; and `SettledAs` says how an update leaves things.
- *Wiki* (`WikiStaysConnected`), with `WikiAssumption` (no tag has a slash; with one
  the links of its page do lead nowhere, section 5). The invariant needs of a
  publish what it has still to write and what it wrote: each page of its navigation
  is in the list or on disk as it should be (`NavFits`). Two such pages never have
  one path, so that writing one leaves the others, and what leads into the wiki
  ends at pages that are there or in the list.
- *Context files* (`ChangesAreReported`, an action property), with no assumption.
  `OneAlone` says that a rich sync that nobody overlapped is the only one that
  runs, and that with any other running the state file counts as unsaved;
  `HashesFit` that what such a sync loaded are the hashes of the last rich
  `CLAUDE.md`; `MadeInOrder` that it has every section by the time it writes.

Only model-checked: liveness (`LockReleased`, `Converges`), since TLAPS proves
neither liveness under fairness nor anything with ENABLED. Every other property of
a passing run is stated by a theorem. Induction over data and RECURSIVE operators
are out of its reach too.
Bulk saves are in the proved refinement; the task that a bulk rewrite drops
(section 5) is a fact about two calls of the registry, not about one.

## 5. Known disagreements

The modules as they are, with other constants, or the code beside them, also show
these. They are described here and under `hazards` rather than kept as runs.

**Tasks and registry**

- two commands on one task: each stores the whole record it loaded, so the later
  store undoes the status, priority, initiative or place the other one wrote;
- `task migrate-types`, `normalize` and `migrate-blocked-by` load and save under
  two separate locks and drop a task added in between (`task_migrate_types.go:33`
  and `:54`; `atomicwrite.go:43-45` wants the lock around the whole cycle so that
  writers never interleave);
- a death or a failed write between `Truncate(0)` and the write of the counter
  makes the next id start from 1 (`taskid.go:122`; `taskmanager.go:425` calls ids
  globally unique): `TornWrites` = TRUE shows it;
- archive, `task update --status backlog`, archive: the directory ends below two
  `_archived` (`taskmanager.go:620` says only ever archived once, #159);
- `task update --status --owner` stores the older copy over the new status
  (`task.go:764`, `:826`; `:795` prints that it was updated);
- a worktree deleted by hand stays registered with git, and reconcile, which
  neither prunes nor forces, restores nothing (`worktree.go:601`; `work.go:35-36`
  says delete `work/` and reconcile restores it);
- `task start-all` makes a task in_progress that was archived after the list was
  loaded (`taskmanager.go:936` says it never resurrects archived work);
- `work prune` removes the worktree of a task created after it loaded the backlog;
- after a create or archive killed before it stored the ticket's place, `task
  delete` leaves the directory (`taskmanager.go:1002` calls it full removal);
- a create killed between storing the worktree and logging `worktree.created`
  lets the metric go below zero at archive (`taskmanager.go:518-519` says never);
- the dirty check and the removal are not atomic (QuietEdits).

**Ingestion and stages**

- two processes that accept or propose at once lose each other's change of
  queue, ledger or nodes (`ingestion.go:68` says a proposal is never silently lost);
- a landing that dies inside `os.WriteFile` leaves a torn content file, and the
  next landing lists it (`ingeststore.go:95-96` says it holds identical bytes);
- `initiative set-stage` asks nothing of an automation; concurrent whole-record
  writes of an initiative undo each other, and two advances both log; records of
  metrics are lost between processes.

**Hooks, memory and clones**

- the installed wrappers set `ADB_HOOK_ACTIVE`, so no hook they run does anything
  (the run `hooks_wrapped`);
- two steer files renamed over one `.consumed` name lose one message;
- `docs/RESEARCH.md:288` says Stop and SessionEnd clean up the change list; only
  TaskCompleted does, and it reports the changes of all agents to its own task;
- hooks look for `tickets/<id>`, so a nested ticket is neither updated nor indexed,
  and for `knowledge.yaml`, which adb does not write (`hookengine.go:386`, `:412`);
- SessionEnd of one session clears the evidence of the others;
- the memory index never drops what was deleted; searches see the copy of the
  time of opening while the list of namespaces comes from the file; commands and
  the configured provider differ by default, so one refuses the other's store;
  of two overlapping first opens the second fails; export and import are stubs;
- `SyncRepo` and `SyncAll` have no caller but tests and find no nested clone; with
  a detached HEAD a branch is deleted that only HEAD keeps; a switch between
  reading the branch and the merge forwards another branch; new branches at HEAD
  count as merged and are deleted.

**Automation and events**

- commands that overlap may start two daemons; a daemon whose PID file is gone is
  told by nobody; a reused PID is taken for the daemon (not modelled);
- a torn cursor makes the next drain begin at now; a termination in a batch makes
  the remaining exec actions fail and the cursor pass them; a line of more than
  64 KB makes every later read fail;
- after a rotation `events tail --follow` skips the first lines;
- the time-rule jobs share one lock and state named "rule".

**Issue sync**

- after a push the issue is newer than the task, so a later edit of `context.md`
  counts as a change on both sides and is overwritten by the old body;
- pushing an archived task makes it done at the next sync; an issue created for a
  finished task stays open; GitLab keeps stale labels, so a pull may revert the
  status; an issue that adb could not reopen, which nothing reports, is pulled at
  the next sync and makes the task done again (`reopen`, `github.go:124-130`);
- a URL that does not parse is stored as issue 0, and the next sync makes a second
  issue (`github.go:154-164`);
- a lost answer, a failed write-back, a death after Create or two overlapping
  syncs make a second issue; edits of the record during a sync are undone;
- `task update` without a change after a maintainer's edit hides that edit;
- an unreadable `context.md` is pushed as an empty body and later pulled back; a
  task created for an issue overwrites it at its first sync;
- `docs/learning/L300-integrations.md:77` says labels are only added; the code
  removes stale ones.

**Files of a workspace**

- scaffolds: a user's file at a newly templated path is overwritten as added; a
  deleted one comes back; a second `init project` overwrites everything; a
  manifest emptied by a death reads as blank and the next update overwrites the
  base files; a death before the manifest, or a merge by hand, makes conflicts
  that stay; after skipped conflicts drift reports nothing; an outdated harness
  file counts as edited;
- wiki: nothing is pruned; nested tickets are not published; a completion writes
  knowledge over decisions; a tag with a slash breaks the links of its page;
- context: critical decisions and task contexts look for flat tickets; `sync
  task-context` loses what was written by hand; plain `sync context` overwrites
  the rich file; a death before the state file repeats or hides changes; captured
  sessions are never listed (`aicontext.go:433-461`); decisions are looked for in
  `docs/decisions` while adb writes `docs/adr`;
- cloud: a failed push leaves part of itself; removed files stay; errors of single
  keys in a delete are ignored, and on a versioned bucket it only adds markers; a
  pull truncates a local file before its download ends;
- migration: a copy cut short or overlapped leaves a target that later runs skip;
  a failed move is not fatal and the command then starts with fresh state;
- sessions: saving an explicit id does not advance the next id, so a capture
  overwrites it; a process that reads the index while it is empty starts from 1;
- debts, deals and rules lock only inside a process and lose each other's changes
  (decisions do not); a death in a session's delete leaves its entry.

## 6. Not modelled

- Text: contents of generated files, wording, parsing of transcripts, digests and
  flags, paths and slugs; a content is a number, a member of a small set or a
  digest without collisions.
- Cloning and the layout of repositories; the Windows variants of lock, rename
  and process control; reuse of process ids.
- The file channel (one file per message, written once), terminal state (a status
  that never changes, `app.go:352`), the MCP server beyond `search_knowledge` (it
  exposes the managers), metrics and alerts (read-only), diff and provisioning of
  the cloud archive, SLOs and audits of the governance registries,
  communications (two of one day and subject overwrite each other).
- `IssueSync` has one task, no title, priority or log, and no torn
  `context.md`; `SessionStore` no half-written file but an emptied one; `Automation`
  no death of a command on its way.
- What a crash of the machine leaves of unsynced writes: a death is of a process.

What could come next: the dashboard's metrics as folds over the log.
