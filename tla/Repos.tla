-------------------------------- MODULE Repos -------------------------------
(***************************************************************************)
(* The clones under repos/ kept up to date: `adb repos pull` and the       *)
(* scheduler's pull job (integration/reposync_walk.go, cli/repos.go) and   *)
(* the repository sync that also deletes merged branches                   *)
(* (integration/reposync.go), while somebody works in the clones.          *)
(*                                                                         *)
(* Every step is one git command, and what a command was told may be out   *)
(* of date when the next one runs.  A commit is the sequence of the edits  *)
(* that led to it, so an ancestor is a prefix.  What git does is external: *)
(* a fast-forward refuses to lose commits or edits, `branch -d` refuses a  *)
(* branch that is checked out or merged neither to its upstream nor, when  *)
(* it has none, to HEAD.                                                   *)
(***************************************************************************)
EXTENDS Naturals, FiniteSets, Sequences, SequencesExt

CONSTANTS Repos,        \* the clones, at any depth under repos/
          TopRepos,     \* those directly under it, the only ones that SyncAll finds
          Branches,     \* branch names, "main" among them
          RepoTasks,    \* the backlog: [id, repo, initiative, archived]
          Pullers,      \* the processes that pull
          MaxConcurrency,  \* syncs that run at a time in SyncAll
          Worked,       \* bound: the clones somebody works in
          MaxWork,      \* bound: what users do in the clones
          MaxRemote,    \* bound: what others do at the remotes
          MaxPulls,     \* bound: pull commands
          MaxGitFailures  \* bound: fetches and pulls that fail

\* No branch is called HEAD.  A repo of a ticket that has no clone is left out.
ASSUME ReposAssumption ==
    /\ IsFiniteSet(Repos) /\ TopRepos \subseteq Repos
    /\ IsFiniteSet(Branches) /\ "main" \in Branches /\ "HEAD" \notin Branches
    /\ \A t \in RepoTasks : t.repo \in Repos \cup {""}
    /\ MaxWork \in Nat

VARIABLES clone,    \* each clone and its remote
          puller,   \* each pull: its repos, the step at the first, the repos with a result
          syncer,   \* per repo, the goroutine of SyncAll
          syncedAll,  \* how often SyncAll may still be called
          work, remoteWork, pulls, gitFailures

reposVars == <<clone, puller, syncer, syncedAll, work, remoteWork, pulls, gitFailures>>

-----------------------------------------------------------------------------

Gone == <<>>
Root == <<0>>
IsAncestor(a, b) == a # Gone /\ b # Gone /\ IsPrefix(a, b)

NoBranch == "HEAD"
HeadCommit(c) == IF c.head = NoBranch THEN c.detached ELSE c.local[c.head]
Ancestors(a) == {SubSeq(a, 1, n) : n \in 1 .. Len(a)}

\* The commits that a user's branches and HEAD keep, and those of the remote's branches.
Kept(c) == (UNION {Ancestors(c.local[b]) : b \in Branches}) \cup Ancestors(HeadCommit(c))
KeptForRemote(c) == UNION {Ancestors(c.tracking[b]) : b \in Branches}

\* The default branch is what origin/HEAD says, if the clone has one.
NewClone(branches, default) ==
    [local |-> [b \in Branches |-> IF b \in branches THEN Root ELSE Gone],
     tracking |-> [b \in Branches |-> IF b = "main" THEN Root ELSE Gone],
     remote |-> [b \in Branches |-> IF b = "main" THEN Root ELSE Gone],
     upstream |-> {"main"}, held |-> {}, head |-> "main", detached |-> Root, dirty |-> FALSE,
     default |-> default]

NotPulling == [pc |-> "idle", todo |-> <<>>, plan |-> {}, results |-> {}, branch |-> NoBranch,
               default |-> NoBranch, disturbed |-> FALSE]
NotSyncing == [pc |-> "idle", branch |-> NoBranch, merged |-> <<>>, disturbed |-> FALSE]

-----------------------------------------------------------------------------

Live == {t \in RepoTasks : t.repo # "" /\ ~t.archived}
buildRepoRegistry == [r \in {t.repo : t \in Live} |-> {t.id : t \in {u \in Live : u.repo = r}}]

\* The repos that the live tickets of a selector span.
distinctRepos(tasks) == {t.repo : t \in tasks \cap Live}

\* What git does for `git fetch --all --prune`, a fast-forward of HEAD, and
\* `git branch -d`.
Fetched(c) == [c EXCEPT !.tracking = c.remote]
CanForward(c, target) == IsAncestor(HeadCommit(c), target)
Forwarded(c, target) == IF c.head = NoBranch THEN [c EXCEPT !.detached = target]
                        ELSE [c EXCEPT !.local[c.head] = target]
HasUpstream(c, b) == b \in c.upstream /\ c.tracking[b] # Gone
SafeToDelete(c, b) ==
    /\ c.local[b] # Gone /\ c.head # b /\ b \notin c.held
    /\ IsAncestor(c.local[b], IF HasUpstream(c, b) THEN c.tracking[b] ELSE HeadCommit(c))
Deleted(c, b) == [c EXCEPT !.local[b] = Gone, !.upstream = @ \ {b}]

-----------------------------------------------------------------------------

ReposInit ==
    /\ clone \in [Repos -> {NewClone({"main"}, "main"), NewClone(Branches, "main"),
                            NewClone({"main"}, NoBranch)}]
    /\ \A r \in Repos \ Worked : clone[r] = NewClone({"main"}, "main")
    /\ puller = [p \in Pullers |-> NotPulling]
    /\ syncer = [r \in TopRepos |-> NotSyncing]
    /\ syncedAll = 1
    /\ work = 0 /\ remoteWork = 0 /\ pulls = 0 /\ gitFailures = 0

\* Every clone found under repos/, or those that a ticket or an initiative spans.
PullAllRepos(p, repos) ==
    /\ puller[p].pc = "idle" /\ repos # {}
    /\ pulls < MaxPulls
    /\ pulls' = pulls + 1
    /\ puller' = [puller EXCEPT ![p] = [NotPulling EXCEPT !.pc = "fetch", !.plan = repos,
                                                           !.todo = SetToSeq(repos)]]
    /\ UNCHANGED <<clone, syncer, syncedAll, work, remoteWork, gitFailures>>

newReposPullCmd(p) ==
    \/ PullAllRepos(p, Repos)
    \/ \E t \in RepoTasks : PullAllRepos(p, distinctRepos({t}))
    \/ \E t \in RepoTasks : PullAllRepos(p, distinctRepos({u \in RepoTasks : u.initiative = t.initiative}))

PulledRepo(p) == Head(puller[p].todo)

\* A repo has its result, and the walk goes on whatever it is.
AfterRepo(p, action) ==
    [puller EXCEPT ![p].todo = Tail(@), ![p].pc = IF Len(puller[p].todo) = 1 THEN "idle" ELSE "fetch",
                   ![p].results = @ \cup {PulledRepo(p)},
                   ![p].branch = NoBranch, ![p].default = NoBranch, ![p].disturbed = FALSE]

PullFetch(p) ==
    /\ puller[p].pc = "fetch"
    /\ \/ \E fetchOnly \in BOOLEAN :
             /\ clone' = [clone EXCEPT ![PulledRepo(p)] = Fetched(@)]
             /\ puller' = IF fetchOnly THEN AfterRepo(p, "fetched")
                          ELSE [puller EXCEPT ![p].pc = "default"]
             /\ UNCHANGED gitFailures
       \/ /\ gitFailures < MaxGitFailures
          /\ gitFailures' = gitFailures + 1
          /\ puller' = AfterRepo(p, "error")
          /\ UNCHANGED clone
    /\ UNCHANGED <<syncer, syncedAll, work, remoteWork, pulls>>

ReadDefault(p) ==
    /\ puller[p].pc = "default"
    /\ LET default == clone[PulledRepo(p)].default
       IN  puller' = IF default = NoBranch THEN AfterRepo(p, "fetched")
                     ELSE [puller EXCEPT ![p].pc = "head", ![p].default = default]
    /\ UNCHANGED <<clone, syncer, syncedAll, work, remoteWork, pulls, gitFailures>>

ReadHead(p) ==
    /\ puller[p].pc = "head"
    /\ LET branch == clone[PulledRepo(p)].head
       IN  puller' = IF branch # puller[p].default THEN AfterRepo(p, "skipped-branch")
                     ELSE [puller EXCEPT ![p].pc = "status", ![p].branch = branch,
                                         ![p].disturbed = FALSE]
    /\ UNCHANGED <<clone, syncer, syncedAll, work, remoteWork, pulls, gitFailures>>

ReadStatus(p) ==
    /\ puller[p].pc = "status"
    /\ puller' = IF clone[PulledRepo(p)].dirty THEN AfterRepo(p, "skipped-dirty")
                 ELSE [puller EXCEPT ![p].pc = "upstream"]
    /\ UNCHANGED <<clone, syncer, syncedAll, work, remoteWork, pulls, gitFailures>>

ReadUpstream(p) ==
    /\ puller[p].pc = "upstream"
    /\ LET c == clone[PulledRepo(p)]
       IN  puller' = IF c.head # NoBranch /\ HasUpstream(c, c.head)
                     THEN [puller EXCEPT ![p].pc = "pull"]
                     ELSE AfterRepo(p, "skipped-no-upstream")
    /\ UNCHANGED <<clone, syncer, syncedAll, work, remoteWork, pulls, gitFailures>>

\* git pull fetches again and forwards the branch that is checked out now to
\* its own upstream.  Edits made meanwhile may be in its way.
Pulled(p) ==
    LET c == Fetched(clone[PulledRepo(p)])
        target == IF c.head = NoBranch THEN Gone ELSE c.tracking[c.head]
    IN  IF c.head # NoBranch /\ HasUpstream(c, c.head) /\ CanForward(c, target)
        THEN {<<Forwarded(c, target), "pulled">>} \cup (IF c.dirty THEN {<<c, "error">>} ELSE {})
        ELSE IF c.head # NoBranch /\ HasUpstream(c, c.head) /\ IsAncestor(target, HeadCommit(c))
        THEN {<<c, "pulled">>}
        ELSE {<<c, "error">>}

FastForwardPull(p) ==
    /\ puller[p].pc = "pull"
    /\ \/ \E outcome \in Pulled(p) :
             /\ clone' = [clone EXCEPT ![PulledRepo(p)] = outcome[1]]
             /\ puller' = AfterRepo(p, outcome[2])
             /\ UNCHANGED gitFailures
       \/ /\ gitFailures < MaxGitFailures
          /\ gitFailures' = gitFailures + 1
          /\ puller' = AfterRepo(p, "error")
          /\ UNCHANGED clone
    /\ UNCHANGED <<syncer, syncedAll, work, remoteWork, pulls>>

pullOneRepo(p) ==
    \/ PullFetch(p) \/ ReadDefault(p) \/ ReadHead(p) \/ ReadStatus(p) \/ ReadUpstream(p)
    \/ FastForwardPull(p)

-----------------------------------------------------------------------------

\* SyncAll starts a goroutine per clone; as many as the semaphore lets run, and
\* SyncAll returns when all are done.
SyncAll ==
    /\ syncedAll > 0 /\ \A r \in TopRepos : syncer[r].pc = "idle"
    /\ syncedAll' = syncedAll - 1
    /\ syncer' = [r \in TopRepos |-> [NotSyncing EXCEPT !.pc = "waiting"]]
    /\ UNCHANGED <<clone, puller, work, remoteWork, pulls, gitFailures>>

SyncRepo(r) ==
    /\ syncer[r].pc = "waiting"
    /\ Cardinality({q \in TopRepos : syncer[q].pc \notin {"idle", "waiting", "done"}}) < MaxConcurrency
    /\ syncer' = [syncer EXCEPT ![r].pc = "fetch"]
    /\ UNCHANGED <<clone, puller, syncedAll, work, remoteWork, pulls, gitFailures>>

SyncReturns ==
    /\ \A r \in TopRepos : syncer[r].pc = "done"
    /\ syncer' = [r \in TopRepos |-> NotSyncing]
    /\ UNCHANGED <<clone, puller, syncedAll, work, remoteWork, pulls, gitFailures>>

SyncTo(r, pc) == [syncer EXCEPT ![r].pc = pc]

gitFetch(r) ==
    /\ syncer[r].pc = "fetch"
    /\ \/ /\ clone' = [clone EXCEPT ![r] = Fetched(@)]
          /\ syncer' = SyncTo(r, "current")
          /\ UNCHANGED gitFailures
       \/ /\ gitFailures < MaxGitFailures
          /\ gitFailures' = gitFailures + 1
          /\ syncer' = SyncTo(r, "done")
          /\ UNCHANGED clone
    /\ UNCHANGED <<puller, syncedAll, work, remoteWork, pulls>>

getCurrentBranch(r) ==
    /\ syncer[r].pc = "current"
    /\ LET branch == clone[r].head
       IN  syncer' = [syncer EXCEPT ![r].branch = branch, ![r].disturbed = FALSE,
                        ![r].pc = IF branch = NoBranch THEN "list" ELSE "ancestor"]
    /\ UNCHANGED <<clone, puller, syncedAll, work, remoteWork, pulls, gitFailures>>

\* The upstream of the branch that was read, and whether HEAD, wherever it is
\* now, is an ancestor of it.
CheckForward(r) ==
    /\ syncer[r].pc = "ancestor"
    /\ LET c == clone[r]
           b == syncer[r].branch
       IN  syncer' = SyncTo(r, IF HasUpstream(c, b) /\ IsAncestor(HeadCommit(c), c.tracking[b])
                               THEN "merge" ELSE "list")
    /\ UNCHANGED <<clone, puller, syncedAll, work, remoteWork, pulls, gitFailures>>

\* Whatever is checked out now is forwarded to that upstream, if it can be.
gitFFMerge(r) ==
    /\ syncer[r].pc = "merge"
    /\ syncer' = SyncTo(r, "list")
    /\ LET target == clone[r].tracking[syncer[r].branch]
       IN  \/ clone' = IF CanForward(clone[r], target)
                       THEN [clone EXCEPT ![r] = Forwarded(@, target)] ELSE clone
           \/ clone[r].dirty /\ UNCHANGED clone
    /\ UNCHANGED <<puller, syncedAll, work, remoteWork, pulls, gitFailures>>

\* The branches merged to HEAD, but for the current one and the main ones.  One
\* that another worktree has checked out is listed as "+ <name>", which is no
\* branch to delete.
ListMerged(r) ==
    /\ syncer[r].pc = "list"
    /\ LET c == clone[r]
           merged == {b \in Branches : /\ IsAncestor(c.local[b], HeadCommit(c))
                                       /\ b \notin {c.head, "main", "master"} \cup c.held}
       IN  syncer' = [syncer EXCEPT ![r] = [NotSyncing EXCEPT !.pc = "delete",
                                                                    !.merged = SetToSeq(merged)]]
    /\ UNCHANGED <<clone, puller, syncedAll, work, remoteWork, pulls, gitFailures>>

\* Mutant: branch -D.
gitCleanupBranchesForce(r) ==
    /\ syncer[r].pc = "delete"
    /\ IF syncer[r].merged = <<>>
       THEN syncer' = SyncTo(r, "done") /\ UNCHANGED clone
       ELSE /\ syncer' = [syncer EXCEPT ![r].merged = Tail(@)]
            /\ LET b == Head(syncer[r].merged)
               IN  clone' = IF clone[r].local[b] # Gone /\ clone[r].head # b /\ b \notin clone[r].held
                            THEN [clone EXCEPT ![r] = Deleted(@, b)] ELSE clone
    /\ UNCHANGED <<puller, syncedAll, work, remoteWork, pulls, gitFailures>>

\* Each branch of the list is deleted, if git finds it safe now.
gitCleanupBranches(r) ==
    /\ syncer[r].pc = "delete"
    /\ IF syncer[r].merged = <<>>
       THEN syncer' = SyncTo(r, "done") /\ UNCHANGED clone
       ELSE /\ syncer' = [syncer EXCEPT ![r].merged = Tail(@)]
            /\ LET b == Head(syncer[r].merged)
               IN  clone' = IF SafeToDelete(clone[r], b)
                            THEN [clone EXCEPT ![r] = Deleted(@, b)] ELSE clone
    /\ UNCHANGED <<puller, syncedAll, work, remoteWork, pulls, gitFailures>>

-----------------------------------------------------------------------------

\* A user of the clone switches, detaches, branches, edits, commits, pushes, or
\* takes a branch into a worktree of its own; commits carry the count of work.
WorkOn(r, c) ==
    /\ work < MaxWork /\ r \in Worked
    /\ work' = work + 1
    /\ clone' = [clone EXCEPT ![r] = c]
    /\ syncer' = [q \in TopRepos |-> [syncer[q] EXCEPT !.disturbed = @ \/
                     (q = r /\ syncer[q].pc \in {"ancestor", "merge"})]]
    /\ puller' = [p \in Pullers |-> [puller[p] EXCEPT !.disturbed = @ \/
                     (puller[p].pc \in {"status", "upstream", "pull"} /\ PulledRepo(p) = r)]]
    /\ UNCHANGED <<syncedAll, remoteWork, pulls, gitFailures>>

Switch(r) == \E b \in Branches \ {clone[r].head} :
    /\ clone[r].local[b] # Gone /\ b \notin clone[r].held /\ ~clone[r].dirty
    /\ WorkOn(r, [clone[r] EXCEPT !.head = b, !.detached = Root])
Detach(r) ==
    /\ clone[r].head # NoBranch
    /\ WorkOn(r, [clone[r] EXCEPT !.head = NoBranch, !.detached = HeadCommit(clone[r])])
NewBranch(r) == \E b \in Branches :
    /\ clone[r].local[b] = Gone
    /\ \/ WorkOn(r, [clone[r] EXCEPT !.local[b] = HeadCommit(clone[r]), !.head = b])
       \/ WorkOn(r, [clone[r] EXCEPT !.local[b] = HeadCommit(clone[r]), !.held = @ \cup {b}])
       \/ /\ clone[r].tracking[b] # Gone
          /\ WorkOn(r, [clone[r] EXCEPT !.local[b] = clone[r].tracking[b], !.upstream = @ \cup {b}])
EditClone(r) == ~clone[r].dirty /\ WorkOn(r, [clone[r] EXCEPT !.dirty = TRUE])
Commit(r) ==
    LET c == Append(HeadCommit(clone[r]), work + 1)
    IN  WorkOn(r, [Forwarded(clone[r], c) EXCEPT !.dirty = FALSE])
PushBranch(r) == \E b \in Branches :
    /\ clone[r].local[b] # Gone
    /\ clone[r].remote[b] = Gone \/ IsAncestor(clone[r].remote[b], clone[r].local[b])
    /\ clone[r].remote[b] # clone[r].local[b]
    /\ WorkOn(r, [clone[r] EXCEPT !.remote[b] = clone[r].local[b],
                    !.tracking[b] = clone[r].local[b], !.upstream = @ \cup {b}])

\* Others push to the remote, and delete branches there.
Others(r) == \E b \in Branches :
    /\ remoteWork < MaxRemote /\ r \in Worked
    /\ remoteWork' = remoteWork + 1
    /\ \/ clone' = [clone EXCEPT ![r].remote[b] =
                      Append(IF @ = Gone THEN Root ELSE @, MaxWork + remoteWork + 1)]
       \/ /\ b # "main" /\ clone[r].remote[b] # Gone
          /\ clone' = [clone EXCEPT ![r].remote[b] = Gone]
    /\ UNCHANGED <<puller, syncer, syncedAll, work, pulls, gitFailures>>

ReposNext ==
    \/ \E p \in Pullers : newReposPullCmd(p) \/ pullOneRepo(p)
    \/ SyncAll \/ SyncReturns
    \/ \E r \in TopRepos :
          \/ SyncRepo(r) \/ gitFetch(r) \/ getCurrentBranch(r) \/ CheckForward(r)
          \/ gitFFMerge(r) \/ ListMerged(r) \/ gitCleanupBranches(r)
    \/ \E r \in Repos :
          \/ Switch(r) \/ Detach(r) \/ NewBranch(r) \/ EditClone(r) \/ Commit(r) \/ PushBranch(r)
          \/ Others(r)

ReposSpec == ReposInit /\ [][ReposNext]_reposVars

-----------------------------------------------------------------------------

ByUser == work' # work

\* A step of a pull or of a sync takes no commit from the user's branches and
\* HEAD that is in no other of them and not at the remote: also when a branch
\* that was listed as merged gets a commit, HEAD moves, or the other command
\* runs between two git commands.
KeepsWork(r) == Kept(clone[r]) \subseteq Kept(clone'[r]) \cup KeptForRemote(clone'[r])

\* A branch that it moves goes to its own upstream, but for a sync whose user
\* switched after it had read the current branch.
FollowsUpstream(r) ==
    \A b \in Branches :
      LET to == clone'[r].local[b]
      IN  to \notin {clone[r].local[b], Gone} =>
             \/ b \in clone[r].upstream /\ to = clone'[r].tracking[b]
             \/ r \in TopRepos /\ syncer[r].disturbed

\* Nobody worked in the clone since its branch was read: a pull then forwards
\* only the default branch, and only in a clean tree.
PullsCleanDefault(p) ==
    puller[p].pc = "pull" /\ ~puller[p].disturbed /\ puller'[p].pc # "pull" =>
      LET c == clone[PulledRepo(p)]
      IN  c.head = c.default /\ ~c.dirty

\* A pull that ends has a result for each repo of its plan, whatever failed,
\* and the plan of a ticket is the repos that list the ticket.
WalkIsComplete(p) == puller'[p].pc = "idle" =>
    /\ puller'[p].results = puller'[p].plan
    /\ puller'[p].plan # Repos => puller'[p].plan \subseteq DOMAIN buildRepoRegistry

\* Whatever people do in their clones meanwhile, pulls and syncs take no work
\* away, forward what they may, and end with a result for every clone.
WorkKept ==
    [][/\ \A r \in Repos : ~ByUser /\ clone'[r] # clone[r] => KeepsWork(r) /\ FollowsUpstream(r)
       /\ \A p \in Pullers : PullsCleanDefault(p) /\ WalkIsComplete(p)]_reposVars
=============================================================================
