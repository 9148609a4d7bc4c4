---------------------------- MODULE GitWorktrees ----------------------------
(***************************************************************************)
(* The git worktrees of one repository as integration/worktree.go uses     *)
(* them: a directory per task, git's own register of worktrees, and        *)
(* branches.  The register outlives a directory that somebody deletes by   *)
(* hand, and git refuses to add a worktree at a path it still lists, or on *)
(* a branch that a listed worktree has checked out.                        *)
(***************************************************************************)
EXTENDS FiniteSets, Integers

CONSTANTS Tasks,     \* every task has one worktree directory
          Branches, NoBranch

VARIABLES tree,       \* each directory: absent, a working tree, or a husk, a
                      \* plain directory that is not a working tree
          registered, \* the branch git lists for a path
          branches,   \* the branches that exist
          unsaved     \* the working trees with uncommitted or unpushed work

gitVars == <<tree, registered, branches, unsaved>>

GitTypeOK ==
    /\ tree \in [Tasks -> {"absent", "husk", "present"}]
    /\ registered \in [Tasks -> Branches \cup {NoBranch}]
    /\ branches \subseteq Branches
    /\ unsaved \subseteq Tasks

GitInit ==
    /\ tree = [p \in Tasks |-> "absent"]
    /\ registered = [p \in Tasks |-> NoBranch]
    /\ branches = {}
    /\ unsaved = {}

CheckedOut(b) == \E p \in Tasks : registered[p] = b

(* git worktree add accepts path and branch.                               *)
CanAdd(p, b) ==
    /\ tree[p] = "absent"
    /\ registered[p] = NoBranch
    /\ ~CheckedOut(b)

(* CreateWorktree adds a new branch with -b.                               *)
CanCreate(p, b) == CanAdd(p, b) /\ b \notin branches

(* RestoreWorktree attaches the branch, or creates it again when it is     *)
(* gone.                                                                   *)
AddTree(p, b) ==
    /\ tree' = [tree EXCEPT ![p] = "present"]
    /\ registered' = [registered EXCEPT ![p] = b]
    /\ branches' = branches \cup {b}
    /\ UNCHANGED unsaved

\* Mutant: without the dirty guard (#207).
PassesUnguarded(p, force) == tree[p] = "present"

(* RemoveWorktree lets a path through to git: it exists, it is no husk (a  *)
(* husk fails git status, and has no .git file to read), and unless forced *)
(* it holds no unsaved work.                                               *)
PassesCheck(p, force) == tree[p] = "present" /\ (force \/ p \notin unsaved)

(* git worktree remove --force.                                            *)
RemoveTree(p) ==
    /\ tree' = [tree EXCEPT ![p] = "absent"]
    /\ registered' = [registered EXCEPT ![p] = NoBranch]
    /\ unsaved' = unsaved \ {p}
    /\ UNCHANGED branches

(* git branch -D refuses a branch that a listed worktree has checked out.  *)
RemoveBranch(b) ==
    /\ branches' = IF CheckedOut(b) THEN branches ELSE branches \ {b}
    /\ UNCHANGED <<tree, registered, unsaved>>

(* Writing a file below a missing worktree path makes the directories.     *)
WriteBelow(p) ==
    /\ tree' = [tree EXCEPT ![p] = IF @ = "absent" THEN "husk" ELSE @]
    /\ UNCHANGED <<registered, branches, unsaved>>

-----------------------------------------------------------------------------
(* What the user does outside adb.                                         *)

Edit(p) ==
    /\ tree[p] = "present"
    /\ unsaved' = unsaved \cup {p}
    /\ UNCHANGED <<tree, registered, branches>>

Push(p) ==
    /\ unsaved' = unsaved \ {p}
    /\ UNCHANGED <<tree, registered, branches>>

DeleteDirectory(p) ==
    /\ tree' = [tree EXCEPT ![p] = "absent"]
    /\ unsaved' = unsaved \ {p}
    /\ UNCHANGED <<registered, branches>>

=============================================================================
