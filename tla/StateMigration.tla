--------------------------- MODULE StateMigration ---------------------------
(***************************************************************************)
(* Every command moves adb's state files from the workspace's root into    *)
(* .adb/ before it works on them (internal/migration.go, called by NewApp  *)
(* in internal/app.go).  Commands start at the same time and die at any    *)
(* step; between two file systems a move is a copy and a removal.          *)
(*                                                                         *)
(* A file is the set of its entries, one of which an older adb left; work  *)
(* adds one and keeps the others.                                          *)
(***************************************************************************)
EXTENDS Naturals, Sequences, FiniteSets

CONSTANTS Movers,       \* the processes
          LegacyFiles,  \* legacyStateFiles, in the order they are moved
          MaxMoverDeaths, MaxMoverErrors  \* bounds: deaths, and moves that may not be made

NoFile == {"no file"}
Files == {LegacyFiles[i] : i \in DOMAIN LegacyFiles}

ASSUME MigrationAssumption == LegacyFiles \in Seq(Files) /\ "no file" \notin Movers \cup Files

VARIABLES crossDevice, \* whether the root and .adb/ are on two file systems
          legacy, target,  \* the file of each name in the root, and in .adb/
          at,        \* the number of the file that a process moves next, 0 before it starts
          step,      \* its step: "check", "move", "copy", "fill", "remove", "work" or "done"
          opened,    \* what it opened to copy
          died, failed,
          entries,   \* history: what was written to each file
          torn,      \* history: files left half copied by a death, or that could not be moved
          crossed    \* history: files that a process came to while another moved them

migrationVars == <<crossDevice, legacy, target, at, step, opened, died, failed, entries, torn,
                   crossed>>

File(p) == LegacyFiles[at[p]]
Moving(f) == {p \in Movers : step[p] \in {"move", "copy", "fill", "remove"} /\ File(p) = f}

MigrationTypeOK ==
    /\ \A f \in Files : legacy[f] = NoFile \/ legacy[f] \subseteq entries[f]
    /\ \A f \in Files : target[f] = NoFile \/ target[f] \subseteq entries[f]
    /\ \A p \in Movers : at[p] \in 0 .. Len(LegacyFiles) + 1
    /\ \A p \in Movers : step[p] = "remove" => opened[p] \subseteq entries[File(p)]

\* A workspace that an older adb left: each file may be there or not.
MigrationInit ==
    /\ crossDevice \in BOOLEAN
    /\ \E old \in SUBSET Files : legacy = [f \in Files |-> IF f \in old THEN {f} ELSE NoFile]
    /\ target = [f \in Files |-> NoFile]
    /\ at = [p \in Movers |-> 0] /\ step = [p \in Movers |-> "new"]
    /\ opened = [p \in Movers |-> {}] /\ died = 0 /\ failed = 0
    /\ entries = [f \in Files |-> legacy[f] \ NoFile] /\ torn = {} /\ crossed = {}

MoverTo(p, s) == step' = [step EXCEPT ![p] = s]

\* Mutant: the command begins before the last file is looked at.
NextFileEarly(p) ==
    /\ at' = [at EXCEPT ![p] = @ + 1]
    /\ MoverTo(p, IF at[p] + 1 >= Len(LegacyFiles) THEN "work" ELSE "check")

\* migrateStateToADB goes on to the next file, and after the last to work.
NextFile(p) ==
    /\ at' = [at EXCEPT ![p] = @ + 1]
    /\ MoverTo(p, IF at[p] = Len(LegacyFiles) THEN "work" ELSE "check")

Start(p) ==
    /\ step[p] = "new" /\ NextFile(p)
    /\ UNCHANGED <<crossDevice, legacy, target, opened, died, failed, entries, torn, crossed>>

\* Nothing to move, or a file there already, which is never overwritten.
Skips(f) == legacy[f] = NoFile \/ target[f] # NoFile

moveIfAbsent(p) ==
    /\ step[p] = "check"
    /\ IF Skips(File(p)) THEN NextFile(p) ELSE MoverTo(p, "move") /\ UNCHANGED at
    /\ crossed' = IF Moving(File(p)) = {} THEN crossed ELSE crossed \cup {File(p)}
    /\ UNCHANGED <<crossDevice, legacy, target, opened, died, failed, entries, torn>>

\* The rename replaces what is there by now; without a source it fails, and
\* so does the copy.  NewApp goes on after an error.
Rename(p) ==
    LET f == File(p)
    IN /\ step[p] = "move" /\ ~crossDevice /\ NextFile(p)
       /\ IF legacy[f] = NoFile THEN UNCHANGED <<crossDevice, legacy, target>>
          ELSE /\ target' = [target EXCEPT ![f] = legacy[f]]
               /\ legacy' = [legacy EXCEPT ![f] = NoFile]
       /\ UNCHANGED <<crossDevice, opened, died, failed, entries, torn, crossed>>

\* A copy opens the source, empties or makes the target, fills it and only
\* then removes the source.
OpenSource(p) ==
    /\ step[p] = "move" /\ crossDevice
    /\ IF legacy[File(p)] = NoFile THEN NextFile(p) /\ UNCHANGED opened
       ELSE /\ opened' = [opened EXCEPT ![p] = legacy[File(p)]]
            /\ MoverTo(p, "copy") /\ UNCHANGED at
    /\ UNCHANGED <<crossDevice, legacy, target, died, failed, entries, torn, crossed>>

OpenTarget(p) ==
    /\ step[p] = "copy" /\ target' = [target EXCEPT ![File(p)] = {}]
    /\ MoverTo(p, "fill")
    /\ UNCHANGED <<crossDevice, legacy, at, opened, died, failed, entries, torn, crossed>>

CopyTo(p) ==
    /\ step[p] = "fill" /\ target' = [target EXCEPT ![File(p)] = opened[p]]
    /\ MoverTo(p, "remove")
    /\ UNCHANGED <<crossDevice, legacy, at, opened, died, failed, entries, torn, crossed>>

RemoveSource(p) ==
    /\ step[p] = "remove" /\ legacy' = [legacy EXCEPT ![File(p)] = NoFile] /\ NextFile(p)
    /\ UNCHANGED <<crossDevice, target, opened, died, failed, entries, torn, crossed>>

\* A file may not be moved, for want of a permission.
MoveFails(p) ==
    /\ step[p] = "move" /\ failed < MaxMoverErrors /\ failed' = failed + 1 /\ NextFile(p)
    /\ torn' = torn \cup {File(p)}
    /\ UNCHANGED <<crossDevice, legacy, target, opened, died, entries, crossed>>

\* A death in a copy leaves a target that is there, and not whole.
MoverDies(p) ==
    /\ step[p] \notin {"new", "done"} /\ died < MaxMoverDeaths /\ died' = died + 1
    /\ MoverTo(p, "done")
    /\ torn' = (IF step[p] = "fill" THEN torn \cup {File(p)} ELSE torn)
    /\ UNCHANGED <<crossDevice, legacy, target, at, opened, failed, entries, crossed>>

\* The command itself: it finds a state file, or makes one, and adds to it.
Work(p, f) ==
    /\ step[p] = "work" /\ MoverTo(p, "done")
    /\ target' = [target EXCEPT ![f] = (IF @ = NoFile THEN {} ELSE @) \cup {p}]
    /\ entries' = [entries EXCEPT ![f] = @ \cup {p}]
    /\ UNCHANGED <<crossDevice, legacy, at, opened, died, failed, torn, crossed>>

MigrationNext ==
    \E p \in Movers :
      \/ Start(p) \/ moveIfAbsent(p) \/ Rename(p)
      \/ OpenSource(p) \/ OpenTarget(p) \/ CopyTo(p) \/ RemoveSource(p)
      \/ MoveFails(p) \/ MoverDies(p) \/ \E f \in Files : Work(p, f)

MigrationSpec == MigrationInit /\ [][MigrationNext]_migrationVars

-----------------------------------------------------------------------------

Exposed == torn \cup IF crossDevice THEN crossed ELSE {}

(* What was written to a state file, in the root or in .adb/, is there at
   every moment, whoever dies or starts together, unless two processes copied
   the file at once, a copy of it was cut short, or it could not be moved: its
   command then goes on and makes a new file, which the move of another
   command, that had looked before, replaces. *)
NothingLost ==
    \A f \in Files \ Exposed :
      \A e \in entries[f] : e \in legacy[f] \cup target[f]

(* A command that gets to its work finds in .adb/ all that was ever written,
   each file it works on with those that belong to it: an upgrade never looks
   like a reset.  The same files make the exception: after a move that failed
   a command does work on a file that looks new. *)
NeverReset ==
    (\E p \in Movers : step[p] = "work") =>
      \A f \in Files \ Exposed : entries[f] \subseteq target[f]

(* State neither vanishes nor looks as if it had. *)
StateIsKept == MigrationTypeOK /\ NothingLost /\ NeverReset
=============================================================================
