---------------------------- MODULE SessionStore ----------------------------
(***************************************************************************)
(* Captured sessions (storage/sessionstore.go, cli/session.go): an index   *)
(* that also hands out the ids, and a directory of files per session.  A   *)
(* mutex guards the store inside a process and nothing between processes,  *)
(* and files are written in place: emptied, then filled.                   *)
(*                                                                         *)
(* Each command is a process of a few steps; commands overlap and die at   *)
(* any step.  A file cut in its middle is left out: reading one fails, or  *)
(* gives what an empty file gives.                                         *)
(***************************************************************************)
EXTENDS Naturals, Sequences, FiniteSets

CONSTANTS Captures,      \* the processes
          GivenIds,      \* the ids that users give
          MaxCaptures,   \* bound: commands
          CaptureDeaths  \* bound: commands that die

ASSUME SessionStoreAssumption ==
    IsFiniteSet(Captures) /\ GivenIds \subseteq Nat \ {0} /\ MaxCaptures \in Nat

SessionIds == (1 .. MaxCaptures + 1) \cup GivenIds

VARIABLES index,       \* the index file
          sessionDir,  \* per id, the command that wrote session.yaml, turns.yaml and summary.md
          job,         \* the command of each process
          captures, captureDeaths,
          reported,    \* history: per id saved with success, the command
          chosenIds,   \* history: ids that session save took from its file
          removedIds,  \* history: ids whose directory a delete removed
          disturbed    \* history: two commands updated the index at once, or one died emptying it

sessionVars == <<index, sessionDir, job, captures, captureDeaths, reported,
                 chosenIds, removedIds, disturbed>>

-----------------------------------------------------------------------------

\* An index that is missing or empty has no entries, and starts at 1 again.
EmptyIndex == [sessions |-> <<>>, next |-> 1]
loadIndex == index

Nobody == 0
NoFiles == [session |-> Nobody, turns |-> Nobody, summary |-> Nobody]

NoJob == [todo |-> <<>>, read |-> EmptyIndex, id |-> 0, by |-> Nobody]
Step(p) == IF job[p].todo = <<>> THEN "none" ELSE Head(job[p].todo)

\* The steps of SaveSession, of GetNextSessionID before them, and of a delete.
SaveSteps == <<"session", "turns", "summary", "load", "empty", "list">>
CaptureSteps == <<"load", "empty", "draw">> \o SaveSteps
DeleteSteps == <<"remove", "load", "empty", "unlist">>

Updating(p) == Step(p) \in {"empty", "draw", "list", "unlist"}

GetSession(i) == sessionDir[i].session
ListSessions == DOMAIN index.sessions
FilterSessions == {i \in ListSessions : GetSession(i) # Nobody}

SessionTypeOK ==
    /\ ListSessions \subseteq SessionIds /\ index.next \in 1 .. MaxCaptures + 1
    /\ \A i \in SessionIds : sessionDir[i].session \in 0 .. captures
    /\ \A p \in Captures : Step(p) = "none" => job[p] = NoJob

SessionInit ==
    /\ index = EmptyIndex /\ sessionDir = [i \in SessionIds |-> NoFiles]
    /\ job = [p \in Captures |-> NoJob] /\ captures = 0 /\ captureDeaths = 0
    /\ reported = <<>> /\ chosenIds = {} /\ removedIds = {} /\ disturbed = FALSE

Command(p, steps, i) ==
    /\ Step(p) = "none" /\ captures < MaxCaptures /\ captures' = captures + 1
    /\ job' = [job EXCEPT ![p] = [NoJob EXCEPT !.todo = steps, !.id = i, !.by = captures + 1]]

\* session capture and session ingest, and session save with the id its file has.
CaptureSession(p) ==
    /\ Command(p, CaptureSteps, 0)
    /\ UNCHANGED <<index, sessionDir, captureDeaths, reported, chosenIds, removedIds,
                   disturbed>>
SaveSession(p, i) ==
    /\ Command(p, SaveSteps, i) /\ chosenIds' = chosenIds \cup {i}
    /\ UNCHANGED <<index, sessionDir, captureDeaths, reported, removedIds, disturbed>>
DeleteSession(p, i) ==
    /\ Command(p, DeleteSteps, i)
    /\ UNCHANGED <<index, sessionDir, captureDeaths, reported, chosenIds, removedIds,
                   disturbed>>

GoOn(j) == IF Len(j.todo) = 1 THEN NoJob ELSE [j EXCEPT !.todo = Tail(j.todo)]
Done(p) == [job EXCEPT ![p] = GoOn(job[p])]

loadIndexUnsafe(p) ==
    /\ Step(p) = "load" /\ job' = [Done(p) EXCEPT ![p].read = loadIndex]
    /\ disturbed' = (disturbed \/ \E q \in Captures \ {p} : Updating(q))
    /\ UNCHANGED <<index, sessionDir, captures, captureDeaths, reported, chosenIds,
                   removedIds>>

\* The write of the index begins.
EmptyFile(p) ==
    /\ Step(p) = "empty" /\ index' = EmptyIndex /\ job' = Done(p)
    /\ UNCHANGED <<sessionDir, captures, captureDeaths, reported, chosenIds, removedIds,
                   disturbed>>

\* Mutant: the id is drawn and the index not moved on.
GetNextSessionIDStill(p) ==
    /\ Step(p) = "draw" /\ index' = job[p].read
    /\ job' = [Done(p) EXCEPT ![p].id = job[p].read.next]
    /\ UNCHANGED <<sessionDir, captures, captureDeaths, reported, chosenIds, removedIds, disturbed>>

GetNextSessionID(p) ==
    LET i == job[p].read.next
    IN /\ Step(p) = "draw" /\ index' = [job[p].read EXCEPT !.next = i + 1]
       /\ job' = [Done(p) EXCEPT ![p].id = i]
       /\ UNCHANGED <<sessionDir, captures, captureDeaths, reported, chosenIds, removedIds,
                      disturbed>>

\* A file of the session; a session without a summary leaves that file alone.
WriteFile(p, f) ==
    /\ Step(p) = f /\ job' = Done(p)
    /\ \E who \in {job[p].by} \cup IF f = "summary" THEN {sessionDir[job[p].id][f]} ELSE {} :
         sessionDir' = [sessionDir EXCEPT ![job[p].id][f] = who]
    /\ UNCHANGED <<index, captures, captureDeaths, reported, chosenIds, removedIds,
                   disturbed>>

\* The entry is replaced, or added.
Entered(f, i, c) == [x \in DOMAIN f \cup {i} |-> IF x = i THEN c ELSE f[x]]
ListSession(p) ==
    LET i == job[p].id
    IN /\ Step(p) = "list" /\ job' = Done(p)
       /\ index' = [job[p].read EXCEPT !.sessions = Entered(@, i, job[p].by)]
       /\ reported' = Entered(reported, i, job[p].by)
       /\ UNCHANGED <<sessionDir, captures, captureDeaths, chosenIds, removedIds,
                      disturbed>>

RemoveFiles(p) ==
    /\ Step(p) = "remove" /\ job' = Done(p)
    /\ sessionDir' = [sessionDir EXCEPT ![job[p].id] = NoFiles]
    /\ removedIds' = removedIds \cup {job[p].id}
    /\ UNCHANGED <<index, captures, captureDeaths, reported, chosenIds, disturbed>>

UnlistSession(p) ==
    LET others == DOMAIN job[p].read.sessions \ {job[p].id}
    IN /\ Step(p) = "unlist" /\ job' = Done(p)
       /\ index' = [job[p].read EXCEPT !.sessions = [i \in others |-> @[i]]]
       /\ UNCHANGED <<sessionDir, captures, captureDeaths, reported, chosenIds,
                      removedIds, disturbed>>

\* It dies, or a write fails; of a file it was writing nothing may be left.
CaptureDies(p) ==
    /\ Step(p) # "none" /\ captureDeaths < CaptureDeaths /\ captureDeaths' = captureDeaths + 1
    /\ job' = [job EXCEPT ![p] = NoJob]
    /\ \/ UNCHANGED sessionDir
       \/ /\ Step(p) \in {"session", "turns", "summary"}
          /\ sessionDir' = [sessionDir EXCEPT ![job[p].id][Step(p)] = Nobody]
    /\ disturbed' = (disturbed \/ Step(p) \in {"draw", "list", "unlist"})
    /\ UNCHANGED <<index, captures, reported, chosenIds, removedIds>>

SessionNext ==
    \E p \in Captures :
      \/ CaptureSession(p) \/ \E i \in GivenIds : SaveSession(p, i) \/ DeleteSession(p, i)
      \/ loadIndexUnsafe(p) \/ EmptyFile(p) \/ GetNextSessionID(p)
      \/ \E f \in {"session", "turns", "summary"} : WriteFile(p, f)
      \/ ListSession(p) \/ RemoveFiles(p) \/ UnlistSession(p) \/ CaptureDies(p)

SessionSpec == SessionInit /\ [][SessionNext]_sessionVars

-----------------------------------------------------------------------------

Capturing(p) == /\ Step(p) # "none" /\ job[p].id \notin chosenIds \cup {0}
                /\ \A n \in DOMAIN job[p].todo : job[p].todo[n] # "unlist"

(* No two captures write under one id, nor one under the id of a session that
   was saved, as long as no two commands update the index at once and none
   dies when it has just emptied it. *)
DrawnOnce ==
    ~disturbed =>
      \A p \in Captures : Capturing(p) =>
        /\ job[p].id \notin DOMAIN reported
        /\ \A q \in Captures \ {p} : Capturing(q) => job[q].id # job[p].id

(* A session that was saved with success stays listed and readable with what
   that command wrote, under the same condition.  An id that session save or
   a delete was given is not one of capture's own. *)
SessionsKept ==
    ~disturbed /\ (\A p \in Captures : ~Updating(p)) =>
      \A i \in DOMAIN reported \ (chosenIds \cup removedIds) :
        /\ i \in FilterSessions /\ index.sessions[i] = reported[i]
        /\ sessionDir[i].session = reported[i] /\ sessionDir[i].turns = reported[i]

(* What the index lists has its session.yaml, however the commands overlap,
   and if they did not, whichever of them died: only a delete removes the
   files first and the entry later, and a save may rewrite them. *)
ListedIsThere ==
    (disturbed /\ captureDeaths > 0) \/
      \A i \in ListSessions \ (removedIds \cup chosenIds) : GetSession(i) # Nobody

(* Sessions keep the ids they were given, their files and their entries. *)
SessionsAreKept == SessionTypeOK /\ DrawnOnce /\ SessionsKept /\ ListedIsThere
=============================================================================
