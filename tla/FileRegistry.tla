---------------------------- MODULE FileRegistry ----------------------------
(***************************************************************************)
(* The file registry as the code runs it: threads of several processes     *)
(* (CLI commands, hooks, the MCP server, the scheduler) call the backlog   *)
(* manager, which takes its process's RWMutex, then flock on the sidecar   *)
(* file, loads, modifies, writes a temporary file and renames it over the  *)
(* registry (storage/backlog.go, storage/atomicwrite.go, lockfile).        *)
(*                                                                         *)
(* Any file operation may fail, and a process may die at any point: the    *)
(* kernel then drops its flock and its mutexes vanish with it.  A          *)
(* temporary file a crash leaves has a fresh name nobody reads again.      *)
(* sync.RWMutex may let a writer wait behind readers for any time here; Go *)
(* admits fewer behaviours.                                                *)
(***************************************************************************)

CONSTANTS Threads, Procs, ProcOf, None,
          Ids, Records, Absent, Kinds, Migrated

ASSUME FileRegistryAssumption ==
    /\ ProcOf \in [Threads -> Procs]
    /\ None \notin Threads
    /\ Absent \notin Records
    /\ Records \cap {"none", "ok", "exists", "missing", "failed"} = {}
    /\ Migrated \in [Records -> Records]

VARIABLES file,     \* what backlog.yaml holds
          flock,    \* the thread whose descriptor holds the sidecar lock
          mu,       \* per process, the thread holding the RWMutex for writing
          readers,  \* per process, the threads holding it for reading
          pc, op, outcome,
          mem,      \* the backlog a thread holds in memory
          temp,     \* the contents of a thread's temporary file
          loaded    \* what the thread's last Load returned, {} or {table}

vars == <<file, flock, mu, readers, pc, op, outcome, mem, temp, loaded>>

Abs == INSTANCE Registry WITH Clients <- Threads, table <- file, call <- op

Writing == {"load", "write", "rename", "unlock"}   \* steps under the flock
Before == {"mutex", "flock", "load", "write", "rename", "read"}
After == {"unlock", "unmutex", "runlock"}

TypeOK ==
    /\ file \in Abs!Tables
    /\ flock \in Threads \cup {None}
    /\ mu \in [Procs -> Threads \cup {None}]
    /\ readers \in [Procs -> SUBSET Threads]
    /\ pc \in [Threads -> {"idle"} \cup Before \cup After]
    /\ op \in [Threads -> Abs!Calls \cup {Abs!Idle}]
    /\ outcome \in [Threads -> Abs!Answers]
    /\ mem \in [Threads -> Abs!Tables]
    /\ temp \in [Threads -> Abs!Tables]
    /\ loaded \in [Threads -> SUBSET Abs!Tables]

Init ==
    /\ file = Abs!Empty
    /\ flock = None
    /\ mu = [p \in Procs |-> None]
    /\ readers = [p \in Procs |-> {}]
    /\ pc = [t \in Threads |-> "idle"]
    /\ op = [t \in Threads |-> Abs!Idle]
    /\ outcome = [t \in Threads |-> "none"]
    /\ mem = [t \in Threads |-> Abs!Empty]
    /\ temp = [t \in Threads |-> Abs!Empty]
    /\ loaded = [t \in Threads |-> {}]

-----------------------------------------------------------------------------

Goto(t, from, to) == pc[t] = from /\ pc' = [pc EXCEPT ![t] = to]

Answer(t, a) == outcome' = [outcome EXCEPT ![t] = a]

(* The copies a thread worked on go out of scope.                          *)
Discard(t) ==
    /\ mem' = [mem EXCEPT ![t] = Abs!Empty]
    /\ temp' = [temp EXCEPT ![t] = Abs!Empty]

(* AddTask, UpdateTask, RemoveTask, GetTask, Load or Save is called.       *)
Invoke(t) ==
    /\ Goto(t, "idle", "mutex")
    /\ \E o \in Abs!Requests(t) : op' = [op EXCEPT ![t] = o]
    /\ loaded' = [loaded EXCEPT ![t] = {}]
    /\ UNCHANGED <<file, flock, mu, readers, outcome, mem, temp>>

LockMutex(t) ==
    /\ ~Abs!IsRead(op[t])
    /\ mu[ProcOf[t]] = None /\ readers[ProcOf[t]] = {}
    /\ Goto(t, "mutex", "flock")
    /\ mu' = [mu EXCEPT ![ProcOf[t]] = t]
    /\ UNCHANGED <<file, flock, readers, op, outcome, mem, temp, loaded>>

(* acquireFileLock: opening the sidecar fails, or flock blocks until it is *)
(* free.                                                                   *)
OpenFails(t) ==
    /\ Goto(t, "flock", "unmutex")
    /\ Answer(t, "failed")
    /\ UNCHANGED <<file, flock, mu, readers, op, mem, temp, loaded>>

LockFile(t) ==
    /\ flock = None
    /\ Goto(t, "flock", "load")
    /\ flock' = t
    /\ UNCHANGED <<file, mu, readers, op, outcome, mem, temp, loaded>>

(* loadUnsafe and the change in memory; Save only marshals its argument.   *)
LoadFile(t) ==
    /\ pc[t] = "load"
    /\ Abs!Verdict(op[t], file) = "ok"
    /\ Goto(t, "load", "write")
    /\ mem' = [mem EXCEPT ![t] = Abs!Effect(op[t], file)]
    /\ UNCHANGED <<file, flock, mu, readers, op, outcome, temp, loaded>>

\* Mutant: the early return forgets the file lock.
RefuseLocked(t) ==
    /\ pc[t] = "load"
    /\ Abs!Verdict(op[t], file) # "ok"
    /\ Goto(t, "load", "unmutex")
    /\ Answer(t, Abs!Verdict(op[t], file))
    /\ UNCHANGED <<file, flock, mu, readers, op, mem, temp, loaded>>

(* The id exists already, or is not found: an error, and no write.         *)
Refuse(t) ==
    /\ pc[t] = "load"
    /\ Abs!Verdict(op[t], file) # "ok"
    /\ Goto(t, "load", "unlock")
    /\ Answer(t, Abs!Verdict(op[t], file))
    /\ UNCHANGED <<file, flock, mu, readers, op, mem, temp, loaded>>

\* Mutant: a failed write is reported as done.
FileFailsQuietly(t) ==
    /\ \E from \in {"load", "write", "rename"} : Goto(t, from, "unlock")
    /\ Answer(t, "ok")
    /\ Discard(t)
    /\ UNCHANGED <<file, flock, mu, readers, op, loaded>>

(* Reading, writing the temporary file or the rename fails: the temporary  *)
(* file is removed and the registry keeps its contents.                    *)
FileFails(t) ==
    /\ \E from \in {"load", "write", "rename"} : Goto(t, from, "unlock")
    /\ Answer(t, "failed")
    /\ Discard(t)
    /\ UNCHANGED <<file, flock, mu, readers, op, loaded>>

\* Mutant: the registry itself is opened for writing, which truncates it.
WriteInPlace(t) ==
    /\ Goto(t, "write", "rename")
    /\ temp' = [temp EXCEPT ![t] = mem[t]]
    /\ file' = Abs!Empty
    /\ UNCHANGED <<flock, mu, readers, op, outcome, mem, loaded>>

WriteTemp(t) ==
    /\ Goto(t, "write", "rename")
    /\ temp' = [temp EXCEPT ![t] = mem[t]]
    /\ UNCHANGED <<file, flock, mu, readers, op, outcome, mem, loaded>>

Rename(t) ==
    /\ Goto(t, "rename", "unlock")
    /\ file' = temp[t]
    /\ Answer(t, "ok")
    /\ Discard(t)
    /\ UNCHANGED <<flock, mu, readers, op, loaded>>

UnlockFile(t) ==
    /\ Goto(t, "unlock", "unmutex")
    /\ flock' = None
    /\ UNCHANGED <<file, mu, readers, op, outcome, mem, temp, loaded>>

Finish(t) ==
    /\ op' = [op EXCEPT ![t] = Abs!Idle]
    /\ Answer(t, "none")

UnlockMutex(t) ==
    /\ Goto(t, "unmutex", "idle")
    /\ mu' = [mu EXCEPT ![ProcOf[t]] = None]
    /\ Finish(t)
    /\ UNCHANGED <<file, flock, readers, mem, temp, loaded>>

(* GetTask and Load take only the process's read lock.                     *)
ReadLock(t) ==
    /\ Abs!IsRead(op[t])
    /\ mu[ProcOf[t]] = None
    /\ Goto(t, "mutex", "read")
    /\ readers' = [readers EXCEPT ![ProcOf[t]] = @ \cup {t}]
    /\ UNCHANGED <<file, flock, mu, op, outcome, mem, temp, loaded>>

ReadFile(t) ==
    /\ Goto(t, "read", "runlock")
    /\ Answer(t, Abs!Reading(op[t], file))
    /\ loaded' = [loaded EXCEPT ![t] = IF op[t].kind = "load" THEN {file} ELSE {}]
    /\ UNCHANGED <<file, flock, mu, readers, op, mem, temp>>

ReadFails(t) ==
    /\ Goto(t, "read", "runlock")
    /\ Answer(t, "failed")
    /\ UNCHANGED <<file, flock, mu, readers, op, mem, temp, loaded>>

ReadUnlock(t) ==
    /\ Goto(t, "runlock", "idle")
    /\ readers' = [readers EXCEPT ![ProcOf[t]] = @ \ {t}]
    /\ Finish(t)
    /\ UNCHANGED <<file, flock, mu, mem, temp, loaded>>

(* Process p dies.                                                         *)
Crash(p) ==
    LET dead == {t \in Threads : ProcOf[t] = p}
        Reset(f, v) == [t \in Threads |-> IF t \in dead THEN v ELSE f[t]]
    IN  /\ pc' = Reset(pc, "idle")
        /\ op' = Reset(op, Abs!Idle)
        /\ outcome' = Reset(outcome, "none")
        /\ loaded' = Reset(loaded, {})
        /\ mu' = [mu EXCEPT ![p] = None]
        /\ readers' = [readers EXCEPT ![p] = {}]
        /\ flock' = IF flock \in dead THEN None ELSE flock
        /\ mem' = Reset(mem, Abs!Empty)
        /\ temp' = Reset(temp, Abs!Empty)
        /\ UNCHANGED file

(* What a thread does of itself once it was called, when no file operation *)
(* fails, and what it does when one does.                                  *)
Advance(t) ==
    \/ LockMutex(t) \/ LockFile(t) \/ LoadFile(t) \/ Refuse(t)
    \/ WriteTemp(t) \/ Rename(t) \/ UnlockFile(t) \/ UnlockMutex(t)
    \/ ReadLock(t) \/ ReadFile(t) \/ ReadUnlock(t)

Fault(t) == OpenFails(t) \/ FileFails(t) \/ ReadFails(t)

Next ==
    \/ \E t \in Threads : Invoke(t) \/ Advance(t) \/ Fault(t)
    \/ \E p \in Procs : Crash(p)

Spec == Init /\ [][Next]_vars

(* The operating system runs a thread that can proceed; nobody is made to  *)
(* call, no file operation is made to fail, no process to crash.           *)
FairSpec == Spec /\ \A t \in Threads : WF_vars(Advance(t))

-----------------------------------------------------------------------------

(* No two writers, of one process or of two, are between flock and unlock: *)
(* "serialises writers across processes" (backlog.go:24-28).               *)
MutualExclusion ==
    \A t, u \in Threads : pc[t] \in Writing /\ pc[u] \in Writing => t = u

(* What a writer is about to publish is its own change applied to what the *)
(* registry holds at this moment, not to a copy that went stale since it   *)
(* was loaded; and the check that admitted the change still stands.        *)
FreshWrite ==
    \A t \in Threads :
        /\ pc[t] \in {"write", "rename"} => Abs!Verdict(op[t], file) = "ok"
        /\ pc[t] = "write" => mem[t] = Abs!Effect(op[t], file)
        /\ pc[t] = "rename" => temp[t] = Abs!Effect(op[t], file)

(* A task's record changes only by a call that names the task, or when a    *)
(* bulk command saves the whole backlog it had loaded: no update of one    *)
(* task ever reverts or drops another.                                     *)
ChangesOnlyItsTask ==
    [][\A i \in Ids : file'[i] # file[i] =>
         \E t \in Threads : /\ pc[t] = "rename" /\ pc'[t] = "unlock"
                            /\ \/ op[t].kind = "save"
                               \/ op[t].kind \in {"add", "update", "remove"} /\ op[t].id = i]_vars

(* Every call of the registry takes effect at one instant, whole, or not   *)
(* at all, whatever other processes do and wherever they die.              *)
RefinesRegistry == Abs!Spec

(* The sidecar lock never stays with a thread for ever, so no process      *)
(* blocks the others by what it does or by dying.                          *)
LockReleased == \A t \in Threads : (flock = t) ~> (flock # t)

=============================================================================
