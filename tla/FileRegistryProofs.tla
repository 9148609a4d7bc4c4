------------------------- MODULE FileRegistryProofs -------------------------
(***************************************************************************)
(* Proofs about FileRegistry, for any number of processes, threads, ids    *)
(* and records: its types, mutual exclusion of the writers, freshness of   *)
(* what they write, and that it implements the atomic Registry.            *)
(***************************************************************************)
EXTENDS FileRegistry, TLAPS

(* A call is named while it runs, answered exactly when it took effect, and *)
(* read and write calls take different paths.                               *)
CallInv ==
    \A t \in Threads :
        /\ pc[t] = "idle" => op[t] = Abs!Idle
        /\ pc[t] # "idle" => op[t] \in Abs!Calls /\ op[t].kind \in Kinds
        /\ pc[t] \in {"idle"} \cup Before => outcome[t] = "none"
        /\ pc[t] \in After => outcome[t] # "none"
        /\ pc[t] \in Writing \cup {"flock"} => ~Abs!IsRead(op[t])
        /\ pc[t] = "read" => Abs!IsRead(op[t])

(* Whoever writes holds the sidecar lock.                                   *)
LockInv == \A t \in Threads : pc[t] \in Writing => flock = t

IInv == TypeOK /\ CallInv /\ LockInv /\ FreshWrite

-----------------------------------------------------------------------------

(* An operation leaves a well-formed table well formed.                     *)
LEMMA EffectType ==
    ASSUME NEW o \in Abs!Calls, NEW tbl \in Abs!Tables
    PROVE  Abs!Effect(o, tbl) \in Abs!Tables
  BY DEF Abs!Calls, Abs!Tables, Abs!Effect

(* Every request the client may make is a well-formed call.                 *)
LEMMA RequestType ==
    ASSUME TypeOK, NEW t \in Threads, NEW o \in Abs!Requests(t)
    PROVE  o \in Abs!Calls /\ o.kind \in Kinds
  <1>1. ASSUME NEW tbl \in loaded[t] PROVE Abs!Rewrite(tbl) \in Abs!Tables
    BY <1>1, FileRegistryAssumption DEF TypeOK, Abs!Tables, Abs!Rewrite
  <1>2. QED
    BY <1>1 DEF Abs!Requests, Abs!Calls

(* A verdict is always one of the answers, and never the empty one.         *)
LEMMA VerdictType ==
    ASSUME NEW o, NEW tbl
    PROVE  Abs!Verdict(o, tbl) \in {"ok", "exists", "missing"}
  BY DEF Abs!Verdict

(* So is a reading, of a read call.                                         *)
LEMMA ReadingType ==
    ASSUME NEW o \in Abs!Calls, NEW tbl \in Abs!Tables, Abs!IsRead(o)
    PROVE  Abs!Reading(o, tbl) \in Abs!Answers \ {"none"}
  BY FileRegistryAssumption
     DEF Abs!Reading, Abs!IsRead, Abs!Calls, Abs!Tables, Abs!Answers

-----------------------------------------------------------------------------

(* The variables always hold values of their types.                        *)
LEMMA TypePreserved ==
    ASSUME TypeOK, CallInv, [Next]_vars
    PROVE  TypeOK'
  <1> USE DEF TypeOK, Before, After, Goto, Answer
  <1>1. ASSUME NEW t \in Threads, Invoke(t) PROVE TypeOK'
    BY <1>1, RequestType DEF Invoke
  <1>2. ASSUME NEW t \in Threads, Advance(t) PROVE TypeOK'
    <2> ProcOf[t] \in Procs
      BY FileRegistryAssumption
    <2>1. CASE LockMutex(t)   BY <2>1 DEF LockMutex
    <2>2. CASE LockFile(t)    BY <2>2 DEF LockFile
    <2>3. CASE LoadFile(t)
      <3>1. op[t] \in Abs!Calls
        BY <2>3 DEF LoadFile, CallInv
      <3>2. Abs!Effect(op[t], file) \in Abs!Tables
        BY <3>1, EffectType
      <3>3. QED  BY <2>3, <3>2 DEF LoadFile
    <2>4. CASE Refuse(t)      BY <2>4, VerdictType DEF Refuse, Abs!Answers
    <2>5. CASE WriteTemp(t)   BY <2>5 DEF WriteTemp
    <2>6. CASE Rename(t)      BY <2>6 DEF Rename, Discard, Abs!Answers, Abs!Tables, Abs!Empty
    <2>7. CASE UnlockFile(t)  BY <2>7 DEF UnlockFile
    <2>8. CASE UnlockMutex(t) BY <2>8 DEF UnlockMutex, Finish, Abs!Answers
    <2>9. CASE ReadLock(t)    BY <2>9 DEF ReadLock
    <2>10. CASE ReadFile(t)
      <3>1. op[t] \in Abs!Calls /\ Abs!IsRead(op[t])
        BY <2>10 DEF ReadFile, CallInv
      <3>2. Abs!Reading(op[t], file) \in Abs!Answers
        BY <3>1, ReadingType
      <3>3. QED  BY <2>10, <3>2 DEF ReadFile
    <2>11. CASE ReadUnlock(t) BY <2>11 DEF ReadUnlock, Finish, Abs!Answers
    <2>12. QED
      BY <1>2, <2>1, <2>2, <2>3, <2>4, <2>5, <2>6, <2>7, <2>8, <2>9, <2>10, <2>11 DEF Advance
  <1>3. ASSUME NEW t \in Threads, Fault(t) PROVE TypeOK'
    <2>1. CASE OpenFails(t)  BY <2>1 DEF OpenFails, Abs!Answers
    <2>2. CASE FileFails(t)  BY <2>2 DEF FileFails, Discard, Abs!Answers, Abs!Tables, Abs!Empty
    <2>3. CASE ReadFails(t)  BY <2>3 DEF ReadFails, Abs!Answers
    <2>4. QED  BY <1>3, <2>1, <2>2, <2>3 DEF Fault
  <1>4. ASSUME NEW p \in Procs, Crash(p) PROVE TypeOK'
    BY <1>4 DEF Crash, Abs!Answers, Abs!Tables, Abs!Empty
  <1>5. CASE UNCHANGED vars
    BY <1>5 DEF vars
  <1>6. QED
    BY <1>1, <1>2, <1>3, <1>4, <1>5 DEF Next

(* The bookkeeping of calls is preserved.                                  *)
LEMMA CallPreserved ==
    ASSUME TypeOK, CallInv, [Next]_vars
    PROVE  CallInv'
  <1> USE DEF TypeOK, CallInv, Before, After, Writing, Goto, Answer
  <1>1. ASSUME NEW t \in Threads, Invoke(t) PROVE CallInv'
    BY <1>1, RequestType DEF Invoke
  <1>2. ASSUME NEW t \in Threads, Advance(t) PROVE CallInv'
    <2>1. CASE LockMutex(t)   BY <2>1 DEF LockMutex
    <2>2. CASE LockFile(t)    BY <2>2 DEF LockFile
    <2>3. CASE LoadFile(t)    BY <2>3 DEF LoadFile
    <2>4. CASE Refuse(t)      BY <2>4, VerdictType DEF Refuse
    <2>5. CASE WriteTemp(t)   BY <2>5 DEF WriteTemp
    <2>6. CASE Rename(t)      BY <2>6 DEF Rename
    <2>7. CASE UnlockFile(t)  BY <2>7 DEF UnlockFile
    <2>8. CASE UnlockMutex(t) BY <2>8 DEF UnlockMutex, Finish
    <2>9. CASE ReadLock(t)    BY <2>9 DEF ReadLock
    <2>10. CASE ReadFile(t)
      <3>1. Abs!Reading(op[t], file) # "none"
        BY <2>10, ReadingType DEF ReadFile
      <3>2. QED  BY <2>10, <3>1 DEF ReadFile
    <2>11. CASE ReadUnlock(t) BY <2>11 DEF ReadUnlock, Finish
    <2>12. QED
      BY <1>2, <2>1, <2>2, <2>3, <2>4, <2>5, <2>6, <2>7, <2>8, <2>9, <2>10, <2>11 DEF Advance
  <1>3. ASSUME NEW t \in Threads, Fault(t) PROVE CallInv'
    <2>1. CASE OpenFails(t)  BY <2>1 DEF OpenFails
    <2>2. CASE FileFails(t)  BY <2>2 DEF FileFails
    <2>3. CASE ReadFails(t)  BY <2>3 DEF ReadFails
    <2>4. QED  BY <1>3, <2>1, <2>2, <2>3 DEF Fault
  <1>4. ASSUME NEW p \in Procs, Crash(p) PROVE CallInv'
    BY <1>4 DEF Crash
  <1>5. CASE UNCHANGED vars
    BY <1>5 DEF vars
  <1>6. QED
    BY <1>1, <1>2, <1>3, <1>4, <1>5 DEF Next

(* Only the holder of the sidecar lock gets into the writing steps, and it *)
(* leaves them when it lets the lock go.                                   *)
LEMMA LockPreserved ==
    ASSUME TypeOK, LockInv, [Next]_vars
    PROVE  LockInv'
  <1> USE FileRegistryAssumption DEF TypeOK, LockInv, Writing, Goto
  <1>1. ASSUME NEW t \in Threads, Invoke(t) PROVE LockInv'
    BY <1>1 DEF Invoke
  <1>2. ASSUME NEW t \in Threads, Advance(t) PROVE LockInv'
    <2>1. CASE LockFile(t)    BY <2>1 DEF LockFile
    <2>2. CASE UnlockFile(t)  BY <2>2 DEF UnlockFile
    <2>3. CASE LockMutex(t) \/ UnlockMutex(t)
      BY <2>3 DEF LockMutex, UnlockMutex
    <2>4. CASE LoadFile(t) \/ Refuse(t) \/ WriteTemp(t) \/ Rename(t)
      BY <2>4 DEF LoadFile, Refuse, WriteTemp, Rename
    <2>5. CASE ReadLock(t) \/ ReadFile(t) \/ ReadUnlock(t)
      BY <2>5 DEF ReadLock, ReadFile, ReadUnlock
    <2>6. QED  BY <1>2, <2>1, <2>2, <2>3, <2>4, <2>5 DEF Advance
  <1>3. ASSUME NEW t \in Threads, Fault(t) PROVE LockInv'
    BY <1>3 DEF Fault, OpenFails, FileFails, ReadFails
  <1>4. ASSUME NEW p \in Procs, Crash(p) PROVE LockInv'
    BY <1>4 DEF Crash
  <1>5. CASE UNCHANGED vars
    BY <1>5 DEF vars
  <1>6. QED
    BY <1>1, <1>2, <1>3, <1>4, <1>5 DEF Next

(* The registry changes only under the lock, so the copy its holder is     *)
(* about to publish stays fresh.                                           *)
LEMMA FreshPreserved ==
    ASSUME TypeOK, LockInv, FreshWrite, [Next]_vars
    PROVE  FreshWrite'
  <1> USE FileRegistryAssumption DEF TypeOK, LockInv, FreshWrite, Writing, Goto
  <1>1. ASSUME NEW t \in Threads, Invoke(t) PROVE FreshWrite'
    BY <1>1 DEF Invoke
  <1>2. ASSUME NEW t \in Threads, Advance(t) PROVE FreshWrite'
    <2>1. CASE LoadFile(t)
      BY <2>1 DEF LoadFile
    <2>2. CASE WriteTemp(t)
      BY <2>2 DEF WriteTemp
    <2>3. CASE Rename(t)
      <3>1. ASSUME NEW u \in Threads, pc'[u] \in {"write", "rename"} PROVE FALSE
        BY <2>3, <3>1 DEF Rename
      <3>2. QED  BY <3>1
    <2>4. CASE Refuse(t)
      BY <2>4 DEF Refuse
    <2>5. CASE LockMutex(t) \/ LockFile(t) \/ UnlockFile(t) \/ UnlockMutex(t)
      BY <2>5 DEF LockMutex, LockFile, UnlockFile, UnlockMutex, Finish
    <2>6. CASE ReadLock(t) \/ ReadFile(t) \/ ReadUnlock(t)
      BY <2>6 DEF ReadLock, ReadFile, ReadUnlock, Finish
    <2>7. QED  BY <1>2, <2>1, <2>2, <2>3, <2>4, <2>5, <2>6 DEF Advance
  <1>3. ASSUME NEW t \in Threads, Fault(t) PROVE FreshWrite'
    BY <1>3 DEF Fault, OpenFails, FileFails, ReadFails, Discard
  <1>4. ASSUME NEW p \in Procs, Crash(p) PROVE FreshWrite'
    BY <1>4 DEF Crash
  <1>5. CASE UNCHANGED vars
    BY <1>5 DEF vars
  <1>6. QED
    BY <1>1, <1>2, <1>3, <1>4, <1>5 DEF Next

LEMMA InitInvariant == Init => IInv
  BY DEF Init, IInv, TypeOK, CallInv, LockInv, FreshWrite, Before, After, Writing,
         Abs!Tables, Abs!Empty, Abs!Answers

(* The inductive invariant holds in every state.                           *)
THEOREM Invariance == Spec => []IInv
  <1>1. IInv /\ [Next]_vars => IInv'
    BY TypePreserved, CallPreserved, LockPreserved, FreshPreserved DEF IInv
  <1>2. QED
    BY InitInvariant, <1>1, PTL DEF Spec

(* The variables of the file registry always have their types.             *)
THEOREM TypeCorrect == Spec => []TypeOK
  BY Invariance, PTL DEF IInv

(* No two writers are ever between flock and unlock, in one process or in  *)
(* several, wherever processes die.                                        *)
THEOREM WritersExclude == Spec => []MutualExclusion
  <1>1. IInv => MutualExclusion
    BY DEF IInv, LockInv, MutualExclusion
  <1>2. QED
    BY Invariance, <1>1, PTL

(* No write is ever computed from a copy that has gone stale.              *)
THEOREM WritesAreFresh == Spec => []FreshWrite
  BY Invariance, PTL DEF IInv

(* A task's record changes only by a call that names the task, or when a   *)
(* bulk command saves a whole backlog: where none does, no concurrent      *)
(* update is ever lost.                                                    *)
THEOREM NoLostUpdate == Spec => ChangesOnlyItsTask
  <1> DEFINE Own(i) == \E t \in Threads :
                          /\ pc[t] = "rename" /\ pc'[t] = "unlock"
                          /\ \/ op[t].kind = "save"
                             \/ op[t].kind \in {"add", "update", "remove"} /\ op[t].id = i
  <1>1. ASSUME IInv, [Next]_vars, NEW i \in Ids, file'[i] # file[i] PROVE Own(i)
    <2>1. PICK t \in Threads : Rename(t)
      <3>1. ASSUME NEW t \in Threads, Invoke(t) \/ Fault(t) PROVE FALSE
        BY <1>1, <3>1 DEF Invoke, Fault, OpenFails, FileFails, ReadFails
      <3>2. ASSUME NEW t \in Threads, Advance(t), ~Rename(t) PROVE FALSE
        BY <1>1, <3>2 DEF Advance, LockMutex, LockFile, LoadFile, Refuse, WriteTemp,
              UnlockFile, UnlockMutex, ReadLock, ReadFile, ReadUnlock
      <3>3. ASSUME NEW p \in Procs, Crash(p) PROVE FALSE
        BY <1>1, <3>3 DEF Crash
      <3>4. QED
        BY <1>1, <3>1, <3>2, <3>3 DEF Next, vars
    <2>2. file' = Abs!Effect(op[t], file) /\ op[t] \in Abs!Calls /\ ~Abs!IsRead(op[t])
      BY <1>1, <2>1 DEF IInv, FreshWrite, CallInv, Rename, Goto, Writing
    <2>3. CASE op[t].kind = "save"
      BY <1>1, <2>1, <2>3 DEF Rename, Goto, IInv, TypeOK
    <2>4. CASE op[t].kind # "save"
      <3>1. op[t].kind \in {"add", "update", "remove"}
        BY <2>2, <2>4 DEF Abs!Calls, Abs!IsRead
      <3>2. op[t].id = i
        BY <1>1, <2>2, <3>1 DEF Abs!Effect, Abs!Calls, IInv, TypeOK, Abs!Tables
      <3>3. QED
        BY <1>1, <2>1, <3>1, <3>2 DEF Rename, Goto, IInv, TypeOK
    <2>5. QED
      BY <2>3, <2>4
  <1>2. IInv /\ [Next]_vars => [\A i \in Ids : file'[i] # file[i] => Own(i)]_vars
    BY <1>1
  <1>3. QED
    BY Invariance, <1>2, PTL DEF Spec, ChangesOnlyItsTask

-----------------------------------------------------------------------------

LEMMA InitRefines == Init => Abs!Init
  BY DEF Init, Abs!Init

(* Every step of the file registry is a step of the atomic one, or changes *)
(* nothing a caller can see.                                               *)
LEMMA StepRefines ==
    ASSUME IInv, [Next]_vars
    PROVE  [Abs!Next]_(Abs!rvars)
  <1> USE DEF IInv, TypeOK, CallInv, Before, After, Writing, Goto, Answer, Abs!rvars
  <1>1. ASSUME NEW t \in Threads, Invoke(t) PROVE Abs!Invoke(t)
    BY <1>1 DEF Invoke, Abs!Invoke
  <1>2. ASSUME NEW t \in Threads, Advance(t)
        PROVE  UNCHANGED Abs!rvars \/ Abs!Write(t) \/ Abs!Read(t) \/ Abs!Return(t)
    <2> DEFINE Goal == UNCHANGED Abs!rvars \/ Abs!Write(t) \/ Abs!Read(t) \/ Abs!Return(t)
    <2>1. CASE LockMutex(t) \/ LockFile(t) \/ LoadFile(t) \/ WriteTemp(t) \/ UnlockFile(t)
               \/ ReadLock(t)
      BY <2>1 DEF LockMutex, LockFile, LoadFile, WriteTemp, UnlockFile, ReadLock
    <2>2. CASE Refuse(t)
      <3>1. Abs!Pending(t) /\ ~Abs!IsRead(op[t])
        BY <2>2 DEF Refuse, Abs!Pending, Abs!Idle, Abs!Calls
      <3>2. Abs!Write(t)
        BY <2>2, <3>1 DEF Refuse, Abs!Write
      <3>3. QED  BY <3>2
    <2>3. CASE Rename(t)
      <3>1. Abs!Pending(t) /\ ~Abs!IsRead(op[t])
        BY <2>3 DEF Rename, Abs!Pending, Abs!Idle, Abs!Calls
      <3>2. Abs!Verdict(op[t], file) = "ok" /\ file' = Abs!Effect(op[t], file)
        BY <2>3 DEF Rename, FreshWrite
      <3>3. Abs!Write(t)
        BY <2>3, <3>1, <3>2 DEF Rename, Abs!Write
      <3>4. QED  BY <3>3
    <2>4. CASE ReadFile(t)
      <3>1. Abs!Pending(t) /\ Abs!IsRead(op[t])
        BY <2>4 DEF ReadFile, Abs!Pending, Abs!Idle, Abs!Calls
      <3>2. Abs!Read(t)
        BY <2>4, <3>1 DEF ReadFile, Abs!Read
      <3>3. QED  BY <3>2
    <2>5. CASE UnlockMutex(t) \/ ReadUnlock(t)
      BY <2>5 DEF UnlockMutex, ReadUnlock, Finish, Abs!Return
    <2>6. QED
      BY <1>2, <2>1, <2>2, <2>3, <2>4, <2>5 DEF Advance
  <1>3. ASSUME NEW t \in Threads, Fault(t) PROVE Abs!Fail(t)
    BY <1>3 DEF Fault, OpenFails, FileFails, ReadFails, Abs!Fail, Abs!Pending, Abs!Idle, Abs!Calls
  <1>4. ASSUME NEW p \in Procs, Crash(p) PROVE \E S \in SUBSET Threads : Abs!Die(S)
    <2> DEFINE dead == {t \in Threads : ProcOf[t] = p}
    <2>1. Abs!Die(dead)
      BY <1>4 DEF Crash, Abs!Die
    <2>2. QED  BY <2>1
  <1>5. CASE UNCHANGED vars
    BY <1>5 DEF vars
  <1>6. QED
    BY <1>1, <1>2, <1>3, <1>4, <1>5 DEF Next, Abs!Next

(* The registry the code keeps in a file, with its locks, temporary files  *)
(* and crashes, implements the atomic registry its callers rely on.        *)
THEOREM Refinement == Spec => RefinesRegistry
  <1>1. IInv /\ [Next]_vars => [Abs!Next]_(Abs!rvars)
    BY StepRefines
  <1>2. QED
    BY InitRefines, <1>1, Invariance, PTL DEF Spec, RefinesRegistry, Abs!Spec

=============================================================================
