---------------------------- MODULE WorkspaceProofs -------------------------
(***************************************************************************)
(* Proofs about the files a workspace keeps beside its backlog, for any    *)
(* number of processes, files and records: the id counter (TaskIds), the   *)
(* move of the state directory (StateMigration), the registries (Records), *)
(* the cloud archive (CloudArchive), the session store (SessionStore), the *)
(* project files made of templates (Scaffold), the wiki (Wiki) and the     *)
(* context files for agents (AIContext).                                   *)
(***************************************************************************)
EXTENDS TaskIds, StateMigration, Records, CloudArchive, SessionStore, Scaffold, Wiki, AIContext,
        FiniteSetTheorems, SequenceTheorems, WellFoundedInduction, TLAPS

(***************************************************************************)
(* The id counter: as long as no call stops between Truncate and           *)
(* WriteString, ids are unique and grow in the order callers see.          *)
(***************************************************************************)

(* Numbers that were handed out, or that a call is on its way to hand out. *)
Given(n) ==
    \/ n \in Ids
    \/ \E c \in Callers : pc[c] \in {"unlock", "return"} /\ val[c] = n

(* A call in a locked step holds the lock on the counter file.             *)
LockInv == \A c \in Callers : pc[c] \in Locked => flock = c

(* The file is never behind a number that was given away, except while its *)
(* holder rewrites it, and then the holder writes a number beyond them.    *)
CounterInv ==
    /\ \A c \in Callers : pc[c] = "truncate" => val[c] = counter + 1
    /\ \A c \in Callers : pc[c] = "write" => \A n \in Nat : Given(n) => n < val[c]
    /\ (\A c \in Callers : pc[c] # "write") => \A n \in Nat : Given(n) => n <= counter

(* Nobody is on the way to hand out what was handed out, or what another   *)
(* is on the way to hand out.                                              *)
PendingInv ==
    \A c \in Callers : pc[c] \in {"unlock", "return"} =>
        /\ val[c] \notin Ids
        /\ \A d \in Callers : d # c /\ pc[d] \in {"unlock", "return"} => val[d] # val[c]

FloorInv == \A c \in Callers : floor[c] \subseteq Ids

IInv == TypeOK /\ LockInv /\ CounterInv /\ PendingInv /\ FloorInv /\ UniqueIds /\ LaterIsLarger

-----------------------------------------------------------------------------

(* What handing out one more id adds to the ids handed out.                *)
LEMMA IdsAfterReturn ==
    ASSUME TypeOK, NEW c \in Callers, Return(c)
    PROVE  Ids' = Ids \cup {val[c]}
  <1>1. issued' = Append(issued, val[c]) /\ val[c] \in Nat /\ issued \in Seq(Nat)
    BY DEF Return, TypeOK
  <1>2. DOMAIN issued' = (DOMAIN issued) \cup {Len(issued) + 1}
    BY <1>1
  <1>3. /\ \A k \in DOMAIN issued : issued'[k] = issued[k]
        /\ issued'[Len(issued) + 1] = val[c]
    BY <1>1
  <1>4. QED
    BY <1>2, <1>3 DEF Ids

LEMMA IdsAreNumbers == ASSUME TypeOK PROVE Ids \subseteq Nat
  BY DEF TypeOK, Ids

(* The variables always hold values of their types.                        *)
LEMMA TypePreserved ==
    ASSUME TypeOK, [Next]_vars
    PROVE  TypeOK'
  <1> USE DEF TypeOK, Locked, Goto
  <1>1. ASSUME NEW c \in Callers, Open(c) PROVE TypeOK'
    BY <1>1, IdsAreNumbers DEF Open
  <1>2. ASSUME NEW c \in Callers, Lock(c) \/ ReadCounter(c) \/ Truncate(c) \/ WriteCounter(c)
        PROVE  TypeOK'
    <2>1. CASE Lock(c)
      BY <2>1 DEF Lock
    <2>2. CASE ReadCounter(c)
      BY <2>2 DEF ReadCounter
    <2>3. CASE Truncate(c)
      BY <2>3 DEF Truncate
    <2>4. CASE WriteCounter(c)
      BY <2>4 DEF WriteCounter
    <2>5. QED
      BY <1>2, <2>1, <2>2, <2>3, <2>4
  <1>3. ASSUME NEW c \in Callers, SyncFails(c) \/ FileFails(c) \/ Unlock(c) \/ GiveUp(c)
        PROVE  TypeOK'
    <2>1. CASE SyncFails(c)
      BY <2>1 DEF SyncFails
    <2>2. CASE FileFails(c)
      BY <2>2 DEF FileFails
    <2>3. CASE Unlock(c)
      BY <2>3 DEF Unlock
    <2>4. CASE GiveUp(c)
      BY <2>4 DEF GiveUp, Forget
    <2>5. QED  BY <1>3, <2>1, <2>2, <2>3, <2>4
  <1>4. ASSUME NEW c \in Callers, Return(c) PROVE TypeOK'
    BY <1>4 DEF Return, Forget
  <1>5. ASSUME NEW c \in Callers, Crash(c) PROVE TypeOK'
    BY <1>5 DEF Crash, Forget
  <1>6. CASE UNCHANGED vars
    BY <1>6 DEF vars
  <1>7. QED
    BY <1>1, <1>2, <1>3, <1>4, <1>5, <1>6 DEF Next

(* Torn writes or not, what the counter and the calls hold are numbers,    *)
(* and a call that has an id has stored it (taskid.go:83-126).             *)
THEOREM TypeCorrect == Spec => []TypeOK
  <1>1. Init => TypeOK
    BY DEF Init, TypeOK, Locked
  <1>2. TypeOK /\ [Next]_vars => TypeOK'
    BY TypePreserved
  <1>3. QED
    BY <1>1, <1>2, PTL DEF Spec

LEMMA LockPreserved ==
    ASSUME TypeOK, LockInv, [Next]_vars
    PROVE  LockInv'
  <1> USE TaskIdsAssumption DEF TypeOK, LockInv, Locked, Goto
  <1>1. ASSUME NEW c \in Callers, Open(c) \/ Lock(c) \/ ReadCounter(c) \/ Truncate(c)
        PROVE  LockInv'
    BY <1>1 DEF Open, Lock, ReadCounter, Truncate
  <1>2. ASSUME NEW c \in Callers, WriteCounter(c) \/ SyncFails(c) \/ FileFails(c)
        PROVE  LockInv'
    BY <1>2 DEF WriteCounter, SyncFails, FileFails
  <1>3. ASSUME NEW c \in Callers, Unlock(c) \/ GiveUp(c) \/ Return(c) \/ Crash(c)
        PROVE  LockInv'
    BY <1>3 DEF Unlock, GiveUp, Return, Crash
  <1>4. CASE UNCHANGED vars
    BY <1>4 DEF vars
  <1>5. QED
    BY <1>1, <1>2, <1>3, <1>4 DEF Next

(* The number-related invariants are preserved when no write is torn.      *)
LEMMA NumbersPreserved ==
    ASSUME ~TornWrites, IInv, TypeOK', [Next]_vars
    PROVE  (CounterInv /\ PendingInv /\ FloorInv /\ UniqueIds /\ LaterIsLarger)'
  <1> DEFINE Goal == CounterInv /\ PendingInv /\ FloorInv /\ UniqueIds /\ LaterIsLarger
  <1> USE DEF IInv, Locked, Goto
  <1>0. Ids \subseteq Nat
    BY IdsAreNumbers
  <1>1. ASSUME NEW c \in Callers, issued' = issued, Open(c) \/ Lock(c) \/ ReadCounter(c)
        PROVE  Goal'
    <2>1. Ids' = Ids
      BY <1>1 DEF Ids
    <2>2. CASE Open(c)
      BY <1>0, <2>1, <2>2, <1>1
         DEF Open, TypeOK, CounterInv, PendingInv, FloorInv, UniqueIds, LaterIsLarger, Given
    <2>3. CASE Lock(c)
      BY <1>0, <2>1, <2>3, <1>1
         DEF Lock, TypeOK, CounterInv, PendingInv, FloorInv, UniqueIds, LaterIsLarger, Given
    <2>4. CASE ReadCounter(c)
      BY <1>0, <2>1, <2>4, <1>1
         DEF ReadCounter, TypeOK, CounterInv, PendingInv, FloorInv, UniqueIds, LaterIsLarger, Given
    <2>5. QED  BY <1>1, <2>2, <2>3, <2>4
  <1>2. ASSUME NEW c \in Callers, Truncate(c) PROVE Goal'
    <2>1. Ids' = Ids
      BY <1>2 DEF Truncate, Ids
    <2>2. \A d \in Callers : d # c => pc[d] # "write"
      BY <1>2, TaskIdsAssumption DEF Truncate, LockInv
    <2>3. \A n \in Nat : Given(n)' => n < val'[c]
      BY <1>0, <1>2, <2>1, <2>2 DEF Truncate, TypeOK, CounterInv, Given
    <2>4. CounterInv'
      BY <1>0, <1>2, <2>1, <2>2, <2>3 DEF Truncate, TypeOK, CounterInv, LockInv
    <2>5. (PendingInv /\ FloorInv /\ UniqueIds /\ LaterIsLarger)'
      BY <1>2, <2>1 DEF Truncate, TypeOK, PendingInv, FloorInv, UniqueIds, LaterIsLarger
    <2>6. QED  BY <2>4, <2>5
  <1>3. ASSUME NEW c \in Callers, WriteCounter(c) \/ SyncFails(c) PROVE Goal'
    <2>1. Ids' = Ids /\ issued' = issued /\ val' = val /\ counter' = val[c] /\ floor' = floor
          /\ pc[c] = "write" /\ pc' \in {[pc EXCEPT ![c] = "unlock"], [pc EXCEPT ![c] = "giveup"]}
      BY <1>3 DEF WriteCounter, SyncFails, Ids
    <2>2. \A d \in Callers : d # c => pc[d] \notin Locked
      BY <2>1, TaskIdsAssumption DEF LockInv
    <2>3. \A n \in Nat : Given(n) => n < val[c]
      BY <2>1 DEF CounterInv
    <2>4. \A n \in Nat : Given(n)' => n <= val[c]
      BY <1>0, <2>1, <2>2, <2>3 DEF TypeOK, Given
    <2>5. CounterInv'
      BY <2>1, <2>2, <2>4 DEF TypeOK, CounterInv
    <2>6. \A n \in Ids : n < val[c]
      BY <1>0, <2>3 DEF Given
    <2>7. \A d \in Callers : pc[d] \in {"unlock", "return"} => val[d] < val[c]
      BY <2>3 DEF Given, TypeOK
    <2>8. (PendingInv /\ FloorInv /\ UniqueIds)'
      BY <1>0, <2>1, <2>6, <2>7 DEF TypeOK, PendingInv, FloorInv, UniqueIds
    <2>9. LaterIsLarger'
      BY <1>0, <2>1, <2>6 DEF TypeOK, FloorInv, LaterIsLarger
    <2>10. QED  BY <2>5, <2>8, <2>9
  <1>4. ASSUME NEW c \in Callers, FileFails(c) \/ Unlock(c) \/ GiveUp(c) \/ Crash(c) PROVE Goal'
    <2>1. Ids' = Ids /\ issued' = issued /\ counter' = counter
      BY <1>4 DEF FileFails, Unlock, GiveUp, Crash, Forget, Ids
    <2>2. pc[c] # "write"
      BY <1>4 DEF FileFails, Unlock, GiveUp, Crash
    <2>3. \A d \in Callers : (pc'[d] = "write") <=> (pc[d] = "write")
      BY <1>4, <2>2 DEF FileFails, Unlock, GiveUp, Crash, TypeOK
    <2>4. \A d \in Callers : pc'[d] \in {"unlock", "return", "truncate", "write"} =>
             /\ val'[d] = val[d] /\ floor'[d] = floor[d]
             /\ pc'[d] = "truncate" => pc[d] = "truncate"
             /\ pc'[d] \in {"unlock", "return"} => pc[d] \in {"unlock", "return"}
      BY <1>4 DEF FileFails, Unlock, GiveUp, Crash, Forget, TypeOK
    <2>5. \A n \in Nat : Given(n)' => Given(n)
      BY <2>1, <2>4 DEF Given
    <2>6. CounterInv'
      BY <2>1, <2>3, <2>4, <2>5 DEF CounterInv
    <2>7. (PendingInv /\ UniqueIds /\ LaterIsLarger)'
      BY <2>1, <2>4 DEF PendingInv, UniqueIds, LaterIsLarger
    <2>8. FloorInv'
      BY <1>4, <2>1 DEF FileFails, Unlock, GiveUp, Crash, Forget, TypeOK, FloorInv
    <2>9. QED  BY <2>6, <2>7, <2>8
  <1>5. ASSUME NEW c \in Callers, Return(c) PROVE Goal'
    <2>1. Ids' = Ids \cup {val[c]}
      BY <1>5, IdsAfterReturn
    <2>2. pc[c] = "return" /\ pc' = [pc EXCEPT ![c] = "idle"] /\ counter' = counter
          /\ val' = [val EXCEPT ![c] = 0] /\ floor' = [floor EXCEPT ![c] = {}]
          /\ issued' = Append(issued, val[c])
      BY <1>5 DEF Return, Forget
    <2>3. \A n \in Nat : Given(n)' => Given(n)
      BY <2>1, <2>2 DEF Given, TypeOK
    <2>4. CounterInv'
      BY <2>2, <2>3 DEF CounterInv, TypeOK
    <2>5. PendingInv'
      BY <2>1, <2>2 DEF PendingInv, TypeOK
    <2>6. FloorInv' /\ LaterIsLarger'
      BY <2>1, <2>2 DEF FloorInv, LaterIsLarger, TypeOK
    <2>7. UniqueIds'
      <3>1. \A j \in DOMAIN issued : issued[j] # val[c]
        BY <2>2 DEF PendingInv, Ids
      <3>2. QED  BY <2>2, <3>1 DEF UniqueIds, TypeOK
    <2>8. QED  BY <2>4, <2>5, <2>6, <2>7
  <1>6. CASE UNCHANGED vars
    BY <1>6 DEF vars, CounterInv, PendingInv, FloorInv, UniqueIds, LaterIsLarger, Given, Ids
  <1>7. ASSUME NEW c \in Callers, Open(c) \/ Lock(c) \/ ReadCounter(c) PROVE issued' = issued
    BY <1>7 DEF Open, Lock, ReadCounter
  <1>8. QED
    BY <1>1, <1>2, <1>3, <1>4, <1>5, <1>6, <1>7 DEF Next

LEMMA InitInvariant == Init => IInv
  BY DEF Init, IInv, TypeOK, LockInv, CounterInv, PendingInv, FloorInv, UniqueIds,
         LaterIsLarger, Given, Ids, Locked

(* The inductive invariant holds as long as no counter write is torn.      *)
THEOREM Invariance == ASSUME ~TornWrites PROVE Spec => []IInv
  <1>1. IInv /\ [Next]_vars => IInv'
    BY TypePreserved, LockPreserved, NumbersPreserved DEF IInv
  <1>2. QED
    BY InitInvariant, <1>1, PTL DEF Spec

(* Without a torn write no two calls, of any processes, return one id.     *)
THEOREM IdsAreUnique == ASSUME ~TornWrites PROVE Spec => []UniqueIds
  BY Invariance, PTL DEF IInv

(* Without a torn write an id is larger than all handed out before its     *)
(* call began.                                                             *)
THEOREM IdsGrow == ASSUME ~TornWrites PROVE Spec => []LaterIsLarger
  BY Invariance, PTL DEF IInv

(***************************************************************************)
(* The state directory migration: what was written to a state file is in   *)
(* one of its two places.                                                  *)
(***************************************************************************)

(* The steps of a process that moves a file.                               *)
CopySteps == {"copy", "fill", "remove"}
MoveSteps == {"move"} \cup CopySteps

(* The values of the variables, which steps go with which file, and that   *)
(* nothing is in a file, or was read from one, that was not written to it. *)
Written ==
    /\ legacy \in [Files -> SUBSET (Movers \cup Files \cup NoFile)]
    /\ target \in [Files -> SUBSET (Movers \cup Files \cup NoFile)]
    /\ entries \in [Files -> SUBSET (Movers \cup Files)]
    /\ \A f \in Files : legacy[f] = NoFile \/ legacy[f] \subseteq entries[f]
    /\ \A f \in Files : target[f] = NoFile \/ target[f] \subseteq entries[f]
Moved ==
    /\ crossDevice \in BOOLEAN
    /\ at \in [Movers -> 0 .. Len(LegacyFiles) + 1]
    /\ step \in [Movers -> {"new", "check", "work", "done"} \cup MoveSteps]
    /\ opened \in [Movers -> SUBSET (Movers \cup Files)]
    /\ \A p \in Movers :
         /\ step[p] = "new" => at[p] = 0
         /\ step[p] \in {"check"} \cup MoveSteps => at[p] \in DOMAIN LegacyFiles
         /\ step[p] = "work" => at[p] = Len(LegacyFiles) + 1
         /\ step[p] \in CopySteps => crossDevice /\ opened[p] \subseteq entries[File(p)]

(* A process that went on from a file.                                     *)
Passed(p, f) == \E i \in DOMAIN LegacyFiles : i < at[p] /\ LegacyFiles[i] = f
Everything(f) == entries[f] \subseteq legacy[f] \cup target[f]

(* In one file system the file is in one place or in the other, and there  *)
(* it has everything; nobody goes on before it has left the root.          *)
Renamed(f) ==
    /\ legacy[f] = NoFile \/ target[f] = NoFile
    /\ Everything(f)
    /\ \A p \in Movers : Passed(p, f) => legacy[f] = NoFile

(* Between two file systems, how far one process has copied the file.      *)
Copying(p, f) ==
    /\ legacy[f] # NoFile /\ entries[f] \subseteq legacy[f]
    /\ step[p] \in CopySteps => opened[p] = legacy[f]
    /\ step[p] \in {"move", "copy"} => target[f] = NoFile
    /\ step[p] = "remove" => target[f] = legacy[f]

(* At most one process copies it, and nobody has gone on by then.  When    *)
(* nobody copies it, what is left in the root has gone to .adb/, where     *)
(* everybody who went on finds it all.                                     *)
Copied(f) ==
    /\ \A p \in Moving(f) : Copying(p, f) /\ \A q \in Moving(f) : p = q
    /\ Moving(f) # {} => \A p \in Movers : ~Passed(p, f)
    /\ Moving(f) = {} =>
         /\ Everything(f)
         /\ legacy[f] = NoFile \/ target[f] = NoFile \/ legacy[f] \subseteq target[f]
    /\ \A p \in Movers : Passed(p, f) =>
         (legacy[f] = NoFile \/ target[f] # NoFile) /\ entries[f] \subseteq target[f]

MigrationInv ==
    /\ Written /\ Moved
    /\ ~crossDevice => \A f \in Files \ torn : Renamed(f)
    /\ crossDevice => \A f \in Files \ (torn \cup crossed) : Copied(f)

-----------------------------------------------------------------------------

LEMMA FilesAreListed ==
    /\ Len(LegacyFiles) \in Nat /\ DOMAIN LegacyFiles = 1 .. Len(LegacyFiles)
    /\ \A i \in DOMAIN LegacyFiles : LegacyFiles[i] \in Files
    /\ \A f \in Files : \E i \in DOMAIN LegacyFiles : LegacyFiles[i] = f
  <1>1. Len(LegacyFiles) \in Nat /\ DOMAIN LegacyFiles = 1 .. Len(LegacyFiles)
    <2>1. LegacyFiles \in Seq(Files)
      BY MigrationAssumption
    <2>2. QED  BY <2>1
  <1>2. /\ \A i \in DOMAIN LegacyFiles : LegacyFiles[i] \in Files
        /\ \A f \in Files : \E i \in DOMAIN LegacyFiles : LegacyFiles[i] = f
    BY Zenon DEF Files
  <1>3. QED  BY <1>1, <1>2

LEMMA NoFileIsNoEntry == "no file" \notin Movers \cup Files
  BY MigrationAssumption

(* A process that moves on to the next file, or to work.                   *)
LEMMA GoesOn ==
    ASSUME Moved, NEW p \in Movers, step[p] \in {"new", "check"} \cup MoveSteps, NextFile(p)
    PROVE  /\ at' = [at EXCEPT ![p] = at[p] + 1]
           /\ at' \in [Movers -> 0 .. Len(LegacyFiles) + 1]
           /\ step' \in [Movers -> {"new", "check", "work", "done"} \cup MoveSteps]
           /\ \A q \in Movers \ {p} : at'[q] = at[q] /\ step'[q] = step[q]
           /\ at'[p] = at[p] + 1 /\ step'[p] \in {"check", "work"}
           /\ step'[p] = "check" => at'[p] \in DOMAIN LegacyFiles
           /\ step'[p] = "work" => at'[p] = Len(LegacyFiles) + 1
           /\ \A f \in Files : \A q \in Movers \ {p} : Passed(q, f)' <=> Passed(q, f)
           /\ \A f \in Files : Passed(p, f)' =>
                Passed(p, f) \/ (step[p] # "new" /\ f = File(p))
           /\ \A f \in Files : Moving(f)' = Moving(f) \ {p}
  <1> USE FilesAreListed DEF CopySteps, MoveSteps
  <1>1. /\ at[p] \in 0 .. Len(LegacyFiles)
        /\ step[p] = "new" => at[p] = 0
        /\ step[p] # "new" => at[p] \in DOMAIN LegacyFiles
    BY DEF Moved
  <1>2. /\ at' = [at EXCEPT ![p] = at[p] + 1]
        /\ step' = [step EXCEPT ![p] = IF at[p] = Len(LegacyFiles) THEN "work" ELSE "check"]
    BY DEF NextFile, MoverTo
  <1>3. /\ at' \in [Movers -> 0 .. Len(LegacyFiles) + 1]
        /\ \A q \in Movers \ {p} : at'[q] = at[q]
        /\ at'[p] = at[p] + 1
    BY <1>1, <1>2 DEF Moved
  <1>4. /\ step' \in [Movers -> {"new", "check", "work", "done"} \cup MoveSteps]
        /\ \A q \in Movers \ {p} : step'[q] = step[q]
        /\ step'[p] \in {"check", "work"}
        /\ step'[p] = "work" <=> at[p] = Len(LegacyFiles)
    BY <1>2 DEF Moved
  <1>5. /\ step'[p] = "check" => at'[p] \in DOMAIN LegacyFiles
        /\ step'[p] = "work" => at'[p] = Len(LegacyFiles) + 1
    BY <1>1, <1>3, <1>4
  <1>6. \A f \in Files : \A q \in Movers \ {p} : Passed(q, f)' <=> Passed(q, f)
    BY <1>3 DEF Passed
  <1>7. ASSUME NEW f \in Files, Passed(p, f)' PROVE Passed(p, f) \/ (step[p] # "new" /\ f = File(p))
    <2>1. PICK i \in DOMAIN LegacyFiles : i < at[p] + 1 /\ LegacyFiles[i] = f
      BY <1>7, <1>3 DEF Passed
    <2>2. CASE i < at[p]
      <3>1. \E j \in DOMAIN LegacyFiles : j < at[p] /\ LegacyFiles[j] = f
        BY <2>1, <2>2
      <3>2. QED  BY <3>1, Zenon DEF Passed
    <2>3. CASE i = at[p]
      BY <2>1, <2>3, <1>1 DEF File
    <2>4. QED  BY <2>1, <2>2, <2>3, <1>1
  <1>8. ASSUME NEW f \in Files PROVE Moving(f)' = Moving(f) \ {p}
    BY <1>3, <1>4 DEF Moving, File
  <1>9. QED  BY <1>2, <1>3, <1>4, <1>5, <1>6, <1>7, <1>8

(* A process that takes its next step with the file it is at.              *)
LEMMA GoesTo ==
    ASSUME Moved, NEW p \in Movers, NEW s \in {"done"} \cup MoveSteps, MoverTo(p, s), at' = at
    PROVE  /\ step' \in [Movers -> {"new", "check", "work", "done"} \cup MoveSteps]
           /\ \A q \in Movers \ {p} : step'[q] = step[q]
           /\ step'[p] = s
           /\ \A f \in Files : \A q \in Movers : Passed(q, f)' <=> Passed(q, f)
           /\ \A f \in Files :
                Moving(f)' = IF s \in MoveSteps /\ File(p) = f THEN Moving(f) \cup {p}
                             ELSE Moving(f) \ {p}
  <1> USE FilesAreListed DEF CopySteps, MoveSteps
  <1>1. step' = [step EXCEPT ![p] = s]
    BY DEF MoverTo
  <1>2. /\ step' \in [Movers -> {"new", "check", "work", "done"} \cup MoveSteps]
        /\ \A q \in Movers \ {p} : step'[q] = step[q]
        /\ step'[p] = s
    BY <1>1 DEF Moved
  <1>3. \A f \in Files : \A q \in Movers : Passed(q, f)' <=> Passed(q, f)
    BY DEF Passed
  <1>4. ASSUME NEW f \in Files
        PROVE  Moving(f)' = IF s \in MoveSteps /\ File(p) = f THEN Moving(f) \cup {p}
                            ELSE Moving(f) \ {p}
    BY <1>2 DEF Moving, File
  <1>5. QED  BY <1>2, <1>3, <1>4

(* A command at its work has gone on from every file.                      *)
LEMMA WorkersPassed ==
    ASSUME Moved, NEW p \in Movers, step[p] = "work", NEW f \in Files
    PROVE  Passed(p, f)
  <1>1. PICK i \in DOMAIN LegacyFiles : LegacyFiles[i] = f
    BY FilesAreListed
  <1> DEFINE n == Len(LegacyFiles)
  <1>2. n \in Nat /\ i \in 1 .. n
    BY <1>1, FilesAreListed
  <1>3. at[p] = n + 1
    BY DEF Moved
  <1> HIDE DEF n
  <1>4. i < at[p]
    BY <1>2, <1>3
  <1>5. QED  BY <1>1, <1>4, Zenon DEF Passed

LEMMA MovedOn ==
    ASSUME Moved, NEW p \in Movers, step[p] \in {"new", "check"} \cup MoveSteps, NextFile(p),
           UNCHANGED <<crossDevice, opened, entries>>
    PROVE  Moved'
  <1>1. /\ at' \in [Movers -> 0 .. Len(LegacyFiles) + 1]
        /\ step' \in [Movers -> {"new", "check", "work", "done"} \cup MoveSteps]
        /\ \A q \in Movers \ {p} : at'[q] = at[q] /\ step'[q] = step[q]
        /\ step'[p] \in {"check", "work"}
        /\ step'[p] = "check" => at'[p] \in DOMAIN LegacyFiles
        /\ step'[p] = "work" => at'[p] = Len(LegacyFiles) + 1
    BY GoesOn
  <1>2. QED  BY <1>1 DEF Moved, File, CopySteps, MoveSteps

LEMMA MovedTo ==
    ASSUME Moved, NEW p \in Movers, NEW s \in {"done"} \cup MoveSteps, MoverTo(p, s),
           UNCHANGED <<crossDevice, at, entries>>,
           opened' \in [Movers -> SUBSET (Movers \cup Files)],
           \A q \in Movers \ {p} : opened'[q] = opened[q],
           s # "done" => step[p] \in {"check"} \cup MoveSteps,
           s \in CopySteps => crossDevice /\ opened'[p] \subseteq entries[File(p)]
    PROVE  Moved'
  <1>1. /\ step' \in [Movers -> {"new", "check", "work", "done"} \cup MoveSteps]
        /\ \A q \in Movers \ {p} : step'[q] = step[q]
        /\ step'[p] = s
    BY GoesTo
  <1>2. QED  BY <1>1 DEF Moved, File, CopySteps, MoveSteps

(* Values stay of their types, and no file is filled with what was not     *)
(* written to it.                                                          *)
LEMMA ShapePreserved ==
    ASSUME Written, Moved, [MigrationNext]_migrationVars
    PROVE  Written' /\ Moved'
  <1> USE FilesAreListed, NoFileIsNoEntry DEF CopySteps, MoveSteps
  <1> DEFINE Busy == \E p \in Movers : step[p] \notin {"new", "done"}
  <1>1. ASSUME NEW p \in Movers, Start(p) PROVE Written' /\ Moved'
    <2>1. Written'
      BY <1>1 DEF Start, Written
    <2>2. QED  BY <1>1, <2>1, MovedOn DEF Start
  <1>2. ASSUME NEW p \in Movers, moveIfAbsent(p) PROVE Written' /\ Moved'
    <2>1. Written'
      BY <1>2 DEF moveIfAbsent, Written
    <2>2. CASE Skips(File(p))
      BY <1>2, <2>1, <2>2, MovedOn DEF moveIfAbsent
    <2>3. CASE ~Skips(File(p))
      <3>1. MoverTo(p, "move") /\ UNCHANGED <<crossDevice, at, entries, opened>> /\ step[p] = "check"
        BY <1>2, <2>3 DEF moveIfAbsent
      <3>2. Moved'
        BY <3>1, MovedTo DEF Moved
      <3>3. QED  BY <2>1, <3>2
    <2>4. QED  BY <2>2, <2>3
  <1>3. ASSUME NEW p \in Movers, Rename(p) PROVE Written' /\ Moved'
    <2>1. File(p) \in Files
      BY <1>3 DEF Rename, Moved, File
    <2>2. Written'
      <3>1. legacy[File(p)] = NoFile \/ legacy[File(p)] \subseteq entries[File(p)]
        BY <2>1 DEF Written
      <3>2. CASE legacy[File(p)] = NoFile
        BY <1>3, <3>2 DEF Rename, Written
      <3>3. CASE legacy[File(p)] # NoFile
        <4>1. /\ target' = [target EXCEPT ![File(p)] = legacy[File(p)]] /\ entries' = entries
              /\ legacy' = [legacy EXCEPT ![File(p)] = NoFile]
          BY <1>3, <3>3 DEF Rename
        <4>2. NoFile \in SUBSET (Movers \cup Files \cup NoFile)
          OBVIOUS
        <4>3. QED  BY <2>1, <3>1, <3>3, <4>1, <4>2 DEF Written
      <3>4. QED  BY <3>2, <3>3
    <2>3. QED  BY <1>3, <2>2, MovedOn DEF Rename
  <1>4. ASSUME NEW p \in Movers, OpenSource(p) PROVE Written' /\ Moved'
    <2>1. File(p) \in Files
      BY <1>4 DEF OpenSource, Moved, File
    <2>2. Written'
      BY <1>4 DEF OpenSource, Written
    <2>3. CASE legacy[File(p)] = NoFile
      BY <1>4, <2>2, <2>3, MovedOn DEF OpenSource
    <2>4. CASE legacy[File(p)] # NoFile
      <3>1. legacy[File(p)] \subseteq entries[File(p)] /\ entries[File(p)] \in SUBSET (Movers \cup Files)
        BY <2>1, <2>4 DEF Written
      <3>2. /\ MoverTo(p, "copy") /\ UNCHANGED <<crossDevice, at, entries>> /\ step[p] = "move"
            /\ opened' = [opened EXCEPT ![p] = legacy[File(p)]] /\ crossDevice
        BY <1>4, <2>4 DEF OpenSource
      <3>3. /\ opened' \in [Movers -> SUBSET (Movers \cup Files)]
            /\ \A q \in Movers \ {p} : opened'[q] = opened[q]
            /\ opened'[p] \subseteq entries[File(p)]
        BY <3>1, <3>2 DEF Moved
      <3>4. Moved'
        BY <3>2, <3>3, MovedTo
      <3>5. QED  BY <2>2, <3>4
    <2>5. QED  BY <2>3, <2>4
  <1>5. ASSUME NEW p \in Movers, OpenTarget(p) PROVE Written' /\ Moved'
    <2>1. File(p) \in Files
      BY <1>5 DEF OpenTarget, Moved, File
    <2>2. Written'
      BY <1>5, <2>1 DEF OpenTarget, Written
    <2>3. /\ MoverTo(p, "fill") /\ UNCHANGED <<crossDevice, at, entries, opened>> /\ step[p] = "copy"
          /\ crossDevice /\ opened[p] \subseteq entries[File(p)]
      BY <1>5 DEF OpenTarget, Moved
    <2>4. Moved'
      BY <2>3, MovedTo DEF Moved
    <2>5. QED  BY <2>2, <2>4
  <1>6. ASSUME NEW p \in Movers, CopyTo(p) PROVE Written' /\ Moved'
    <2>1. File(p) \in Files /\ opened[p] \subseteq entries[File(p)]
      BY <1>6 DEF CopyTo, Moved, File
    <2>2. Written'
      BY <1>6, <2>1 DEF CopyTo, Written
    <2>3. /\ MoverTo(p, "remove") /\ UNCHANGED <<crossDevice, at, entries, opened>> /\ step[p] = "fill"
          /\ crossDevice
      BY <1>6 DEF CopyTo, Moved
    <2>4. Moved'
      BY <2>1, <2>3, MovedTo DEF Moved
    <2>5. QED  BY <2>2, <2>4
  <1>7. ASSUME NEW p \in Movers, RemoveSource(p) PROVE Written' /\ Moved'
    <2>1. File(p) \in Files
      BY <1>7 DEF RemoveSource, Moved, File
    <2>2. Written'
      BY <1>7, <2>1 DEF RemoveSource, Written, NoFile
    <2>3. QED  BY <1>7, <2>2, MovedOn DEF RemoveSource
  <1>8. ASSUME NEW p \in Movers, MoveFails(p) PROVE Written' /\ Moved'
    <2>1. Written'
      BY <1>8 DEF MoveFails, Written
    <2>2. QED  BY <1>8, <2>1, MovedOn DEF MoveFails
  <1>9. ASSUME NEW p \in Movers, MoverDies(p) PROVE Written' /\ Moved'
    <2>1. Written'
      BY <1>9 DEF MoverDies, Written
    <2>2. MoverTo(p, "done") /\ UNCHANGED <<crossDevice, at, entries, opened>>
      BY <1>9 DEF MoverDies
    <2>3. Moved'
      BY <2>2, MovedTo DEF Moved
    <2>4. QED  BY <2>1, <2>3
  <1>10. ASSUME NEW p \in Movers, NEW f \in Files, Work(p, f) PROVE Written' /\ Moved'
    <2>1. Written'
      <3>1. /\ target' = [target EXCEPT ![f] = (IF @ = NoFile THEN {} ELSE @) \cup {p}]
            /\ entries' = [entries EXCEPT ![f] = @ \cup {p}] /\ legacy' = legacy
        BY <1>10 DEF Work
      <3>2. /\ target'[f] \subseteq entries'[f]
            /\ entries' \in [Files -> SUBSET (Movers \cup Files)]
            /\ target' \in [Files -> SUBSET (Movers \cup Files \cup NoFile)]
        <4>1. target'[f] = (IF target[f] = NoFile THEN {} ELSE target[f]) \cup {p}
              /\ entries'[f] = entries[f] \cup {p}
          BY <3>1 DEF Written
        <4>2. (IF target[f] = NoFile THEN {} ELSE target[f]) \subseteq entries[f]
          BY DEF Written
        <4>3. entries[f] \in SUBSET (Movers \cup Files)
          BY DEF Written
        <4>4. target'[f] \in SUBSET (Movers \cup Files \cup NoFile)
          BY <4>1, <4>2, <4>3
        <4>5. entries'[f] \in SUBSET (Movers \cup Files)
          BY <4>1, <4>3
        <4>6. target' \in [Files -> SUBSET (Movers \cup Files \cup NoFile)]
          BY <3>1, <4>1, <4>4 DEF Written
        <4>7. entries' \in [Files -> SUBSET (Movers \cup Files)]
          BY <3>1, <4>1, <4>5 DEF Written
        <4>8. QED  BY <4>1, <4>2, <4>6, <4>7
      <3>3. \A g \in Files : entries[g] \subseteq entries'[g]
        BY <3>1 DEF Written
      <3>4. \A g \in Files \ {f} : target'[g] = target[g]
        BY <3>1 DEF Written
      <3>5. QED  BY <3>1, <3>2, <3>3, <3>4 DEF Written
    <2>2. \A g \in Files : entries[g] \subseteq entries'[g]
      BY <1>10 DEF Work, Written
    <2>0. MoverTo(p, "done") /\ at' = at
      BY <1>10 DEF Work
    <2>3. /\ \A q \in Movers \ {p} : step'[q] = step[q]
          /\ step'[p] = "done" /\ at' = at /\ opened' = opened /\ crossDevice' = crossDevice
          /\ step' \in [Movers -> {"new", "check", "work", "done"} \cup MoveSteps]
      BY <1>10, <2>0, GoesTo DEF Work
    <2>4. QED  BY <2>1, <2>2, <2>3 DEF Moved, File
  <1>11. CASE UNCHANGED migrationVars
    BY <1>11 DEF migrationVars, Written, Moved, File
  <1>12. QED
    BY <1>1, <1>2, <1>3, <1>4, <1>5, <1>6, <1>7, <1>8, <1>9, <1>10, <1>11 DEF MigrationNext

(* In one file system.                                                     *)
LEMMA RenamedPreserved ==
    ASSUME Written, Moved, ~crossDevice, NEW f \in Files \ torn', Renamed(f),
           [MigrationNext]_migrationVars
    PROVE  Renamed(f)'
  <1> USE FilesAreListed, NoFileIsNoEntry DEF CopySteps, MoveSteps
  <1>1. ASSUME NEW p \in Movers, Start(p) PROVE Renamed(f)'
    BY <1>1, GoesOn DEF Start, Renamed, Everything
  <1>2. ASSUME NEW p \in Movers, moveIfAbsent(p) PROVE Renamed(f)'
    <2>1. CASE Skips(File(p))
      BY <1>2, <2>1, GoesOn DEF moveIfAbsent, Renamed, Everything, Skips
    <2>2. CASE ~Skips(File(p))
      BY <1>2, <2>2, GoesTo DEF moveIfAbsent, Renamed, Everything
    <2>3. QED  BY <2>1, <2>2
  <1>3. ASSUME NEW p \in Movers, Rename(p) PROVE Renamed(f)'
    <2>1. entries[f] \in SUBSET (Movers \cup Files)
      BY DEF Written
    <2>2. legacy'[f] = NoFile \/ (legacy'[f] = legacy[f] /\ target'[f] = target[f] /\ f # File(p))
      BY <1>3 DEF Rename, Written
    <2>4. Everything(f)'
      <3>1. CASE f # File(p) \/ legacy[f] = NoFile
        BY <1>3, <3>1 DEF Rename, Written, Renamed, Everything
      <3>2. CASE f = File(p) /\ legacy[f] # NoFile
        <4>1. target[f] = NoFile /\ target'[f] = legacy[f] /\ entries'[f] = entries[f]
          BY <1>3, <3>2 DEF Rename, Written, Renamed
        <4>2. entries[f] \subseteq legacy[f]
          BY <2>1, <4>1 DEF Renamed, Everything, NoFile
        <4>3. QED  BY <4>1, <4>2 DEF Everything
      <3>3. QED  BY <3>1, <3>2
    <2>5. \A q \in Movers : Passed(q, f)' => legacy'[f] = NoFile
      BY <1>3, <2>2, GoesOn DEF Rename, Renamed
    <2>6. QED  BY <2>2, <2>4, <2>5 DEF Renamed
  <1>4. ASSUME NEW p \in Movers, OpenSource(p) \/ OpenTarget(p) \/ CopyTo(p) \/ RemoveSource(p)
        PROVE  FALSE
    BY <1>4 DEF OpenSource, OpenTarget, CopyTo, RemoveSource, Moved
  <1>5. ASSUME NEW p \in Movers, MoveFails(p) PROVE Renamed(f)'
    BY <1>5, GoesOn DEF MoveFails, Renamed, Everything
  <1>6. ASSUME NEW p \in Movers, MoverDies(p) PROVE Renamed(f)'
    BY <1>6, GoesTo DEF MoverDies, Renamed, Everything
  <1>7. ASSUME NEW p \in Movers, NEW g \in Files, Work(p, g) PROVE Renamed(f)'
    <2>1. at[p] = Len(LegacyFiles) + 1 /\ at' = at /\ legacy' = legacy
      BY <1>7 DEF Work, Moved
    <2>2. Passed(p, f)
      BY <1>7, WorkersPassed DEF Work
    <2>3. legacy[f] = NoFile
      BY <2>2 DEF Renamed
    <2>4. Everything(f)'
      BY <1>7, <2>3 DEF Work, Written, Renamed, Everything, NoFile
    <2>5. QED  BY <2>1, <2>3, <2>4 DEF Renamed, Passed
  <1>8. CASE UNCHANGED migrationVars
    BY <1>8 DEF migrationVars, Renamed, Everything, Passed
  <1>9. QED
    BY <1>1, <1>2, <1>3, <1>4, <1>5, <1>6, <1>7, <1>8 DEF MigrationNext

(* A step that leaves a file and its copy alone.                           *)
LEMMA CopiedElse ==
    ASSUME NEW f \in Files, Copied(f), legacy'[f] = legacy[f], target'[f] = target[f],
           entries'[f] = entries[f], Moving(f)' = Moving(f),
           \A q \in Moving(f) : step'[q] = step[q] /\ opened'[q] = opened[q],
           \A q \in Movers : Passed(q, f)' => Passed(q, f)
    PROVE  Copied(f)'
  <1>1. \A q \in Moving(f) : Copying(q, f) => Copying(q, f)'
    BY DEF Copying, CopySteps
  <1>2. Everything(f)' <=> Everything(f)
    BY DEF Everything
  <1>3. QED  BY <1>1, <1>2 DEF Copied

LEMMA MovingIsMoving ==
    ASSUME NEW f \in Files, NEW p \in Movers
    PROVE  p \in Moving(f) <=> step[p] \in MoveSteps /\ File(p) = f
  BY DEF Moving, MoveSteps, CopySteps

(* Between two file systems, the steps before a copy.                      *)
LEMMA CopiedByArrival ==
    ASSUME Written, Moved, crossDevice, NEW f \in Files \ (torn' \cup crossed'), Copied(f),
           NEW p \in Movers, Start(p) \/ moveIfAbsent(p)
    PROVE  Copied(f)'
  <1> USE DEF CopySteps, MoveSteps
  <1>1. entries[f] \in SUBSET (Movers \cup Files)
    BY DEF Written
  <1>2. UNCHANGED <<legacy, target, entries, opened>>
    BY DEF Start, moveIfAbsent
  <1>3. CASE Start(p)
    <2>1. /\ Moving(f)' = Moving(f) \ {p} /\ \A q \in Movers \ {p} : step'[q] = step[q]
          /\ \A q \in Movers : Passed(q, f)' => Passed(q, f)
      BY <1>3, GoesOn DEF Start
    <2>2. p \notin Moving(f)
      BY <1>3, MovingIsMoving DEF Start
    <2>3. Moving(f) \subseteq Movers
      BY DEF Moving
    <2>4. QED  BY <1>2, <2>1, <2>2, <2>3, CopiedElse
  <1>4. CASE moveIfAbsent(p) /\ Skips(File(p))
    <2>1. /\ Moving(f)' = Moving(f) \ {p} /\ \A q \in Movers \ {p} : step'[q] = step[q]
          /\ \A q \in Movers : Passed(q, f)' => Passed(q, f) \/ (q = p /\ f = File(p))
      BY <1>4, GoesOn DEF moveIfAbsent
    <2>2. p \notin Moving(f) /\ Moving(f) \subseteq Movers
      BY <1>4, MovingIsMoving DEF moveIfAbsent, Moving
    <2>3. CASE f # File(p)
      BY <1>2, <2>1, <2>2, <2>3, CopiedElse
    <2>4. CASE f = File(p)
      <3>1. Moving(f) = {}
        BY <1>4, <2>4 DEF moveIfAbsent
      <3>2. Moving(f)' = {} /\ (legacy[f] = NoFile \/ target[f] # NoFile) /\ Everything(f)
            /\ (legacy[f] = NoFile \/ target[f] = NoFile \/ legacy[f] \subseteq target[f])
        BY <1>4, <2>1, <2>4, <3>1 DEF Copied, Skips
      <3>3. entries[f] \subseteq target[f]
        BY <1>1, <3>2, NoFileIsNoEntry DEF Everything, NoFile
      <3>4. QED  BY <1>2, <3>2, <3>3 DEF Copied, Everything
    <2>5. QED  BY <2>3, <2>4
  <1>5. CASE moveIfAbsent(p) /\ ~Skips(File(p))
    <2>0. MoverTo(p, "move") /\ at' = at /\ step[p] = "check"
      BY <1>5 DEF moveIfAbsent
    <2>1. /\ Moving(f)' = IF File(p) = f THEN Moving(f) \cup {p} ELSE Moving(f) \ {p}
          /\ \A q \in Movers \ {p} : step'[q] = step[q]
          /\ step'[p] = "move"
          /\ \A q \in Movers : Passed(q, f)' <=> Passed(q, f)
      BY <2>0, GoesTo
    <2>2. p \notin Moving(f) /\ Moving(f) \subseteq Movers
      BY <2>0, MovingIsMoving DEF Moving
    <2>3. CASE f # File(p)
      BY <1>2, <2>1, <2>2, <2>3, CopiedElse
    <2>4. CASE f = File(p)
      <3>1. Moving(f) = {} /\ legacy[f] # NoFile /\ target[f] = NoFile
        BY <1>5, <2>4 DEF moveIfAbsent, Skips
      <3>2. Everything(f) /\ \A q \in Movers : ~Passed(q, f)
        BY <3>1 DEF Copied
      <3>3. entries[f] \subseteq legacy[f]
        BY <1>1, <3>1, <3>2, NoFileIsNoEntry DEF Everything, NoFile
      <3>4. Copying(p, f)' /\ Moving(f)' = {p}
        BY <1>2, <2>1, <2>4, <3>1, <3>3 DEF Copying
      <3>5. QED  BY <2>1, <3>2, <3>4 DEF Copied
    <2>5. QED  BY <2>3, <2>4
  <1>6. QED  BY <1>3, <1>4, <1>5

(* The steps of a copy.                                                    *)
LEMMA CopiedByCopy ==
    ASSUME Written, Moved, crossDevice, NEW f \in Files \ (torn' \cup crossed'), Copied(f),
           NEW p \in Movers, OpenSource(p) \/ OpenTarget(p) \/ CopyTo(p)
    PROVE  Copied(f)'
  <1> USE DEF CopySteps, MoveSteps
  <1>1. step[p] \in {"move", "copy", "fill"} /\ UNCHANGED <<legacy, entries>>
    BY DEF OpenSource, OpenTarget, CopyTo
  <1>2. /\ \A q \in Movers \ {p} : opened'[q] = opened[q]
        /\ f # File(p) => target'[f] = target[f]
    BY DEF OpenSource, OpenTarget, CopyTo, Moved, Written
  <1>3. Moving(f) \subseteq Movers
    BY DEF Moving
  <1>4. CASE f # File(p)
    <2>1. p \notin Moving(f)
      BY <1>4, MovingIsMoving
    <2>2. CASE NextFile(p)
      <3>1. /\ Moving(f)' = Moving(f) \ {p} /\ \A q \in Movers \ {p} : step'[q] = step[q]
            /\ \A q \in Movers : Passed(q, f)' => Passed(q, f)
        BY <1>1, <1>4, <2>2, GoesOn
      <3>2. QED  BY <1>1, <1>2, <1>3, <1>4, <2>1, <3>1, CopiedElse
    <2>3. CASE at' = at /\ \E s \in CopySteps : MoverTo(p, s)
      <3>1. PICK s \in CopySteps : MoverTo(p, s)
        BY <2>3
      <3>2. /\ Moving(f)' = Moving(f) \ {p} /\ \A q \in Movers \ {p} : step'[q] = step[q]
            /\ \A q \in Movers : Passed(q, f)' <=> Passed(q, f)
        BY <1>4, <2>3, <3>1, GoesTo
      <3>3. QED  BY <1>1, <1>2, <1>3, <1>4, <2>1, <3>2, CopiedElse
    <2>4. NextFile(p) \/ (at' = at /\ \E s \in CopySteps : MoverTo(p, s))
      BY DEF OpenSource, OpenTarget, CopyTo
    <2>5. QED  BY <2>2, <2>3, <2>4
  <1>5. CASE f = File(p)
    <2>1. p \in Moving(f)
      BY <1>1, <1>5, MovingIsMoving
    <2>2. Moving(f) = {p} /\ Copying(p, f) /\ \A q \in Movers : ~Passed(q, f)
      BY <2>1 DEF Copied
    <2>3. PICK s \in CopySteps : MoverTo(p, s) /\ at' = at
      BY <1>5, <2>2 DEF OpenSource, OpenTarget, CopyTo, Copying
    <2>4. /\ Moving(f)' = {p} /\ step'[p] = s
          /\ \A q \in Movers : Passed(q, f)' <=> Passed(q, f)
      BY <1>5, <2>2, <2>3, GoesTo
    <2>5. CASE OpenSource(p)
      <3>1. s = "copy" /\ step[p] = "move" /\ opened'[p] = legacy[f] /\ target' = target
        BY <1>5, <2>2, <2>4, <2>5 DEF OpenSource, Copying, MoverTo, Moved
      <3>2. Copying(p, f)'
        BY <1>1, <2>2, <2>4, <3>1 DEF Copying
      <3>3. QED  BY <2>2, <2>4, <3>2 DEF Copied
    <2>6. CASE OpenTarget(p)
      <3>1. s = "fill" /\ opened' = opened /\ step[p] = "copy"
        BY <2>4, <2>6 DEF OpenTarget, MoverTo, Moved
      <3>2. Copying(p, f)'
        BY <1>1, <2>2, <2>4, <3>1 DEF Copying
      <3>3. QED  BY <2>2, <2>4, <3>2 DEF Copied
    <2>7. CASE CopyTo(p)
      <3>1. s = "remove" /\ opened' = opened /\ step[p] = "fill" /\ target'[f] = opened[p]
        BY <1>5, <2>4, <2>7 DEF CopyTo, MoverTo, Moved, Written
      <3>2. Copying(p, f)'
        BY <1>1, <2>2, <2>4, <3>1 DEF Copying
      <3>3. QED  BY <2>2, <2>4, <3>2 DEF Copied
    <2>8. QED  BY <2>5, <2>6, <2>7
  <1>6. QED  BY <1>4, <1>5

(* The end of a copy, and what comes after it.                             *)
LEMMA CopiedByEnd ==
    ASSUME Written, Moved, crossDevice, NEW f \in Files \ (torn' \cup crossed'), Copied(f),
           NEW p \in Movers, RemoveSource(p) \/ MoveFails(p) \/ MoverDies(p)
    PROVE  Copied(f)'
  <1> USE DEF CopySteps, MoveSteps
  <1>1. Moving(f) \subseteq Movers
    BY DEF Moving
  <1>2. CASE RemoveSource(p) \/ MoveFails(p)
    <2>1. /\ UNCHANGED <<target, entries, opened>> /\ step[p] \in MoveSteps
          /\ f # File(p) => legacy'[f] = legacy[f]
      BY <1>2 DEF RemoveSource, MoveFails, Written
    <2>2. /\ Moving(f)' = Moving(f) \ {p} /\ \A q \in Movers \ {p} : step'[q] = step[q]
          /\ \A q \in Movers : Passed(q, f)' => Passed(q, f) \/ (q = p /\ f = File(p))
      BY <1>2, <2>1, GoesOn DEF RemoveSource, MoveFails
    <2>3. CASE f # File(p)
      <3>1. p \notin Moving(f)
        BY <2>3, MovingIsMoving
      <3>2. QED  BY <1>1, <2>1, <2>2, <2>3, <3>1, CopiedElse
    <2>4. CASE f = File(p)
      <3>1. RemoveSource(p) /\ step[p] = "remove"
        BY <1>2, <2>4 DEF MoveFails, RemoveSource
      <3>2. Moving(f) = {p} /\ Copying(p, f)
        BY <2>1, <2>4, MovingIsMoving DEF Copied
      <3>3. legacy'[f] = NoFile /\ entries[f] \subseteq target[f]
        BY <2>4, <3>1, <3>2 DEF RemoveSource, Copying, Written
      <3>4. Moving(f)' = {}
        BY <2>2, <3>2
      <3>5. QED  BY <2>1, <3>3, <3>4 DEF Copied, Everything
    <2>5. QED  BY <2>3, <2>4
  <1>3. CASE MoverDies(p)
    <2>1. /\ UNCHANGED <<legacy, target, entries, opened>>
          /\ MoverTo(p, "done") /\ at' = at
      BY <1>3 DEF MoverDies
    <2>2. /\ Moving(f)' = Moving(f) \ {p} /\ \A q \in Movers \ {p} : step'[q] = step[q]
          /\ \A q \in Movers : Passed(q, f)' <=> Passed(q, f)
      BY <2>1, GoesTo
    <2>3. CASE p \notin Moving(f)
      BY <1>1, <2>1, <2>2, <2>3, CopiedElse
    <2>4. CASE p \in Moving(f)
      <3>1. Moving(f) = {p} /\ Copying(p, f) /\ \A q \in Movers : ~Passed(q, f)
        BY <2>4 DEF Copied
      <3>2. step[p] \in MoveSteps /\ File(p) = f /\ step[p] # "fill"
        BY <1>3, <2>4, MovingIsMoving DEF MoverDies
      <3>3. /\ entries[f] \subseteq legacy[f]
            /\ target[f] = NoFile \/ legacy[f] \subseteq target[f]
        BY <3>1, <3>2 DEF Copying
      <3>4. Moving(f)' = {}
        BY <2>2, <3>1
      <3>5. QED  BY <2>1, <2>2, <3>1, <3>3, <3>4 DEF Copied, Everything
    <2>5. QED  BY <2>3, <2>4
  <1>4. QED  BY <1>2, <1>3

LEMMA CopiedByWork ==
    ASSUME Written, Moved, crossDevice, NEW f \in Files \ (torn' \cup crossed'), Copied(f),
           NEW p \in Movers, NEW g \in Files, Work(p, g)
    PROVE  Copied(f)'
  <1>1. step[p] = "work" /\ MoverTo(p, "done") /\ UNCHANGED <<legacy, at, opened>>
    BY DEF Work
  <1>2. Passed(p, f)
    BY <1>1, WorkersPassed
  <1>3. Moving(f) = {} /\ entries[f] \subseteq target[f] /\ (legacy[f] = NoFile \/ target[f] # NoFile)
        /\ (legacy[f] = NoFile \/ target[f] = NoFile \/ legacy[f] \subseteq target[f])
    BY <1>2 DEF Copied
  <1>4. Moving(f)' = {} /\ \A q \in Movers : Passed(q, f)' <=> Passed(q, f)
    BY <1>1, <1>3, GoesTo DEF MoveSteps, CopySteps
  <1>5. entries[f] \in SUBSET (Movers \cup Files)
    BY DEF Written
  <1>6. CASE f # g
    BY <1>1, <1>3, <1>4, <1>6 DEF Work, Written, Copied, Everything
  <1>7. CASE f = g
    <2>1. /\ entries'[f] = entries[f] \cup {p}
          /\ target'[f] = (IF target[f] = NoFile THEN {} ELSE target[f]) \cup {p}
      BY <1>7 DEF Work, Written
    <2>2. entries'[f] \subseteq target'[f] /\ target'[f] # NoFile
      BY <1>3, <1>5, <2>1, NoFileIsNoEntry DEF NoFile
    <2>3. legacy'[f] = NoFile \/ legacy'[f] \subseteq target'[f]
      BY <1>1, <1>3, <2>1
    <2>4. QED  BY <1>4, <2>2, <2>3 DEF Copied, Everything
  <1>8. QED  BY <1>6, <1>7

LEMMA CopiedPreserved ==
    ASSUME Written, Moved, crossDevice, NEW f \in Files \ (torn' \cup crossed'), Copied(f),
           [MigrationNext]_migrationVars
    PROVE  Copied(f)'
  <1>1. CASE UNCHANGED migrationVars
    <2>1. Moving(f)' = Moving(f) /\ \A q \in Movers : Passed(q, f)' <=> Passed(q, f)
      BY <1>1 DEF migrationVars, Moving, Passed, File
    <2>2. QED  BY <1>1, <2>1, CopiedElse DEF migrationVars
  <1>2. ASSUME NEW p \in Movers, Rename(p) PROVE FALSE
    BY <1>2 DEF Rename
  <1>3. QED
    BY <1>1, <1>2, CopiedByArrival, CopiedByCopy, CopiedByEnd, CopiedByWork DEF MigrationNext

LEMMA ZeroIsFirst == 0 \in 0 .. Len(LegacyFiles) + 1
  <1> DEFINE n == Len(LegacyFiles)
  <1>1. n \in Nat
    BY FilesAreListed
  <1> HIDE DEF n
  <1>2. 0 \in 0 .. n + 1
    BY <1>1
  <1>3. QED  BY <1>2 DEF n

LEMMA NothingPassed == \A i \in DOMAIN LegacyFiles : ~(i < 0)
  <1> DEFINE n == Len(LegacyFiles)
  <1>1. n \in Nat /\ DOMAIN LegacyFiles = 1 .. n
    BY FilesAreListed
  <1> HIDE DEF n
  <1>2. QED  BY <1>1

LEMMA MigrationInvInit == MigrationInit => MigrationInv
  <1> SUFFICES ASSUME MigrationInit PROVE MigrationInv
    OBVIOUS
  <1> USE FilesAreListed, NoFileIsNoEntry DEF MigrationInit
  <1>1. PICK old \in SUBSET Files : legacy = [f \in Files |-> IF f \in old THEN {f} ELSE NoFile]
    OBVIOUS
  <1>2. \A f \in Files : entries[f] = IF f \in old THEN {f} ELSE {}
    <2>1. ASSUME NEW f \in Files PROVE entries[f] = IF f \in old THEN {f} ELSE {}
      <3>1. f # "no file" /\ entries[f] = legacy[f] \ {"no file"}
        BY Zenon DEF NoFile
      <3>2. CASE f \in old
        <4>1. legacy[f] = {f}
          BY <1>1, <3>2
        <4>2. QED  BY <3>1, <3>2, <4>1
      <3>3. CASE f \notin old
        <4>1. legacy[f] = {"no file"}
          BY <1>1, <3>3 DEF NoFile
        <4>2. QED  BY <3>1, <3>3, <4>1
      <3>4. QED  BY <3>2, <3>3
    <2>2. QED  BY <2>1
  <1>3. Written
    <2>1. /\ legacy \in [Files -> SUBSET (Movers \cup Files \cup NoFile)]
          /\ target \in [Files -> SUBSET (Movers \cup Files \cup NoFile)]
      BY <1>1
    <2>2. entries \in [Files -> SUBSET (Movers \cup Files)]
      BY <1>1 DEF NoFile
    <2>3. QED  BY <1>1, <1>2, <2>1, <2>2 DEF Written
  <1>4. Moved
    <2>1. /\ at = [p \in Movers |-> 0] /\ step = [p \in Movers |-> "new"] /\ crossDevice \in BOOLEAN
          /\ opened = [p \in Movers |-> {}] /\ Len(LegacyFiles) \in Nat
      BY Zenon
    <2>6. at \in [Movers -> 0 .. Len(LegacyFiles) + 1]
      BY <2>1, ZeroIsFirst
    <2>2. /\ step \in [Movers -> {"new", "check", "work", "done"} \cup MoveSteps]
          /\ opened \in [Movers -> SUBSET (Movers \cup Files)]
      BY <2>1
    <2>3. QED  BY <2>1, <2>2, <2>6 DEF Moved, MoveSteps, CopySteps
  <1>5. \A f \in Files : \A p \in Movers : ~Passed(p, f)
    <2>1. \A p \in Movers : at[p] = 0
      BY Zenon
    <2>2. \A i \in DOMAIN LegacyFiles : ~(i < 0)
      BY NothingPassed
    <2>3. QED  BY <2>1, <2>2, Zenon DEF Passed
  <1>6. \A f \in Files : Everything(f) /\ target[f] = NoFile /\ Moving(f) = {}
    BY <1>1, <1>2 DEF Everything, Moving
  <1>7. QED  BY <1>3, <1>4, <1>5, <1>6 DEF MigrationInv, Renamed, Copied

LEMMA MigrationInvKept ==
    ASSUME MigrationInv, [MigrationNext]_migrationVars
    PROVE  MigrationInv'
  <1>1. torn \subseteq torn' /\ crossed \subseteq crossed' /\ crossDevice' = crossDevice
    BY DEF MigrationNext, Start, moveIfAbsent, Rename, OpenSource, OpenTarget, CopyTo,
           RemoveSource, MoveFails, MoverDies, Work, migrationVars
  <1>2. Written' /\ Moved'
    BY ShapePreserved DEF MigrationInv
  <1>3. ~crossDevice => \A f \in Files \ torn' : Renamed(f)'
    BY <1>1, RenamedPreserved DEF MigrationInv
  <1>4. crossDevice => \A f \in Files \ (torn' \cup crossed') : Copied(f)'
    BY <1>1, CopiedPreserved DEF MigrationInv
  <1>5. QED  BY <1>1, <1>2, <1>3, <1>4 DEF MigrationInv

LEMMA MigrationInvImplies == MigrationInv => StateIsKept
  <1> SUFFICES ASSUME MigrationInv PROVE StateIsKept
    OBVIOUS
  <1> USE DEF MigrationInv
  <1>1. MigrationTypeOK
    BY DEF Written, Moved, MigrationTypeOK, CopySteps
  <1>2. Written /\ Moved /\ crossDevice \in BOOLEAN
    BY DEF Moved
  <1>3. ASSUME NEW f \in Files \ Exposed
        PROVE  /\ Everything(f)
               /\ \A p \in Movers : Passed(p, f) => entries[f] \subseteq target[f]
    <2>1. CASE ~crossDevice
      <3>1. Renamed(f) /\ entries[f] \in SUBSET (Movers \cup Files)
        BY <1>2, <1>3, <2>1 DEF Exposed, Written
      <3>2. QED  BY <3>1, NoFileIsNoEntry DEF Renamed, Everything, NoFile
    <2>2. CASE crossDevice
      <3>1. Copied(f)
        BY <1>3, <2>2 DEF Exposed
      <3>2. CASE Moving(f) = {}
        BY <3>1, <3>2 DEF Copied
      <3>3. CASE Moving(f) # {}
        BY <3>1, <3>3 DEF Copied, Copying, Everything
      <3>4. QED  BY <3>2, <3>3
    <2>3. QED  BY <2>1, <2>2
  <1>4. NothingLost
    BY <1>3 DEF NothingLost, Everything
  <1>5. NeverReset
    BY <1>2, <1>3, WorkersPassed DEF NeverReset
  <1>6. QED  BY <1>1, <1>4, <1>5 DEF StateIsKept

(* What was written to a state file is there whoever dies or starts at the *)
(* same time, and a command finds it all in .adb/ before it works: for any *)
(* number of processes, files, errors and deaths, but for files that two   *)
(* processes copied at once, whose copy a death cut short, or that could   *)
(* not be moved, after which the command goes on without them              *)
(* (internal/migration.go).                                                *)
THEOREM StateSurvives == MigrationSpec => []StateIsKept
  <1>1. MigrationInv /\ [MigrationNext]_migrationVars => MigrationInv'
    BY MigrationInvKept
  <1>2. QED  BY MigrationInvInit, <1>1, MigrationInvImplies, PTL DEF MigrationSpec

(***************************************************************************)
(* The registries of decisions, debt, organizations and rules.             *)
(***************************************************************************)

LEMMA LargestOf ==
  ASSUME NEW S \in SUBSET Nat, S # {}, NEW n \in Nat, \A x \in S : x <= n
  PROVE  \E x \in S : \A y \in S : y <= x
  <1> DEFINE T == {n - x : x \in S}
             R == {p \in Nat \X Nat : p[1] < p[2]}
  <1>1. T \subseteq Nat /\ T # {}
    <2>1. \A x \in S : n - x \in Nat
      OBVIOUS
    <2>2. QED
      BY <2>1
  <1>2. \E t \in T : \A u \in T : ~(<<u, t>> \in R)
    <2>1. IsWellFoundedOn(R, Nat)
      BY NatLessThanWellFounded DEF OpToRel
    <2> HIDE DEF T, R
    <2>2. QED
      BY <1>1, <2>1, WFMin
  <1>3. PICK t \in T : \A u \in T : ~(u < t)
    BY <1>1, <1>2
  <1>4. PICK x \in S : t = n - x
    OBVIOUS
  <1>5. ASSUME NEW y \in S
        PROVE  y <= x
    <2>1. ~(n - y < n - x)
      BY <1>3, <1>4
    <2>2. QED
      BY <2>1
  <1>6. QED
    BY <1>5

(* A new number follows all that are in use.                               *)
LEMMA NewNumber ==
    ASSUME NEW R, NEW n \in Nat, RecordIds(R) \subseteq 1 .. n
    PROVE  NextNumber(R) \in 1 .. n + 1 /\ NextNumber(R) \notin RecordIds(R)
  <1> DEFINE S == RecordIds(R) \cup {0}
             m == Max(S)
  <1>1. S \in SUBSET Nat /\ S # {} /\ \A x \in S : x <= n
    OBVIOUS
  <1>2. \E x \in S : \A y \in S : x >= y
    <2> HIDE DEF S
    <2>1. \E x \in S : \A y \in S : y <= x
      BY <1>1, LargestOf
    <2>2. QED  BY <1>1, <2>1
  <1>3. m \in S /\ \A y \in S : m >= y
    <2> HIDE DEF S
    <2>1. QED  BY <1>2, Zenon DEF Max
  <1>4. NextNumber(R) = 1 + m
    BY DEF NextNumber
  <1> HIDE DEF m
  <1>5. QED  BY <1>1, <1>3, <1>4

-----------------------------------------------------------------------------

(* What is left to do of a command.                                        *)
Todos(op) ==
    CASE registry = "adr" /\ op = "add" ->
           {<<"lock", "load", "body", "store">>, <<"load", "body", "store">>, <<"body", "store">>,
            <<"store">>}
      [] registry = "adr" /\ op = "set" ->
           {<<"get", "lock", "load", "store">>, <<"lock", "load", "store">>, <<"load", "store">>,
            <<"store">>}
      [] registry \in {"debt", "crm"} /\ op = "add" ->
           {<<"draw", "load", "store">>, <<"load", "store">>, <<"store">>}
      [] registry \in {"debt", "crm"} /\ op = "set" ->
           {<<"get", "load", "store">>, <<"load", "store">>, <<"store">>}
      [] OTHER -> {<<"load", "store">>, <<"store">>}

(* Commands that are to draw a number, and so how far the numbers go.      *)
Undrawn ==
    {p \in Clerks : /\ registry # "rules" /\ clerk[p].op = "add"
                    /\ \/ At(p) \in {"lock", "draw"}
                       \/ registry = "adr" /\ At(p) = "load"}
Limit == commands - Cardinality(Undrawn)
InUse == IF registry = "rules" THEN RuleNames ELSE 1 .. Limit

RecordsOf(S) == [id : S, made : Nat, status : Nat]
Sound(R) ==
    /\ R \subseteq RecordsOf(InUse)
    /\ \A r, s \in R : r.id = s.id => r = s
Texted(R) == \A r \in R : <<r.id, r.made>> \in bodies

(* What a command holds, by itself ...                                     *)
Private(p) ==
    \/ clerk[p] = AtRest
    \/ /\ clerk[p] \in [op : Operations, todo : Todos(clerk[p].op), read : SUBSET RecordsOf(InUse),
                        record : RecordsOf(InUse \cup {0}), by : Nat]
       /\ Sound(clerk[p].read)
       /\ p \notin Undrawn => clerk[p].record.id \in InUse
       /\ clerk[p].op = "add" =>
            /\ clerk[p].record.made = clerk[p].by
            /\ At(p) \in {"body", "store"} => clerk[p].record.id \notin RecordIds(clerk[p].read)

(* ... and against the file: a decision's command has it locked, and finds *)
(* it as it was loaded, with the texts.                                    *)
Shared(p) ==
    /\ registry = "adr" /\ At(p) \in {"load", "body", "store"} => lock = p
    /\ (registry = "adr" \/ ~overlapped) /\ At(p) \in {"body", "store"} => clerk[p].read = records
    /\ registry = "adr" =>
         /\ Texted(clerk[p].read)
         /\ (clerk[p].op = "set" /\ At(p) # "get") \/ (clerk[p].op = "add" /\ At(p) = "store")
              => <<clerk[p].record.id, clerk[p].record.made>> \in bodies

Global ==
    /\ registry \in Registries /\ commands \in 0 .. MaxCommands /\ Limit \in Nat
    /\ DOMAIN clerk = Clerks /\ lock \in Clerks \cup {"free"}
    /\ lock # "free" => registry = "adr" /\ At(lock) \in {"load", "body", "store"}
    /\ Sound(records) /\ RecordsKept /\ DecisionsHaveText

RecordsInv == Global /\ \A p \in Clerks : Private(p) /\ Shared(p)

-----------------------------------------------------------------------------

LEMMA TailOf4 ==
    ASSUME NEW a, NEW b, NEW c, NEW d
    PROVE  Head(<<a, b, c, d>>) = a /\ Tail(<<a, b, c, d>>) = <<b, c, d>> /\ <<a, b, c, d>> # <<>>
  OBVIOUS

LEMMA TailOf3 ==
    ASSUME NEW a, NEW b, NEW c
    PROVE  Head(<<a, b, c>>) = a /\ Tail(<<a, b, c>>) = <<b, c>> /\ <<a, b, c>> # <<>>
  OBVIOUS

LEMMA TailOf2 ==
    ASSUME NEW a, NEW b
    PROVE  Head(<<a, b>>) = a /\ Tail(<<a, b>>) = <<b>> /\ <<a, b>> # <<>>
  OBVIOUS

LEMMA TailOf1 ==
    ASSUME NEW a
    PROVE  Head(<<a>>) = a /\ Tail(<<a>>) = <<>> /\ <<a>> # <<>>
  OBVIOUS

(* The steps of a command, one after the other.                            *)
LEMMA TodoSteps ==
    ASSUME registry \in {"adr", "debt", "crm", "rules"}, NEW op \in Operations,
           NEW t \in Todos(op)
    PROVE  /\ t # <<>>
           /\ Head(t) = "get" => op = "set" /\ registry # "rules"
                /\ Tail(t) \in Todos(op) /\ Tail(t) # <<>>
                /\ Head(Tail(t)) = IF registry = "adr" THEN "lock" ELSE "load"
           /\ Head(t) = "draw" => op = "add" /\ registry \in {"debt", "crm"}
                /\ Tail(t) \in Todos(op) /\ Tail(t) # <<>> /\ Head(Tail(t)) = "load"
           /\ Head(t) = "lock" => registry = "adr"
                /\ Tail(t) \in Todos(op) /\ Tail(t) # <<>> /\ Head(Tail(t)) = "load"
           /\ Head(t) = "load" =>
                /\ Tail(t) \in Todos(op) /\ Tail(t) # <<>>
                /\ Head(Tail(t)) = IF registry = "adr" /\ op = "add" THEN "body" ELSE "store"
           /\ Head(t) = "body" => registry = "adr" /\ op = "add"
                /\ Tail(t) \in Todos(op) /\ Tail(t) # <<>> /\ Head(Tail(t)) = "store"
           /\ Head(t) \in {"get", "draw", "lock", "load", "body", "store"}
  <1>1. CASE registry = "adr" /\ op = "add"
    <2>1. Todos(op) = {<<"lock", "load", "body", "store">>, <<"load", "body", "store">>, <<"body", "store">>, <<"store">>}
      BY <1>1 DEF Todos, Operations
    <2>2. CASE t = <<"lock", "load", "body", "store">>
      <3>1. Head(t) = "lock" /\ Tail(t) = <<"load", "body", "store">> /\ t # <<>>
        BY <2>2, TailOf4
      <3>2. Head(Tail(t)) = "load" /\ Tail(t) # <<>> /\ Tail(t) \in Todos(op)
        BY <2>1, <3>1, TailOf3
      <3>3. QED  BY <1>1, <3>1, <3>2
    <2>3. CASE t = <<"load", "body", "store">>
      <3>1. Head(t) = "load" /\ Tail(t) = <<"body", "store">> /\ t # <<>>
        BY <2>3, TailOf3
      <3>2. Head(Tail(t)) = "body" /\ Tail(t) # <<>> /\ Tail(t) \in Todos(op)
        BY <2>1, <3>1, TailOf2
      <3>3. QED  BY <1>1, <3>1, <3>2
    <2>4. CASE t = <<"body", "store">>
      <3>1. Head(t) = "body" /\ Tail(t) = <<"store">> /\ t # <<>>
        BY <2>4, TailOf2
      <3>2. Head(Tail(t)) = "store" /\ Tail(t) # <<>> /\ Tail(t) \in Todos(op)
        BY <2>1, <3>1, TailOf1
      <3>3. QED  BY <1>1, <3>1, <3>2
    <2>5. CASE t = <<"store">>
      <3>1. Head(t) = "store" /\ t # <<>>
        BY <2>5, TailOf1
      <3>2. QED  BY <3>1
    <2>6. QED  BY <2>1, <2>2, <2>3, <2>4, <2>5
  <1>2. CASE registry = "adr" /\ op = "set"
    <2>1. Todos(op) = {<<"get", "lock", "load", "store">>, <<"lock", "load", "store">>, <<"load", "store">>, <<"store">>}
      BY <1>2 DEF Todos, Operations
    <2>2. CASE t = <<"get", "lock", "load", "store">>
      <3>1. Head(t) = "get" /\ Tail(t) = <<"lock", "load", "store">> /\ t # <<>>
        BY <2>2, TailOf4
      <3>2. Head(Tail(t)) = "lock" /\ Tail(t) # <<>> /\ Tail(t) \in Todos(op)
        BY <2>1, <3>1, TailOf3
      <3>3. QED  BY <1>2, <3>1, <3>2
    <2>3. CASE t = <<"lock", "load", "store">>
      <3>1. Head(t) = "lock" /\ Tail(t) = <<"load", "store">> /\ t # <<>>
        BY <2>3, TailOf3
      <3>2. Head(Tail(t)) = "load" /\ Tail(t) # <<>> /\ Tail(t) \in Todos(op)
        BY <2>1, <3>1, TailOf2
      <3>3. QED  BY <1>2, <3>1, <3>2
    <2>4. CASE t = <<"load", "store">>
      <3>1. Head(t) = "load" /\ Tail(t) = <<"store">> /\ t # <<>>
        BY <2>4, TailOf2
      <3>2. Head(Tail(t)) = "store" /\ Tail(t) # <<>> /\ Tail(t) \in Todos(op)
        BY <2>1, <3>1, TailOf1
      <3>3. QED  BY <1>2, <3>1, <3>2
    <2>5. CASE t = <<"store">>
      <3>1. Head(t) = "store" /\ t # <<>>
        BY <2>5, TailOf1
      <3>2. QED  BY <3>1
    <2>6. QED  BY <2>1, <2>2, <2>3, <2>4, <2>5
  <1>3. CASE registry \in {"debt", "crm"} /\ op = "add"
    <2>1. Todos(op) = {<<"draw", "load", "store">>, <<"load", "store">>, <<"store">>}
      BY <1>3 DEF Todos, Operations
    <2>2. CASE t = <<"draw", "load", "store">>
      <3>1. Head(t) = "draw" /\ Tail(t) = <<"load", "store">> /\ t # <<>>
        BY <2>2, TailOf3
      <3>2. Head(Tail(t)) = "load" /\ Tail(t) # <<>> /\ Tail(t) \in Todos(op)
        BY <2>1, <3>1, TailOf2
      <3>3. QED  BY <1>3, <3>1, <3>2
    <2>3. CASE t = <<"load", "store">>
      <3>1. Head(t) = "load" /\ Tail(t) = <<"store">> /\ t # <<>>
        BY <2>3, TailOf2
      <3>2. Head(Tail(t)) = "store" /\ Tail(t) # <<>> /\ Tail(t) \in Todos(op)
        BY <2>1, <3>1, TailOf1
      <3>3. QED  BY <1>3, <3>1, <3>2
    <2>4. CASE t = <<"store">>
      <3>1. Head(t) = "store" /\ t # <<>>
        BY <2>4, TailOf1
      <3>2. QED  BY <3>1
    <2>5. QED  BY <2>1, <2>2, <2>3, <2>4
  <1>4. CASE registry \in {"debt", "crm"} /\ op = "set"
    <2>1. Todos(op) = {<<"get", "load", "store">>, <<"load", "store">>, <<"store">>}
      BY <1>4 DEF Todos, Operations
    <2>2. CASE t = <<"get", "load", "store">>
      <3>1. Head(t) = "get" /\ Tail(t) = <<"load", "store">> /\ t # <<>>
        BY <2>2, TailOf3
      <3>2. Head(Tail(t)) = "load" /\ Tail(t) # <<>> /\ Tail(t) \in Todos(op)
        BY <2>1, <3>1, TailOf2
      <3>3. QED  BY <1>4, <3>1, <3>2
    <2>3. CASE t = <<"load", "store">>
      <3>1. Head(t) = "load" /\ Tail(t) = <<"store">> /\ t # <<>>
        BY <2>3, TailOf2
      <3>2. Head(Tail(t)) = "store" /\ Tail(t) # <<>> /\ Tail(t) \in Todos(op)
        BY <2>1, <3>1, TailOf1
      <3>3. QED  BY <1>4, <3>1, <3>2
    <2>4. CASE t = <<"store">>
      <3>1. Head(t) = "store" /\ t # <<>>
        BY <2>4, TailOf1
      <3>2. QED  BY <3>1
    <2>5. QED  BY <2>1, <2>2, <2>3, <2>4
  <1>5. CASE registry = "rules"
    <2>1. Todos(op) = {<<"load", "store">>, <<"store">>}
      BY <1>5 DEF Todos, Operations
    <2>2. CASE t = <<"load", "store">>
      <3>1. Head(t) = "load" /\ Tail(t) = <<"store">> /\ t # <<>>
        BY <2>2, TailOf2
      <3>2. Head(Tail(t)) = "store" /\ Tail(t) # <<>> /\ Tail(t) \in Todos(op)
        BY <2>1, <3>1, TailOf1
      <3>3. QED  BY <1>5, <3>1, <3>2
    <2>3. CASE t = <<"store">>
      <3>1. Head(t) = "store" /\ t # <<>>
        BY <2>3, TailOf1
      <3>2. QED  BY <3>1
    <2>4. QED  BY <2>1, <2>2, <2>3
  <1>6. QED
    <2>1. op = "add" \/ op = "set" \/ registry = "rules"
      BY DEF Operations
    <2>2. QED  BY <1>1, <1>2, <1>3, <1>4, <1>5, <2>1

LEMMA FirstSteps ==
    ASSUME registry \in {"adr", "debt", "crm", "rules"}, NEW op \in Operations
    PROVE  /\ StepsOf(op) \in Todos(op) /\ StepsOf(op) # <<>>
           /\ Head(StepsOf(op)) \in {"get", "draw", "lock", "load"}
           /\ registry = "adr" => Head(StepsOf(op)) # "load"
           /\ op = "set" => Head(StepsOf(op)) = "get"
           /\ registry \in {"debt", "crm"} /\ op = "add" => Head(StepsOf(op)) = "draw"
           /\ registry = "adr" /\ op = "add" => Head(StepsOf(op)) = "lock"
  <1> USE DEF Operations, Todos, StepsOf
  <1>1. CASE registry = "adr" /\ op = "add"
    BY <1>1
  <1>2. CASE registry = "adr" /\ op = "set"
    BY <1>2
  <1>3. CASE registry \in {"debt", "crm"} /\ op = "add"
    BY <1>3
  <1>4. CASE registry \in {"debt", "crm"} /\ op = "set"
    BY <1>4
  <1>5. CASE registry = "rules"
    BY <1>5
  <1>6. QED  BY <1>1, <1>2, <1>3, <1>4, <1>5

LEMMA RegistryIsOne == registry \in Registries => registry \in {"adr", "debt", "crm", "rules"}
  BY RecordsAssumption

(* The numbers go no further than commands have drawn one.                 *)
LEMMA LimitGrows ==
    ASSUME commands \in Nat, Limit \in Nat, registry' = registry, commands' \in Nat,
           NEW p \in Clerks,
           \/ commands' = commands /\ Undrawn' \subseteq Undrawn
           \/ commands' = commands + 1 /\ Undrawn' \subseteq Undrawn \cup {p}
    PROVE  /\ Limit' \in Nat /\ Limit' >= Limit /\ InUse \subseteq InUse'
           /\ commands' = commands /\ p \in Undrawn \ Undrawn' => Limit' >= Limit + 1
  <1>1. /\ IsFiniteSet(Clerks) /\ IsFiniteSet(Undrawn) /\ IsFiniteSet(Undrawn')
        /\ Cardinality(Undrawn) \in Nat /\ Cardinality(Undrawn') \in Nat
    <2>1. IsFiniteSet(Clerks) /\ Undrawn \subseteq Clerks /\ Undrawn' \subseteq Clerks
      BY RecordsAssumption DEF Undrawn
    <2>2. QED  BY <2>1, FS_Subset, FS_CardinalityType
  <1>2. Limit = commands - Cardinality(Undrawn) /\ Limit' = commands' - Cardinality(Undrawn')
    BY DEF Limit
  <1>3. CASE commands' = commands /\ Undrawn' \subseteq Undrawn
    <2>1. Cardinality(Undrawn') <= Cardinality(Undrawn)
      BY <1>1, <1>3, FS_Subset
    <2>2. p \in Undrawn \ Undrawn' => Cardinality(Undrawn') <= Cardinality(Undrawn) - 1
      <3>1. CASE p \in Undrawn \ Undrawn'
        <4>1. Undrawn' \subseteq Undrawn \ {p} /\ IsFiniteSet(Undrawn \ {p})
              /\ Cardinality(Undrawn \ {p}) = Cardinality(Undrawn) - 1
          BY <1>1, <1>3, <3>1, FS_RemoveElement
        <4>2. QED  BY <4>1, FS_Subset
      <3>2. QED  BY <3>1
    <2>3. Limit' \in Nat /\ Limit' >= Limit /\ (p \in Undrawn \ Undrawn' => Limit' >= Limit + 1)
      BY <1>1, <1>2, <1>3, <2>1, <2>2
    <2>4. QED  BY <2>3 DEF InUse
  <1>4. CASE commands' = commands + 1 /\ Undrawn' \subseteq Undrawn \cup {p}
    <2>1. Cardinality(Undrawn') <= Cardinality(Undrawn) + 1
      <3>1. IsFiniteSet(Undrawn \cup {p}) /\ Cardinality(Undrawn \cup {p}) <= Cardinality(Undrawn) + 1
        <4>1. /\ IsFiniteSet(Undrawn \cup {p})
              /\ Cardinality(Undrawn \cup {p}) \in {Cardinality(Undrawn), Cardinality(Undrawn) + 1}
          BY <1>1, FS_AddElement
        <4>2. QED  BY <1>1, <4>1
      <3>2. Cardinality(Undrawn') <= Cardinality(Undrawn \cup {p}) /\ Cardinality(Undrawn \cup {p}) \in Nat
        BY <1>4, <3>1, FS_Subset, FS_CardinalityType
      <3>3. QED  BY <1>1, <3>1, <3>2
    <2>2. Limit' \in Nat /\ Limit' >= Limit
      BY <1>1, <1>2, <1>4, <2>1
    <2>3. QED  BY <1>4, <2>2 DEF InUse
  <1>5. QED  BY <1>3, <1>4

(* A process without a command.                                            *)
LEMMA NowAtRest ==
    ASSUME NEW p \in Clerks, clerk'[p] = AtRest
    PROVE  Private(p)' /\ Shared(p)' /\ At(p)' = "none" /\ p \notin Undrawn'
  <1>1. At(p)' = "none" /\ clerk'[p].read = {} /\ clerk'[p].op = "none"
    BY DEF At, AtRest
  <1>2. QED  BY <1>1 DEF Private, Shared, Undrawn, Texted

LEMMA AtRestHolds ==
    ASSUME NEW p \in Clerks, clerk[p] = AtRest
    PROVE  Private(p) /\ Shared(p) /\ At(p) = "none" /\ p \notin Undrawn
  <1>1. At(p) = "none" /\ clerk[p].read = {} /\ clerk[p].op = "none"
    BY DEF At, AtRest
  <1>2. QED  BY <1>1 DEF Private, Shared, Undrawn, Texted

(* Another process's step.                                                 *)
LEMMA PrivateOther ==
    ASSUME NEW q \in Clerks, Private(q), clerk'[q] = clerk[q], registry' = registry,
           InUse \subseteq InUse'
    PROVE  Private(q)' /\ At(q)' = At(q) /\ (q \in Undrawn' <=> q \in Undrawn)
  <1>1. At(q)' = At(q) /\ (q \in Undrawn' <=> q \in Undrawn)
    BY DEF At, Undrawn
  <1>2. CASE clerk[q] = AtRest
    BY <1>1, <1>2 DEF Private
  <1>3. CASE clerk[q] # AtRest
    <2>1. Operations' = Operations /\ Todos(clerk[q].op)' = Todos(clerk[q].op)
      BY DEF Operations, Todos
    <2>2. /\ RecordsOf(InUse) \subseteq RecordsOf(InUse')
          /\ RecordsOf(InUse \cup {0}) \subseteq RecordsOf(InUse' \cup {0})
      BY DEF RecordsOf
    <2>3. Sound(clerk[q].read) => Sound(clerk[q].read)'
      BY <2>2 DEF Sound
    <2>4. clerk'[q] \in [op : Operations', todo : Todos(clerk[q].op)', read : SUBSET RecordsOf(InUse'),
                         record : RecordsOf(InUse' \cup {0}), by : Nat]
      BY <1>3, <2>1, <2>2 DEF Private
    <2>5. QED  BY <1>1, <1>3, <2>3, <2>4 DEF Private
  <1>4. QED  BY <1>1, <1>2, <1>3

LEMMA SharedOther ==
    ASSUME NEW q \in Clerks, Shared(q), clerk'[q] = clerk[q],
           UNCHANGED <<registry, records>>, bodies \subseteq bodies', overlapped' \in {overlapped, TRUE},
           registry = "adr" /\ lock = q => lock' = q
    PROVE  Shared(q)'
  <1>1. At(q)' = At(q)
    BY DEF At
  <1>2. Texted(clerk[q].read) => Texted(clerk[q].read)'
    BY DEF Texted
  <1>3. QED  BY <1>1, <1>2 DEF Shared

LEMMA GlobalKept ==
    ASSUME Global, UNCHANGED <<registry, records, booked>>, bodies \subseteq bodies',
           overlapped' \in {overlapped, TRUE}, InUse \subseteq InUse'
    PROVE  Sound(records)' /\ RecordsKept' /\ DecisionsHaveText'
  <1>1. Sound(records)'
    BY DEF Global, Sound, RecordsOf
  <1>2. QED  BY <1>1 DEF Global, RecordsKept, DecisionsHaveText

LEMMA ChangedSound ==
    ASSUME NEW R, Sound(R), NEW op, NEW r \in RecordsOf(InUse), op = "add" => r.id \notin RecordIds(R)
    PROVE  Sound(Changed(op, R, r))
  <1>1. CASE op = "add"
    BY <1>1 DEF Changed, AddTo, Sound, RecordIds
  <1>2. CASE op = "set"
    <2>1. Changed(op, R, r) = (R \ Of(R, r.id)) \cup {r}
      BY <1>2 DEF Changed, UpdateIn
    <2>2. \A s \in R \ Of(R, r.id) : s.id # r.id
      BY DEF Of
    <2>3. QED  BY <2>1, <2>2 DEF Sound
  <1>3. CASE op \notin {"add", "set"}
    <2>1. Changed(op, R, r) \subseteq R
      BY <1>3 DEF Changed, RemoveFrom
    <2>2. QED  BY <2>1 DEF Sound
  <1>4. QED  BY <1>1, <1>2, <1>3

(* A command under way, and its next steps.                                *)
LEMMA UnderWay ==
    ASSUME Global, NEW p \in Clerks, Private(p), At(p) # "none"
    PROVE  /\ clerk[p] \in [op : Operations, todo : Todos(clerk[p].op), read : SUBSET RecordsOf(InUse),
                             record : RecordsOf(InUse \cup {0}), by : Nat]
           /\ clerk[p].todo # <<>> /\ At(p) = Head(clerk[p].todo)
           /\ Sound(clerk[p].read)
           /\ p \notin Undrawn => clerk[p].record.id \in InUse
           /\ clerk[p].op = "add" =>
                /\ clerk[p].record.made = clerk[p].by
                /\ At(p) \in {"body", "store"} => clerk[p].record.id \notin RecordIds(clerk[p].read)
           /\ At(p) \in {"get", "draw", "lock", "load", "body", "store"}
           /\ At(p) = "get" => clerk[p].op = "set" /\ registry # "rules"
           /\ At(p) = "draw" => clerk[p].op = "add" /\ registry \in {"debt", "crm"}
           /\ At(p) = "lock" => registry = "adr"
           /\ At(p) = "body" => registry = "adr" /\ clerk[p].op = "add"
           /\ At(p) # "store" => Tail(clerk[p].todo) \in Todos(clerk[p].op) /\ Tail(clerk[p].todo) # <<>>
           /\ At(p) = "get" => Head(Tail(clerk[p].todo)) = IF registry = "adr" THEN "lock" ELSE "load"
           /\ At(p) \in {"draw", "lock"} => Head(Tail(clerk[p].todo)) = "load"
           /\ At(p) = "load" => Head(Tail(clerk[p].todo)) =
                IF registry = "adr" /\ clerk[p].op = "add" THEN "body" ELSE "store"
           /\ At(p) = "body" => Head(Tail(clerk[p].todo)) = "store"
  <1>1. registry \in {"adr", "debt", "crm", "rules"}
    BY RegistryIsOne DEF Global
  <1>2. clerk[p] # AtRest
    BY AtRestHolds
  <1>3. /\ clerk[p] \in [op : Operations, todo : Todos(clerk[p].op), read : SUBSET RecordsOf(InUse),
                          record : RecordsOf(InUse \cup {0}), by : Nat]
        /\ Sound(clerk[p].read)
        /\ p \notin Undrawn => clerk[p].record.id \in InUse
        /\ clerk[p].op = "add" =>
            /\ clerk[p].record.made = clerk[p].by
            /\ At(p) \in {"body", "store"} => clerk[p].record.id \notin RecordIds(clerk[p].read)
    BY <1>2 DEF Private
  <1>4. clerk[p].op \in Operations /\ clerk[p].todo \in Todos(clerk[p].op)
    BY <1>3
  <1>5. clerk[p].todo # <<>> /\ At(p) = Head(clerk[p].todo)
    BY <1>1, <1>4, TodoSteps DEF At
  <1>6. QED  BY <1>1, <1>3, <1>4, <1>5, TodoSteps

(* The next step of a command with what it has loaded and its record.      *)
LEMMA PrivateNext ==
    ASSUME Global, NEW p \in Clerks, Private(p), At(p) \notin {"none", "store"},
           registry' = registry, clerk'[p].op = clerk[p].op, clerk'[p].todo = Tail(clerk[p].todo),
           clerk'[p].by = clerk[p].by, clerk'[p].read \in SUBSET RecordsOf(InUse'),
           clerk'[p].record \in RecordsOf(InUse' \cup {0}), Sound(clerk[p].read)',
           clerk'[p] = [op |-> clerk'[p].op, todo |-> clerk'[p].todo, read |-> clerk'[p].read,
                        record |-> clerk'[p].record, by |-> clerk'[p].by],
           p \notin Undrawn' => clerk'[p].record.id \in InUse',
           clerk[p].op = "add" =>
             /\ clerk'[p].record.made = clerk[p].by
             /\ At(p)' \in {"body", "store"} => clerk'[p].record.id \notin RecordIds(clerk[p].read)'
    PROVE  Private(p)'
  <1>1. /\ clerk[p].op \in Operations /\ clerk[p].by \in Nat
        /\ Tail(clerk[p].todo) \in Todos(clerk[p].op)
    BY UnderWay
  <1>2. Operations' = Operations /\ Todos(clerk[p].op)' = Todos(clerk[p].op)
    BY DEF Operations, Todos
  <1>3. clerk'[p] \in [op : Operations', todo : Todos(clerk[p].op)', read : SUBSET RecordsOf(InUse'),
                       record : RecordsOf(InUse' \cup {0}), by : Nat]
    BY <1>1, <1>2
  <1>4. RecordsOf(InUse)' = RecordsOf(InUse') /\ RecordsOf(InUse \cup {0})' = RecordsOf(InUse' \cup {0})
    BY DEF RecordsOf
  <1>5. QED  BY <1>3, <1>4 DEF Private

(* A step that changes one command and not the file.                       *)
LEMMA NumbersGoOn ==
    ASSUME RecordsInv, NEW p \in Clerks, registry' = registry,
           \A q \in Clerks \ {p} : clerk'[q] = clerk[q],
           \/ commands' = commands /\ (p \in Undrawn' => p \in Undrawn)
           \/ commands' = commands + 1
    PROVE  /\ Limit' \in Nat /\ Limit' >= Limit /\ InUse \subseteq InUse'
           /\ commands' = commands /\ p \in Undrawn \ Undrawn' => Limit' >= Limit + 1
  <1>1. \A q \in Clerks \ {p} : q \in Undrawn' <=> q \in Undrawn
    BY DEF Undrawn, At
  <1>2. Undrawn' \subseteq Clerks /\ Undrawn \subseteq Clerks
    BY DEF Undrawn
  <1>3. commands \in Nat /\ Limit \in Nat
    BY RecordsAssumption DEF RecordsInv, Global
  <1>4. CASE commands' = commands /\ (p \in Undrawn' => p \in Undrawn)
    <2>1. Undrawn' \subseteq Undrawn
      BY <1>1, <1>2, <1>4
    <2>2. QED  BY <1>3, <1>4, <2>1, LimitGrows
  <1>5. CASE commands' = commands + 1
    <2>1. Undrawn' \subseteq Undrawn \cup {p}
      BY <1>1, <1>2
    <2>2. QED  BY <1>3, <1>5, <2>1, LimitGrows
  <1>6. QED  BY <1>4, <1>5

LEMMA StepKeeps ==
    ASSUME RecordsInv, NEW p \in Clerks, UNCHANGED <<registry, records, booked>>,
           DOMAIN clerk' = Clerks, \A q \in Clerks \ {p} : clerk'[q] = clerk[q],
           bodies \subseteq bodies', overlapped' \in {overlapped, TRUE},
           \/ commands' = commands /\ (p \in Undrawn' => p \in Undrawn)
           \/ commands' = commands + 1 /\ commands' <= MaxCommands,
           \/ lock' = lock /\ (lock = p => At(p)' \in {"load", "body", "store"})
           \/ lock = "free" /\ lock' = p /\ registry = "adr" /\ At(p)' \in {"load", "body", "store"}
           \/ lock = p /\ lock' = "free",
           Private(p)', Shared(p)'
    PROVE  RecordsInv'
  <1>0. Global /\ \A q \in Clerks : Private(q) /\ Shared(q)
    BY DEF RecordsInv
  <1>1. Limit' \in Nat /\ InUse \subseteq InUse'
    BY NumbersGoOn
  <1>2. \A q \in Clerks \ {p} : Private(q)' /\ At(q)' = At(q)
    BY <1>0, <1>1, PrivateOther
  <1>3. ASSUME NEW q \in Clerks \ {p} PROVE Shared(q)'
    <2>1. registry = "adr" /\ lock = q => lock' = q
      BY RecordsAssumption
    <2>2. QED  BY <1>0, <2>1, SharedOther
  <1>4. Sound(records)' /\ RecordsKept' /\ DecisionsHaveText'
    BY <1>0, <1>1, GlobalKept
  <1>5. commands' \in 0 .. MaxCommands
    BY <1>0, RecordsAssumption DEF Global
  <1>6. /\ lock' \in Clerks \cup {"free"}
        /\ lock' # "free" => registry' = "adr" /\ At(lock)' \in {"load", "body", "store"}
    <2>1. CASE lock' = lock /\ (lock = p => At(p)' \in {"load", "body", "store"})
      BY <1>0, <1>2, <2>1 DEF Global
    <2>2. CASE lock = "free" /\ lock' = p /\ registry = "adr" /\ At(p)' \in {"load", "body", "store"}
      BY <2>2
    <2>3. CASE lock = p /\ lock' = "free"
      BY <2>3
    <2>4. QED  BY <2>1, <2>2, <2>3
  <1>7. Global'
    BY <1>0, <1>1, <1>4, <1>5, <1>6 DEF Global
  <1>8. QED  BY <1>2, <1>3, <1>7 DEF RecordsInv

LEMMA IssueKeeps ==
    ASSUME RecordsInv, NEW p \in Clerks, NEW op \in Operations, NEW i, Issue(p, op, i),
           i \in IF registry = "rules" THEN RuleNames
                 ELSE IF op = "add" THEN {0} ELSE RecordIds(records)
    PROVE  RecordsInv'
  <1>0. Global /\ registry \in {"adr", "debt", "crm", "rules"} /\ commands \in Nat
    BY RegistryIsOne, RecordsAssumption DEF RecordsInv, Global
  <1>1. /\ At(p) = "none" /\ commands' = commands + 1 /\ commands' <= MaxCommands
        /\ UNCHANGED <<registry, records, bodies, lock, booked, overlapped>>
        /\ DOMAIN clerk' = Clerks /\ \A q \in Clerks \ {p} : clerk'[q] = clerk[q]
        /\ clerk'[p] = [op |-> op, todo |-> StepsOf(op), read |-> {},
                        record |-> Record(i, commands + 1, commands + 1), by |-> commands + 1]
    BY <1>0, RecordsAssumption DEF Issue, Global
  <1>2. InUse \subseteq InUse'
    BY <1>1, NumbersGoOn
  <1>3. /\ clerk'[p].op = op /\ clerk'[p].todo = StepsOf(op) /\ clerk'[p].read = {}
        /\ clerk'[p].by = commands + 1 /\ clerk'[p].record = Record(i, commands + 1, commands + 1)
    BY <1>1
  <1>4. At(p)' = Head(StepsOf(op))
    BY <1>0, <1>3, FirstSteps DEF At
  <1>5. /\ i \in InUse' \cup {0}
        /\ registry = "rules" \/ op = "set" => i \in InUse'
    <2>1. RecordIds(records) \subseteq InUse
      BY <1>0 DEF Global, Sound, RecordsOf, RecordIds
    <2>2. registry = "rules" => InUse' = RuleNames
      BY <1>1 DEF InUse
    <2>3. registry # "rules" => op \in {"add", "set"}
      BY DEF Operations
    <2>4. QED  BY <1>2, <2>1, <2>2, <2>3
  <1>6. Record(i, commands + 1, commands + 1) \in RecordsOf(InUse' \cup {0})
        /\ Record(i, commands + 1, commands + 1).id = i
        /\ Record(i, commands + 1, commands + 1).made = commands + 1
    BY <1>0, <1>5 DEF Record, RecordsOf
  <1>7. op = "add" /\ registry # "rules" => p \in Undrawn'
    BY <1>0, <1>1, <1>3, <1>4, FirstSteps DEF Undrawn
  <1>8. Private(p)'
    <2>1. Operations' = Operations /\ Todos(op)' = Todos(op) /\ StepsOf(op) \in Todos(op)
      BY <1>0, <1>1, FirstSteps DEF Operations, Todos
    <2>2. clerk'[p] \in [op : Operations', todo : Todos(op)', read : SUBSET RecordsOf(InUse'),
                         record : RecordsOf(InUse' \cup {0}), by : Nat]
      BY <1>0, <1>1, <1>6, <2>1
    <2>3. Sound(clerk[p].read)'
      BY <1>3 DEF Sound
    <2>4. p \notin Undrawn' => clerk'[p].record.id \in InUse'
      <3>1. p \notin Undrawn' => registry = "rules" \/ op = "set"
        BY <1>7 DEF Operations
      <3>2. QED  BY <1>3, <1>5, <1>6, <3>1
    <2>5. At(p)' \notin {"body", "store"} /\ (op = "add" => clerk'[p].record.made = clerk'[p].by)
      BY <1>0, <1>3, <1>4, <1>6, FirstSteps
    <2>6. RecordsOf(InUse)' = RecordsOf(InUse') /\ RecordsOf(InUse \cup {0})' = RecordsOf(InUse' \cup {0})
      BY DEF RecordsOf
    <2>7. QED  BY <1>3, <2>2, <2>3, <2>4, <2>5, <2>6 DEF Private
  <1>9. Shared(p)'
    <2>1. At(p)' \notin {"body", "store"} /\ (registry = "adr" => At(p)' # "load")
          /\ (op = "set" => At(p)' = "get")
      BY <1>0, <1>4, FirstSteps
    <2>2. Texted(clerk[p].read)'
      BY <1>3 DEF Texted
    <2>3. QED  BY <1>1, <1>3, <2>1, <2>2 DEF Shared
  <1>10. lock # p
    BY <1>0, <1>1, RecordsAssumption DEF Global
  <1>11. QED  BY <1>1, <1>8, <1>9, <1>10, StepKeeps

LEMMA GetKeeps ==
    ASSUME RecordsInv, NEW p \in Clerks, Get(p)
    PROVE  RecordsInv'
  <1>0. Global /\ Private(p) /\ Shared(p) /\ registry \in {"adr", "debt", "crm", "rules"}
    BY RegistryIsOne DEF RecordsInv, Global
  <1> DEFINE found == Of(records, clerk[p].record.id)
             r == CHOOSE r \in found : TRUE
  <1>1. /\ At(p) = "get" /\ UNCHANGED <<registry, records, bodies, lock, commands, booked, overlapped>>
        /\ clerk' = [clerk EXCEPT ![p] =
             IF found = {} \/ (registry = "debt" /\ r.status # r.made) THEN AtRest
             ELSE [NextStep(p) EXCEPT !.record = [r EXCEPT !.status = clerk[p].by]]]
    BY DEF Get
  <1>2. DOMAIN clerk = Clerks /\ DOMAIN clerk' = Clerks /\ \A q \in Clerks \ {p} : clerk'[q] = clerk[q]
    BY <1>0, <1>1 DEF Global
  <1>3. lock # p
    BY <1>0, <1>1, RecordsAssumption DEF Global
  <1>4. CASE clerk'[p] = AtRest
    <2>1. Private(p)' /\ Shared(p)' /\ p \notin Undrawn'
      BY <1>4, NowAtRest
    <2>2. QED  BY <1>1, <1>2, <1>3, <2>1, StepKeeps
  <1>5. CASE clerk'[p] # AtRest
    <2>1. found # {} /\ clerk'[p] = [NextStep(p) EXCEPT !.record = [r EXCEPT !.status = clerk[p].by]]
      BY <1>0, <1>1, <1>5 DEF Global
    <2>2. r \in records /\ r \in RecordsOf(InUse)
      <3>1. r \in found
        BY <2>1
      <3>2. QED  BY <1>0, <3>1 DEF Of, Global, Sound
    <2> DEFINE s == [r EXCEPT !.status = clerk[p].by]
    <2> HIDE DEF r, found
    <2>3. /\ clerk[p] \in [op : Operations, todo : Todos(clerk[p].op), read : SUBSET RecordsOf(InUse),
                            record : RecordsOf(InUse \cup {0}), by : Nat]
          /\ Sound(clerk[p].read) /\ clerk[p].todo # <<>> /\ clerk[p].op = "set"
          /\ Tail(clerk[p].todo) # <<>> /\ Head(Tail(clerk[p].todo)) \in {"lock", "load"}
          /\ registry = "adr" => Head(Tail(clerk[p].todo)) = "lock"
      BY <1>0, <1>1, UnderWay
    <2>4. s \in RecordsOf(InUse) /\ s.id = r.id /\ s.made = r.made
      BY <2>2, <2>3 DEF RecordsOf
    <2> HIDE DEF s
    <2>5. clerk'[p] = [op |-> clerk[p].op, todo |-> Tail(clerk[p].todo), read |-> clerk[p].read,
                       record |-> s, by |-> clerk[p].by]
      BY <2>1, <2>3 DEF NextStep, s
    <2>6. /\ clerk'[p].op = "set" /\ clerk'[p].todo = Tail(clerk[p].todo)
          /\ clerk'[p].read = clerk[p].read /\ clerk'[p].record = s /\ clerk'[p].by = clerk[p].by
      BY <2>3, <2>5
    <2>7. At(p)' = Head(Tail(clerk[p].todo))
      BY <2>3, <2>6 DEF At
    <2>8. p \notin Undrawn'
      BY <2>6 DEF Undrawn
    <2>9. InUse \subseteq InUse'
      BY <1>1, <1>2, <2>8, NumbersGoOn
    <2>10. Private(p)'
      <3>1. RecordsOf(InUse) \subseteq RecordsOf(InUse') /\ RecordsOf(InUse) \subseteq RecordsOf(InUse' \cup {0})
            /\ s.id \in InUse'
        BY <2>4, <2>9 DEF RecordsOf
      <3>2. Sound(clerk[p].read)'
        BY <2>3, <2>6, <3>1 DEF Sound, RecordsOf
      <3>3. QED  BY <1>0, <1>1, <2>3, <2>4, <2>5, <2>6, <2>8, <3>1, <3>2, PrivateNext
    <2>11. Shared(p)'
      <3>1. registry = "adr" => <<s.id, s.made>> \in bodies
        BY <1>0, <2>2, <2>4 DEF Global, DecisionsHaveText
      <3>2. registry = "adr" => Texted(clerk[p].read)'
        BY <1>0, <1>1, <2>6 DEF Shared, Texted
      <3>3. At(p)' \notin {"body", "store"} /\ (registry = "adr" => At(p)' # "load")
        BY <2>3, <2>7
      <3>4. clerk'[p].record.id = s.id /\ clerk'[p].record.made = s.made
            /\ bodies' = bodies /\ registry' = registry
        BY <1>1, <2>6
      <3>5. registry' = "adr" => <<clerk'[p].record.id, clerk'[p].record.made>> \in bodies'
        BY <3>1, <3>4
      <3>6. QED  BY <3>2, <3>3, <3>4, <3>5 DEF Shared
    <2>12. QED  BY <1>1, <1>2, <1>3, <2>8, <2>10, <2>11, StepKeeps
  <1>6. QED  BY <1>4, <1>5

LEMMA DrawKeeps ==
    ASSUME RecordsInv, NEW p \in Clerks, Draw(p)
    PROVE  RecordsInv'
  <1>0. Global /\ Private(p) /\ Shared(p) /\ registry \in {"adr", "debt", "crm", "rules"}
    BY RegistryIsOne DEF RecordsInv, Global
  <1>1. /\ At(p) = "draw" /\ UNCHANGED <<registry, records, bodies, lock, commands, booked, overlapped>>
        /\ clerk' = [clerk EXCEPT ![p] = [NextStep(p) EXCEPT !.record.id = NextID(records)]]
    BY DEF Draw
  <1>2. /\ DOMAIN clerk' = Clerks /\ \A q \in Clerks \ {p} : clerk'[q] = clerk[q]
        /\ clerk'[p] = [NextStep(p) EXCEPT !.record.id = NextID(records)]
    BY <1>0, <1>1 DEF Global
  <1>3. lock # p
    BY <1>0, <1>1, RecordsAssumption DEF Global
  <1> DEFINE s == [clerk[p].record EXCEPT !.id = NextID(records)]
  <1>4. /\ clerk[p] \in [op : Operations, todo : Todos(clerk[p].op), read : SUBSET RecordsOf(InUse),
                          record : RecordsOf(InUse \cup {0}), by : Nat]
        /\ Sound(clerk[p].read) /\ clerk[p].todo # <<>> /\ clerk[p].op = "add"
        /\ clerk[p].record.made = clerk[p].by
        /\ Tail(clerk[p].todo) # <<>> /\ Head(Tail(clerk[p].todo)) = "load"
        /\ registry \in {"debt", "crm"}
    BY <1>0, <1>1, UnderWay
  <1>5. clerk'[p] = [op |-> clerk[p].op, todo |-> Tail(clerk[p].todo), read |-> clerk[p].read,
                     record |-> s, by |-> clerk[p].by]
    BY <1>2, <1>4 DEF NextStep
  <1>6. s.id = NextID(records) /\ s.made = clerk[p].by
        /\ s = [id |-> NextID(records), made |-> clerk[p].record.made, status |-> clerk[p].record.status]
    BY <1>4 DEF RecordsOf
  <1> HIDE DEF s
  <1>7. /\ clerk'[p].op = "add" /\ clerk'[p].todo = Tail(clerk[p].todo)
        /\ clerk'[p].read = clerk[p].read /\ clerk'[p].record = s /\ clerk'[p].by = clerk[p].by
    BY <1>4, <1>5
  <1>8. At(p)' = "load"
    BY <1>4, <1>7 DEF At
  <1>9. p \notin Undrawn' /\ p \in Undrawn
    BY <1>1, <1>4, <1>8 DEF Undrawn
  <1>10. InUse \subseteq InUse' /\ Limit' \in Nat /\ Limit' >= Limit + 1 /\ Limit \in Nat
    BY <1>0, <1>1, <1>2, <1>9, NumbersGoOn DEF Global
  <1>11. NextID(records) \in InUse'
    <2>1. RecordIds(records) \subseteq 1 .. Limit
      BY <1>0, <1>4 DEF Global, Sound, RecordsOf, RecordIds, InUse
    <2>2. NextNumber(records) \in 1 .. Limit + 1
      BY <1>10, <2>1, NewNumber
    <2>3. InUse' = 1 .. Limit'
      BY <1>1, <1>4 DEF InUse
    <2> DEFINE n == NextNumber(records)  l == Limit  m == Limit'
    <2>4. n \in 1 .. l + 1 /\ l \in Nat /\ m \in Nat /\ m >= l + 1
      BY <1>10, <2>2
    <2> HIDE DEF n, l, m
    <2>5. n \in 1 .. m
      BY <2>4
    <2>6. QED  BY <2>3, <2>5 DEF NextID, n, m
  <1>12. s \in RecordsOf(InUse' \cup {0})
    BY <1>4, <1>6, <1>11 DEF RecordsOf
  <1>13. Private(p)'
    <2>1. RecordsOf(InUse) \subseteq RecordsOf(InUse')
      BY <1>10 DEF RecordsOf
    <2>2. Sound(clerk[p].read)'
      BY <1>4, <1>7, <2>1 DEF Sound, RecordsOf
    <2>3. QED  BY <1>0, <1>1, <1>4, <1>5, <1>6, <1>7, <1>8, <1>11, <1>12, <2>1, <2>2, PrivateNext
  <1>14. Shared(p)'
    BY <1>1, <1>4, <1>7, <1>8 DEF Shared
  <1>15. QED  BY <1>1, <1>2, <1>3, <1>9, <1>13, <1>14, StepKeeps

LEMMA LockKeeps ==
    ASSUME RecordsInv, NEW p \in Clerks, acquireRegistryLock(p)
    PROVE  RecordsInv'
  <1>0. Global /\ Private(p) /\ Shared(p) /\ registry \in {"adr", "debt", "crm", "rules"}
    BY RegistryIsOne DEF RecordsInv, Global
  <1>1. /\ At(p) = "lock" /\ lock = "free" /\ lock' = p
        /\ UNCHANGED <<registry, records, bodies, commands, booked, overlapped>>
        /\ clerk' = [clerk EXCEPT ![p] = NextStep(p)]
    BY DEF acquireRegistryLock
  <1>2. /\ DOMAIN clerk' = Clerks /\ \A q \in Clerks \ {p} : clerk'[q] = clerk[q]
        /\ clerk'[p] = NextStep(p)
    BY <1>0, <1>1 DEF Global
  <1>3. /\ clerk[p] \in [op : Operations, todo : Todos(clerk[p].op), read : SUBSET RecordsOf(InUse),
                          record : RecordsOf(InUse \cup {0}), by : Nat]
        /\ Sound(clerk[p].read) /\ clerk[p].todo # <<>>
        /\ clerk[p].op = "add" => clerk[p].record.made = clerk[p].by
        /\ p \notin Undrawn => clerk[p].record.id \in InUse
        /\ Tail(clerk[p].todo) # <<>> /\ Head(Tail(clerk[p].todo)) = "load"
        /\ registry = "adr"
    BY <1>0, <1>1, UnderWay
  <1>4. clerk'[p] = [op |-> clerk[p].op, todo |-> Tail(clerk[p].todo), read |-> clerk[p].read,
                     record |-> clerk[p].record, by |-> clerk[p].by]
    BY <1>2, <1>3 DEF NextStep
  <1>5. /\ clerk'[p].op = clerk[p].op /\ clerk'[p].todo = Tail(clerk[p].todo)
        /\ clerk'[p].read = clerk[p].read /\ clerk'[p].record = clerk[p].record
        /\ clerk'[p].by = clerk[p].by
    BY <1>4
  <1>6. At(p)' = "load"
    BY <1>3, <1>5 DEF At
  <1>7. p \in Undrawn' <=> p \in Undrawn
    BY <1>1, <1>3, <1>5, <1>6 DEF Undrawn
  <1>8. InUse \subseteq InUse'
    BY <1>1, <1>2, <1>7, NumbersGoOn
  <1>9. Private(p)'
    <2>1. RecordsOf(InUse) \subseteq RecordsOf(InUse')
          /\ RecordsOf(InUse \cup {0}) \subseteq RecordsOf(InUse' \cup {0})
      BY <1>8 DEF RecordsOf
    <2>2. Sound(clerk[p].read)'
      BY <1>3, <1>5, <2>1 DEF Sound, RecordsOf
    <2>3. /\ clerk'[p].read \in SUBSET RecordsOf(InUse')
          /\ clerk'[p].record \in RecordsOf(InUse' \cup {0})
          /\ p \notin Undrawn' => clerk'[p].record.id \in InUse'
      BY <1>3, <1>5, <1>7, <1>8, <2>1
    <2>4. QED  BY <1>0, <1>1, <1>3, <1>4, <1>5, <1>6, <2>2, <2>3, PrivateNext
  <1>10. Shared(p)'
    BY <1>0, <1>1, <1>3, <1>5, <1>6 DEF Shared, Texted
  <1>11. QED  BY <1>1, <1>2, <1>3, <1>6, <1>7, <1>9, <1>10, StepKeeps

LEMMA LoadKeeps ==
    ASSUME RecordsInv, NEW p \in Clerks, Load(p)
    PROVE  RecordsInv'
  <1>0. Global /\ Private(p) /\ Shared(p) /\ registry \in {"adr", "debt", "crm", "rules"}
    BY RegistryIsOne DEF RecordsInv, Global
  <1> DEFINE i == IF registry = "adr" /\ clerk[p].op = "add" THEN NextNumber(records)
                  ELSE clerk[p].record.id
             s == [clerk[p].record EXCEPT !.id = i]
  <1>1. /\ At(p) = "load" /\ UNCHANGED <<registry, records, bodies, commands, booked, overlapped>>
        /\ \/ clerk' = [clerk EXCEPT ![p] = AtRest] /\ lock' = Release(p)
           \/ /\ ~Refused(clerk[p].op, records, i)
              /\ clerk' = [clerk EXCEPT ![p] = [NextStep(p) EXCEPT !.record.id = i, !.read = records]]
              /\ lock' = lock
    BY DEF Load
  <1>2. DOMAIN clerk = Clerks /\ DOMAIN clerk' = Clerks /\ \A q \in Clerks \ {p} : clerk'[q] = clerk[q]
    BY <1>0, <1>1 DEF Global
  <1>3. CASE clerk' = [clerk EXCEPT ![p] = AtRest] /\ lock' = Release(p)
    <2>1. clerk'[p] = AtRest
      BY <1>2, <1>3
    <2>2. Private(p)' /\ Shared(p)' /\ p \notin Undrawn'
      BY <2>1, NowAtRest
    <2>3. (lock' = lock /\ lock # p) \/ (lock = p /\ lock' = "free")
      BY <1>3 DEF Release
    <2>4. QED  BY <1>1, <1>2, <2>2, <2>3, StepKeeps
  <1>4. CASE /\ ~Refused(clerk[p].op, records, i)
             /\ clerk' = [clerk EXCEPT ![p] = [NextStep(p) EXCEPT !.record.id = i, !.read = records]]
             /\ lock' = lock
    <2>1. /\ clerk[p] \in [op : Operations, todo : Todos(clerk[p].op), read : SUBSET RecordsOf(InUse),
                            record : RecordsOf(InUse \cup {0}), by : Nat]
          /\ clerk[p].todo # <<>>
          /\ clerk[p].op = "add" => clerk[p].record.made = clerk[p].by
          /\ p \notin Undrawn => clerk[p].record.id \in InUse
          /\ Tail(clerk[p].todo) # <<>>
          /\ Head(Tail(clerk[p].todo)) =
               IF registry = "adr" /\ clerk[p].op = "add" THEN "body" ELSE "store"
      BY <1>0, <1>1, UnderWay
    <2>2. clerk'[p] = [NextStep(p) EXCEPT !.record.id = i, !.read = records]
      BY <1>2, <1>4
    <2>3. s = [id |-> i, made |-> clerk[p].record.made, status |-> clerk[p].record.status]
      BY <2>1 DEF RecordsOf
    <2>4. s.id = i /\ s.made = clerk[p].record.made
      BY <2>3
    <2> HIDE DEF i
    <2>5. clerk'[p] = [op |-> clerk[p].op, todo |-> Tail(clerk[p].todo), read |-> records,
                       record |-> s, by |-> clerk[p].by]
      BY <2>1, <2>2 DEF NextStep
    <2> HIDE DEF s
    <2>6. /\ clerk'[p].op = clerk[p].op /\ clerk'[p].todo = Tail(clerk[p].todo)
          /\ clerk'[p].read = records /\ clerk'[p].record = s /\ clerk'[p].by = clerk[p].by
      BY <2>5
    <2>7. At(p)' = IF registry = "adr" /\ clerk[p].op = "add" THEN "body" ELSE "store"
      BY <2>1, <2>6 DEF At
    <2>8. p \notin Undrawn'
      BY <1>1, <2>6, <2>7 DEF Undrawn
    <2>9. p \in Undrawn <=> registry = "adr" /\ clerk[p].op = "add"
      BY <1>0, <1>1 DEF Undrawn
    <2>10. InUse \subseteq InUse' /\ Limit' \in Nat /\ Limit \in Nat
           /\ (p \in Undrawn => Limit' >= Limit + 1)
      BY <1>0, <1>1, <1>2, <2>8, NumbersGoOn DEF Global
    <2>11. i \in InUse'
      <3>1. CASE p \notin Undrawn
        BY <2>1, <2>9, <2>10, <3>1 DEF i
      <3>2. CASE p \in Undrawn
        <4>1. RecordIds(records) \subseteq 1 .. Limit
          BY <1>0, <2>9, <3>2 DEF Global, Sound, RecordsOf, RecordIds, InUse
        <4>2. i = NextNumber(records) /\ NextNumber(records) \in 1 .. Limit + 1
          BY <2>9, <2>10, <3>2, <4>1, NewNumber DEF i
        <4>3. InUse' = 1 .. Limit'
          BY <1>1, <2>9, <3>2 DEF InUse
        <4> DEFINE l == Limit  m == Limit'
        <4>4. i \in 1 .. l + 1 /\ l \in Nat /\ m \in Nat /\ m >= l + 1
          BY <2>10, <3>2, <4>2
        <4> HIDE DEF l, m
        <4>5. i \in 1 .. m
          BY <4>4
        <4>6. QED  BY <4>3, <4>5 DEF m
      <3>3. QED  BY <3>1, <3>2
    <2>12. clerk[p].op = "add" => i \notin RecordIds(records)
      BY <1>4 DEF Refused, i
    <2>13. s \in RecordsOf(InUse' \cup {0})
      BY <2>1, <2>3, <2>11 DEF RecordsOf, s
    <2>14. Sound(clerk[p].read)' /\ records \in SUBSET RecordsOf(InUse')
      BY <1>0, <2>6, <2>10 DEF Global, Sound, RecordsOf
    <2>15. RecordIds(clerk[p].read)' = RecordIds(records)
      BY <2>6 DEF RecordIds
    <2>16. Private(p)'
      BY <1>0, <1>1, <2>1, <2>4, <2>5, <2>6, <2>11, <2>12, <2>13, <2>14, <2>15, PrivateNext
    <2>17. Shared(p)'
      <3>1. registry = "adr" => lock' = p
        BY <1>0, <1>1, <1>4 DEF Shared
      <3>2. registry = "adr" => Texted(clerk[p].read)'
        BY <1>0, <1>1, <2>6 DEF Global, DecisionsHaveText, Texted
      <3>3. registry = "adr" /\ clerk[p].op = "set" => <<s.id, s.made>> \in bodies
        <4>1. registry = "adr" /\ clerk[p].op = "set" => i = clerk[p].record.id
          BY DEF i
        <4>2. QED  BY <1>0, <1>1, <2>4, <4>1 DEF Shared
      <3>4. registry = "adr" /\ clerk[p].op = "add" => At(p)' # "store"
        BY <2>7
      <3>5. clerk'[p].record.id = s.id /\ clerk'[p].record.made = s.made
            /\ clerk'[p].op = clerk[p].op /\ clerk'[p].read = records'
            /\ bodies' = bodies /\ registry' = registry
        BY <1>1, <2>6
      <3>6. QED  BY <3>1, <3>2, <3>3, <3>4, <3>5 DEF Shared
    <2>18. lock = p => At(p)' \in {"load", "body", "store"}
      BY <2>7
    <2>19. QED  BY <1>1, <1>2, <1>4, <2>8, <2>16, <2>17, <2>18, StepKeeps
  <1>5. QED  BY <1>1, <1>3, <1>4

LEMMA BodyKeeps ==
    ASSUME RecordsInv, NEW p \in Clerks, WriteBody(p)
    PROVE  RecordsInv'
  <1>0. Global /\ Private(p) /\ Shared(p) /\ registry \in {"adr", "debt", "crm", "rules"}
    BY RegistryIsOne DEF RecordsInv, Global
  <1>1. /\ At(p) = "body" /\ bodies' = bodies \cup {<<clerk[p].record.id, clerk[p].by>>}
        /\ UNCHANGED <<registry, records, lock, commands, booked, overlapped>>
        /\ clerk' = [clerk EXCEPT ![p] = NextStep(p)]
    BY DEF WriteBody
  <1>2. /\ DOMAIN clerk' = Clerks /\ \A q \in Clerks \ {p} : clerk'[q] = clerk[q]
        /\ clerk'[p] = NextStep(p)
    BY <1>0, <1>1 DEF Global
  <1>3. /\ clerk[p] \in [op : Operations, todo : Todos(clerk[p].op), read : SUBSET RecordsOf(InUse),
                          record : RecordsOf(InUse \cup {0}), by : Nat]
        /\ Sound(clerk[p].read) /\ clerk[p].todo # <<>>
        /\ clerk[p].record.made = clerk[p].by
        /\ clerk[p].record.id \notin RecordIds(clerk[p].read)
        /\ p \notin Undrawn => clerk[p].record.id \in InUse
        /\ Tail(clerk[p].todo) # <<>> /\ Head(Tail(clerk[p].todo)) = "store"
        /\ registry = "adr" /\ clerk[p].op = "add"
    BY <1>0, <1>1, UnderWay
  <1>4. clerk'[p] = [op |-> clerk[p].op, todo |-> Tail(clerk[p].todo), read |-> clerk[p].read,
                     record |-> clerk[p].record, by |-> clerk[p].by]
    BY <1>2, <1>3 DEF NextStep
  <1>5. /\ clerk'[p].op = clerk[p].op /\ clerk'[p].todo = Tail(clerk[p].todo)
        /\ clerk'[p].read = clerk[p].read /\ clerk'[p].record = clerk[p].record
        /\ clerk'[p].by = clerk[p].by
    BY <1>4
  <1>6. At(p)' = "store"
    BY <1>3, <1>5 DEF At
  <1>7. p \notin Undrawn' /\ p \notin Undrawn
    BY <1>1, <1>6 DEF Undrawn
  <1>8. InUse \subseteq InUse'
    BY <1>1, <1>2, <1>7, NumbersGoOn
  <1>9. Private(p)'
    <2>1. RecordsOf(InUse) \subseteq RecordsOf(InUse')
          /\ RecordsOf(InUse \cup {0}) \subseteq RecordsOf(InUse' \cup {0})
      BY <1>8 DEF RecordsOf
    <2>2. Sound(clerk[p].read)'
      BY <1>3, <1>5, <2>1 DEF Sound, RecordsOf
    <2>3. /\ clerk'[p].read \in SUBSET RecordsOf(InUse')
          /\ clerk'[p].record \in RecordsOf(InUse' \cup {0})
          /\ clerk'[p].record.id \in InUse'
      BY <1>3, <1>5, <1>7, <1>8, <2>1
    <2>4. RecordIds(clerk[p].read)' = RecordIds(clerk[p].read)
      BY <1>5 DEF RecordIds
    <2>5. QED  BY <1>0, <1>1, <1>3, <1>4, <1>5, <1>6, <2>2, <2>3, <2>4, PrivateNext
  <1>10. Shared(p)'
    <2>1. Texted(clerk[p].read)'
      BY <1>0, <1>1, <1>3, <1>5 DEF Shared, Texted
    <2>2. lock' = p /\ clerk'[p].read = records'
      BY <1>0, <1>1, <1>3, <1>5 DEF Shared
    <2>3. <<clerk'[p].record.id, clerk'[p].record.made>> \in bodies'
      BY <1>1, <1>3, <1>5
    <2>4. QED  BY <2>1, <2>2, <2>3 DEF Shared
  <1>11. bodies \subseteq bodies'
    BY <1>1
  <1>12. QED  BY <1>1, <1>2, <1>6, <1>7, <1>9, <1>10, <1>11, StepKeeps

(* The file is replaced by what the command made of what it had loaded.    *)
LEMMA StoreKeeps ==
    ASSUME RecordsInv, NEW p \in Clerks, writeYAML(p)
    PROVE  RecordsInv'
  <1>0. Global /\ Private(p) /\ Shared(p) /\ registry \in {"adr", "debt", "crm", "rules"}
    BY RegistryIsOne DEF RecordsInv, Global
  <1> DEFINE c == clerk[p]
  <1>1. /\ At(p) = "store" /\ UNCHANGED <<registry, bodies, commands>>
        /\ records' = Changed(c.op, c.read, c.record) /\ booked' = Changed(c.op, booked, c.record)
        /\ clerk' = [clerk EXCEPT ![p] = AtRest] /\ lock' = Release(p)
        /\ overlapped' = (overlapped \/ \E q \in Clerks \ {p} : At(q) = "store")
    BY DEF writeYAML
  <1>2. /\ DOMAIN clerk' = Clerks /\ \A q \in Clerks \ {p} : clerk'[q] = clerk[q]
        /\ clerk'[p] = AtRest
    BY <1>0, <1>1 DEF Global
  <1>3. /\ c \in [op : Operations, todo : Todos(c.op), read : SUBSET RecordsOf(InUse),
                   record : RecordsOf(InUse \cup {0}), by : Nat]
        /\ Sound(c.read)
        /\ p \notin Undrawn => c.record.id \in InUse
        /\ c.op = "add" => c.record.id \notin RecordIds(c.read)
    BY <1>0, <1>1, UnderWay
  <1>4. Private(p)' /\ Shared(p)' /\ p \notin Undrawn'
    BY <1>2, NowAtRest
  <1>5. p \notin Undrawn
    BY <1>1 DEF Undrawn
  <1>6. c.record \in RecordsOf(InUse)
    <2> DEFINE r == c.record
    <2>1. r \in RecordsOf(InUse \cup {0}) /\ r.id \in InUse
      BY <1>3, <1>5
    <2> HIDE DEF r
    <2>2. r \in RecordsOf(InUse)
      BY <2>1 DEF RecordsOf
    <2>3. QED  BY <2>2 DEF r
  <1>7. InUse \subseteq InUse' /\ Limit' \in Nat
    BY <1>1, <1>2, <1>4, NumbersGoOn
  <1>8. Sound(records)'
    <2>1. Sound(Changed(c.op, c.read, c.record))
      <3> DEFINE R == c.read  r == c.record  op == c.op
      <3>1. Sound(R) /\ r \in RecordsOf(InUse) /\ (op = "add" => r.id \notin RecordIds(R))
        BY <1>3, <1>6
      <3> HIDE DEF R, r, op
      <3>2. Sound(Changed(op, R, r))
        BY <3>1, ChangedSound
      <3>3. QED  BY <3>2 DEF R, r, op
    <2>2. QED  BY <1>1, <1>7, <2>1 DEF Sound, RecordsOf
  <1>9. RecordsKept'
    <2>1. registry = "adr" \/ ~overlapped' => c.read = records /\ records = booked
      BY <1>0, <1>1 DEF Shared, Global, RecordsKept
    <2>2. QED  BY <1>1, <2>1 DEF RecordsKept
  <1>10. DecisionsHaveText'
    <2>1. SUFFICES ASSUME registry = "adr" PROVE \A r \in records' : <<r.id, r.made>> \in bodies
      BY <1>1 DEF DecisionsHaveText
    <2>2. Texted(c.read)
      BY <1>0, <2>1 DEF Shared
    <2>3. <<c.record.id, c.record.made>> \in bodies
      <3>1. c.op \in {"add", "set"}
        BY <1>3, <2>1 DEF Operations
      <3>2. QED  BY <1>0, <1>1, <2>1, <3>1 DEF Shared
    <2>4. records' \subseteq c.read \cup {c.record}
      BY <1>1 DEF Changed, AddTo, UpdateIn, RemoveFrom
    <2>5. QED  BY <2>2, <2>3, <2>4 DEF Texted
  <1>11. ASSUME NEW q \in Clerks \ {p} PROVE Private(q)' /\ Shared(q)' /\ At(q)' = At(q)
    <2>1. Private(q) /\ Shared(q)
      BY DEF RecordsInv
    <2>2. Private(q)' /\ At(q)' = At(q)
      BY <1>1, <1>2, <1>7, <2>1, PrivateOther
    <2>3. registry = "adr" => lock = p /\ At(q) \notin {"load", "body", "store"}
      BY <1>0, <1>1, <2>1 DEF Shared
    <2>4. registry # "adr" => At(q) # "body"
      BY <1>0, <2>1, UnderWay
    <2>5. ~overlapped' => At(q) # "store"
      BY <1>1
    <2>6. registry = "adr" => Texted(clerk[q].read)'
      BY <1>1, <1>2, <2>1 DEF Shared, Texted
    <2>7. Shared(q)'
      BY <1>1, <1>2, <2>1, <2>2, <2>3, <2>4, <2>5, <2>6 DEF Shared
    <2>8. QED  BY <2>2, <2>7
  <1>12. lock' \in Clerks \cup {"free"} /\ (lock' # "free" => lock' = lock /\ lock # p)
    BY <1>0, <1>1 DEF Global, Release
  <1>13. lock' # "free" => registry' = "adr" /\ At(lock)' \in {"load", "body", "store"}
    <2>1. CASE lock' # "free"
      <3>1. lock' = lock /\ lock \in Clerks \ {p} /\ registry = "adr" /\ At(lock) \in {"load", "body", "store"}
        BY <1>0, <1>12, <2>1 DEF Global
      <3>2. QED  BY <1>0, <1>1, <3>1 DEF Shared
    <2>2. QED  BY <2>1
  <1>14. Global'
    BY <1>0, <1>1, <1>2, <1>7, <1>8, <1>9, <1>10, <1>12, <1>13 DEF Global
  <1>15. QED  BY <1>4, <1>11, <1>14 DEF RecordsInv

LEMMA DeathKeeps ==
    ASSUME RecordsInv, NEW p \in Clerks, ClerkDies(p)
    PROVE  RecordsInv'
  <1>1. /\ UNCHANGED <<registry, records, bodies, commands, booked, overlapped>>
        /\ clerk' = [clerk EXCEPT ![p] = AtRest] /\ lock' = Release(p)
    BY DEF ClerkDies
  <1>2. /\ DOMAIN clerk' = Clerks /\ \A q \in Clerks \ {p} : clerk'[q] = clerk[q]
        /\ clerk'[p] = AtRest
    BY <1>1 DEF RecordsInv, Global
  <1>3. Private(p)' /\ Shared(p)' /\ p \notin Undrawn'
    BY <1>2, NowAtRest
  <1>4. (lock' = lock /\ lock # p) \/ (lock = p /\ lock' = "free")
    BY <1>1 DEF Release
  <1>5. QED  BY <1>1, <1>2, <1>3, <1>4, StepKeeps

LEMMA RecordsStutter ==
    ASSUME RecordsInv, UNCHANGED recordVars
    PROVE  RecordsInv'
  <1> USE DEF recordVars
  <1>1. At(lock)' = At(lock) /\ \A p \in Clerks : At(p)' = At(p)
    BY DEF At
  <1>2. Limit' = Limit /\ InUse' = InUse /\ Undrawn' = Undrawn
    BY <1>1 DEF Limit, InUse, Undrawn
  <1>3. Global'
    BY <1>1, <1>2 DEF RecordsInv, Global, Sound, RecordsOf, RecordsKept, DecisionsHaveText
  <1>4. \A p \in Clerks : Private(p)' /\ Shared(p)'
    BY <1>1, <1>2, PrivateOther, SharedOther DEF RecordsInv
  <1>5. QED  BY <1>3, <1>4 DEF RecordsInv

LEMMA RecordsInvInit == RecordsInit => RecordsInv
  <1> SUFFICES ASSUME RecordsInit PROVE RecordsInv
    OBVIOUS
  <1>1. \A p \in Clerks : clerk[p] = AtRest
    BY DEF RecordsInit
  <1>2. \A p \in Clerks : Private(p) /\ Shared(p) /\ p \notin Undrawn
    BY <1>1, AtRestHolds
  <1>3. Undrawn = {}
    BY <1>2 DEF Undrawn
  <1>4. Limit = 0
    BY <1>3, FS_EmptySet DEF Limit, RecordsInit
  <1>5. Global
    BY <1>4, RecordsAssumption
       DEF RecordsInit, Global, Sound, RecordsKept, DecisionsHaveText
  <1>6. QED  BY <1>2, <1>5 DEF RecordsInv

LEMMA RecordsInvKept ==
    ASSUME RecordsInv, [RecordsNext]_recordVars
    PROVE  RecordsInv'
  <1>1. ASSUME NEW p \in Clerks, IssueAny(p) PROVE RecordsInv'
    BY <1>1, IssueKeeps DEF IssueAny
  <1>2. QED
    BY <1>1, GetKeeps, DrawKeeps, LockKeeps, LoadKeeps, BodyKeeps, StoreKeeps, DeathKeeps,
       RecordsStutter DEF RecordsNext

LEMMA RecordsInvImplies == RecordsInv => RegistryIsHonest
  <1> SUFFICES ASSUME RecordsInv PROVE RegistryIsHonest
    OBVIOUS
  <1>1. Global /\ \A p \in Clerks : Private(p)
    BY DEF RecordsInv
  <1>2. RecordIds(records) \subseteq InUse
    BY <1>1 DEF Global, Sound, RecordsOf, RecordIds
  <1>3. registry # "rules" => InUse \subseteq 1 .. MaxCommands
    <2>1. Limit \in Nat /\ Limit <= commands /\ commands <= MaxCommands /\ MaxCommands \in Nat
      <3>1. IsFiniteSet(Undrawn)
        BY RecordsAssumption, FS_Subset DEF Undrawn
      <3>2. Cardinality(Undrawn) \in Nat /\ commands \in 0 .. MaxCommands /\ Limit \in Nat
        BY <1>1, <3>1, FS_CardinalityType DEF Global
      <3>3. QED  BY <3>2, RecordsAssumption DEF Limit
    <2>2. 1 .. Limit \subseteq 1 .. MaxCommands
      BY <1>1, <2>1, RecordsAssumption DEF Global
    <2>3. QED  BY <2>2 DEF InUse
  <1>4. RecordIds(records) \subseteq Numbers
    BY <1>2, <1>3 DEF Numbers, InUse
  <1>5. \A p \in Clerks : At(p) = "none" <=> clerk[p] = AtRest
    <2>1. ASSUME NEW p \in Clerks, clerk[p] # AtRest PROVE At(p) # "none"
      <3>1. clerk[p] \in [op : Operations, todo : Todos(clerk[p].op), read : SUBSET RecordsOf(InUse),
                          record : RecordsOf(InUse \cup {0}), by : Nat]
        BY <1>1, <2>1 DEF Private
      <3>2. registry \in {"adr", "debt", "crm", "rules"}
        BY <1>1, RegistryIsOne DEF Global
      <3>3. clerk[p].op \in Operations /\ clerk[p].todo \in Todos(clerk[p].op)
        BY <3>1
      <3>4. QED  BY <3>2, <3>3, TodoSteps DEF At
    <2>2. QED  BY <2>1, AtRestHolds
  <1>6. RecordsTypeOK
    BY <1>1, <1>4, <1>5 DEF Global, RecordsTypeOK
  <1>7. IdsUnique
    BY <1>1 DEF Global, Sound, IdsUnique
  <1>8. QED  BY <1>1, <1>6, <1>7 DEF Global, RegistryIsHonest

(* No two records of a registry ever have one number, a decision in the    *)
(* registry has the text that was written for it, and what a command       *)
(* reported stays until another command changes it: of decisions whatever  *)
(* overlaps or dies, of the others as long as no command stores between    *)
(* the load and the store of another; for any number of processes          *)
(* (storage/adrstore.go, debtstore.go, crmstore.go, rulestore.go).         *)
THEOREM RegistriesAreHonest == RecordsSpec => []RegistryIsHonest
  <1>1. RecordsInv /\ [RecordsNext]_recordVars => RecordsInv'
    BY RecordsInvKept
  <1>2. QED  BY RecordsInvInit, <1>1, RecordsInvImplies, PTL DEF RecordsSpec

(***************************************************************************)
(* The cloud archive: what a push leaves there, and what a pull brings.    *)
(***************************************************************************)

Keys == Paths \cup {Manifest}
Admitted(k) == k = Manifest \/ ShouldUpload(k)

(* What a push has walked and copied is admitted, and by the time it       *)
(* uploads the copies are what the scan passed.  What it has uploaded is   *)
(* in the archive, unless a destroy came between.                          *)
PushInv ==
    /\ push \in {"none", "stage", "scan", "upload"}
    /\ toStage \in SUBSET Paths /\ DOMAIN staging \in SUBSET Keys /\ toUpload \in SUBSET DOMAIN staging
    /\ \A k \in toStage \cup DOMAIN staging : Admitted(k)
    /\ push = "none" => toStage = {} /\ staging = <<>>
    /\ push # "upload" => toUpload = {}
    /\ push \in {"scan", "upload"} => Manifest \in DOMAIN staging
    /\ push = "upload" =>
         /\ scanned = staging
         /\ \A k \in DOMAIN staging : staging[k] \notin Findings
         /\ ~emptied => \A k \in DOMAIN staging \ toUpload : k \in DOMAIN bucket /\ bucket[k] = staging[k]

(* What a whole push has left in the archive is there until the next       *)
(* upload or delete.                                                       *)
BucketInv ==
    /\ DOMAIN bucket \in SUBSET Keys
    /\ \A k \in DOMAIN bucket : Admitted(k) /\ bucket[k] \notin Findings
    /\ \A k \in DOMAIN whole : k \in DOMAIN bucket /\ bucket[k] = whole[k]
    /\ whole # <<>> => Manifest \in DOMAIN whole

(* What a pull is to bring has come, or is listed and in the archive.      *)
PullInv ==
    /\ reader \in {"none", "pull", "destroy"} /\ listed \in SUBSET Keys /\ DOMAIN dest \in SUBSET Keys
    /\ reader = "none" => listed = {}
    /\ expected # <<>> => Manifest \in DOMAIN expected
    /\ \A k \in DOMAIN expected :
         IF reader = "pull" /\ k \in listed THEN k \in DOMAIN bucket /\ bucket[k] = expected[k]
         ELSE k \in DOMAIN dest /\ dest[k] = expected[k]

FileInv == file \in [Paths -> Contents \cup {NoContent}]

CloudInv == FileInv /\ PushInv /\ BucketInv /\ PullInv

-----------------------------------------------------------------------------

LEMMA OnlyThose ==
    ASSUME NEW f, NEW S
    PROVE  /\ DOMAIN Only(f, S) = DOMAIN f \cap S
           /\ \A x \in DOMAIN f \cap S : Only(f, S)[x] = f[x]
  BY DEF Only

LEMMA PushEnds ==
    ASSUME PushInv, EndPush
    PROVE  PushInv'
  BY DEF PushInv, EndPush, Keys

LEMMA ArchiveSame ==
    ASSUME BucketInv, PullInv, UNCHANGED archive
    PROVE  BucketInv' /\ PullInv'
  BY DEF BucketInv, PullInv, archive

LEMMA EditKeeps ==
    ASSUME CloudInv, NEW p \in Paths, EditFile(p)
    PROVE  CloudInv'
  <1>1. UNCHANGED <<pushing, archive>> /\ FileInv'
    BY DEF EditFile, CloudInv, FileInv
  <1>2. PushInv'
    BY <1>1 DEF CloudInv, PushInv, pushing, archive
  <1>3. QED  BY <1>1, <1>2, ArchiveSame DEF CloudInv

LEMMA PushKeeps ==
    ASSUME CloudInv, NEW dry \in BOOLEAN, Push(dry)
    PROVE  CloudInv'
  <1>1. /\ push = "none" /\ push' = "stage" /\ toStage' = WalkUploadSet
        /\ UNCHANGED <<staging, toUpload, scanned, file, bucket, listed, reader, dest, whole, expected>>
    BY DEF Push
  <1>2. FileInv' /\ BucketInv' /\ PullInv'
    BY <1>1 DEF CloudInv, FileInv, BucketInv, PullInv
  <1>3. toStage' \in SUBSET Paths /\ \A k \in toStage' : Admitted(k)
    BY <1>1 DEF WalkUploadSet, Admitted
  <1>4. PushInv'
    BY <1>1, <1>3 DEF CloudInv, PushInv
  <1>5. QED  BY <1>2, <1>4 DEF CloudInv

LEMMA StageKeeps ==
    ASSUME CloudInv, NEW p \in Paths, stageFile(p)
    PROVE  CloudInv'
  <1>1. push = "stage" /\ p \in toStage /\ UNCHANGED <<file, archive>>
    BY DEF stageFile
  <1>2. FileInv' /\ BucketInv' /\ PullInv'
    BY <1>1, ArchiveSame DEF CloudInv, FileInv
  <1>3. CASE EndPush
    BY <1>2, <1>3, PushEnds DEF CloudInv
  <1>4. CASE /\ toStage' = toStage \ {p} /\ staging' = With(staging, p, file[p])
             /\ UNCHANGED <<push, toUpload, scanned>>
    <2>1. DOMAIN staging' = DOMAIN staging \cup {p}
      BY <1>4 DEF With
    <2>2. PushInv'
      BY <1>1, <1>4, <2>1 DEF CloudInv, PushInv, Keys
    <2>3. QED  BY <1>2, <2>2 DEF CloudInv
  <1>5. QED  BY <1>3, <1>4 DEF stageFile

LEMMA ManifestKeeps ==
    ASSUME CloudInv, StageManifest
    PROVE  CloudInv'
  <1>1. push = "stage" /\ UNCHANGED <<file, archive>>
    BY DEF StageManifest
  <1>2. FileInv' /\ BucketInv' /\ PullInv'
    BY <1>1, ArchiveSame DEF CloudInv, FileInv
  <1>3. CASE EndPush
    BY <1>2, <1>3, PushEnds DEF CloudInv
  <1>4. CASE /\ push' = "scan" /\ UNCHANGED <<toStage, toUpload, scanned>>
             /\ staging' = With(staging, Manifest, CHOOSE c \in Contents : c \notin Findings)
    <2>1. DOMAIN staging' = DOMAIN staging \cup {Manifest}
      BY <1>4 DEF With
    <2>2. PushInv'
      BY <1>1, <1>4, <2>1 DEF CloudInv, PushInv, Keys, Admitted
    <2>3. QED  BY <1>2, <2>2 DEF CloudInv
  <1>5. QED  BY <1>3, <1>4 DEF StageManifest

LEMMA ScanKeeps ==
    ASSUME CloudInv, ScanForSecretsWith
    PROVE  CloudInv'
  <1>1. push = "scan" /\ UNCHANGED <<file, archive>>
    BY DEF ScanForSecretsWith
  <1>2. FileInv' /\ BucketInv' /\ PullInv'
    BY <1>1, ArchiveSame DEF CloudInv, FileInv
  <1>3. CASE EndPush
    BY <1>2, <1>3, PushEnds DEF CloudInv
  <1>4. CASE /\ \A p \in DOMAIN staging : staging[p] \notin Findings
             /\ push' = "upload" /\ toUpload' = DOMAIN staging /\ scanned' = staging
             /\ UNCHANGED <<toStage, staging>>
    <2>1. PushInv'
      BY <1>1, <1>4 DEF CloudInv, PushInv
    <2>2. QED  BY <1>2, <2>1 DEF CloudInv
  <1>5. QED  BY <1>3, <1>4 DEF ScanForSecretsWith

LEMMA PutKeeps ==
    ASSUME CloudInv, NEW p \in Keys, putStagedFile(p)
    PROVE  CloudInv'
  <1>1. /\ push = "upload" /\ p \in toUpload /\ bucket' = With(bucket, p, staging[p]) /\ expected' = <<>>
        /\ UNCHANGED <<file, listed, reader, dest, emptied>>
    BY DEF putStagedFile, UploadOf
  <1>2. /\ p \in DOMAIN staging /\ staging[p] \notin Findings /\ Admitted(p)
        /\ Manifest \in DOMAIN staging
    BY <1>1 DEF CloudInv, PushInv
  <1>3. /\ DOMAIN bucket' = DOMAIN bucket \cup {p} /\ bucket'[p] = staging[p]
        /\ \A k \in DOMAIN bucket \ {p} : bucket'[k] = bucket[k]
    BY <1>1 DEF With
  <1>4. /\ DOMAIN bucket' \in SUBSET Keys
        /\ \A k \in DOMAIN bucket' : Admitted(k) /\ bucket'[k] \notin Findings
    BY <1>2, <1>3 DEF CloudInv, BucketInv
  <1>5. ~emptied => \A k \in DOMAIN staging \ (toUpload \ {p}) : k \in DOMAIN bucket' /\ bucket'[k] = staging[k]
    BY <1>1, <1>3 DEF CloudInv, PushInv
  <1>6. FileInv' /\ PullInv'
    BY <1>1 DEF CloudInv, FileInv, PullInv
  <1>7. CASE toUpload = {p} /\ EndPush /\ whole' = IF emptied THEN <<>> ELSE staging
    <2>1. PushInv'
      BY <1>7, PushEnds DEF CloudInv
    <2>2. BucketInv'
      <3>1. CASE emptied
        BY <1>4, <1>7, <3>1 DEF BucketInv
      <3>2. CASE ~emptied
        BY <1>2, <1>4, <1>5, <1>7, <3>2 DEF BucketInv
      <3>3. QED  BY <3>1, <3>2
    <2>3. QED  BY <1>6, <2>1, <2>2 DEF CloudInv
  <1>8. CASE /\ toUpload' = toUpload \ {p} /\ whole' = <<>>
             /\ UNCHANGED <<push, toStage, staging, scanned>>
    <2>1. PushInv'
      BY <1>1, <1>5, <1>8 DEF CloudInv, PushInv
    <2>2. BucketInv'
      BY <1>4, <1>8 DEF BucketInv
    <2>3. QED  BY <1>6, <2>1, <2>2 DEF CloudInv
  <1>9. QED  BY <1>7, <1>8 DEF putStagedFile

LEMMA FailKeeps ==
    ASSUME CloudInv, PushFails
    PROVE  CloudInv'
  <1>1. EndPush /\ UNCHANGED <<file, archive>>
    BY DEF PushFails
  <1>2. QED  BY <1>1, ArchiveSame, PushEnds DEF CloudInv, FileInv

LEMMA ListKeeps ==
    ASSUME CloudInv, NEW r \in {"pull", "destroy"}, List(r)
    PROVE  CloudInv'
  <1>1. /\ reader = "none" /\ reader' = r /\ listed' = DOMAIN bucket
        /\ dest' = (IF r = "pull" THEN <<>> ELSE dest)
        /\ expected' = (IF r = "pull" THEN whole ELSE expected)
        /\ UNCHANGED <<file, pushing, bucket, emptied, whole>>
    BY DEF List
  <1>2. FileInv' /\ PushInv' /\ BucketInv'
    BY <1>1 DEF CloudInv, FileInv, PushInv, BucketInv, pushing
  <1>3. CASE r = "pull"
    <2>1. DOMAIN dest' = {}
      BY <1>1, <1>3
    <2>2. PullInv'
      BY <1>1, <1>3, <2>1 DEF CloudInv, BucketInv, PullInv
    <2>3. QED  BY <1>2, <2>2 DEF CloudInv
  <1>4. CASE r = "destroy"
    <2>1. PullInv'
      BY <1>1, <1>4 DEF CloudInv, BucketInv, PullInv
    <2>2. QED  BY <1>2, <2>1 DEF CloudInv
  <1>5. QED  BY <1>3, <1>4

LEMMA PullKeeps ==
    ASSUME CloudInv, NEW k \in Keys, pullOne(k)
    PROVE  CloudInv'
  <1>1. reader = "pull" /\ k \in listed /\ UNCHANGED <<file, pushing, bucket, emptied, whole>>
    BY DEF pullOne
  <1>2. FileInv' /\ PushInv' /\ BucketInv'
    BY <1>1 DEF CloudInv, FileInv, PushInv, BucketInv, pushing
  <1>3. CASE /\ k \in DOMAIN bucket /\ dest' = With(dest, k, bucket[k])
             /\ listed' = listed \ {k} /\ reader' = (IF listed = {k} THEN "none" ELSE "pull")
             /\ UNCHANGED expected
    <2>1. /\ DOMAIN dest' = DOMAIN dest \cup {k} /\ dest'[k] = bucket[k]
          /\ \A j \in DOMAIN dest \ {k} : dest'[j] = dest[j]
      BY <1>3 DEF With
    <2>2. ASSUME NEW j \in DOMAIN expected
          PROVE  IF reader' = "pull" /\ j \in listed' THEN j \in DOMAIN bucket /\ bucket[j] = expected[j]
                 ELSE j \in DOMAIN dest' /\ dest'[j] = expected[j]
      <3>1. CASE j = k
        BY <1>1, <1>3, <2>1, <3>1 DEF CloudInv, PullInv
      <3>2. CASE j # k
        BY <1>1, <1>3, <2>1, <3>2 DEF CloudInv, PullInv
      <3>3. QED  BY <3>1, <3>2
    <2>3. PullInv'
      BY <1>1, <1>3, <2>1, <2>2 DEF CloudInv, PullInv
    <2>4. QED  BY <1>2, <2>3 DEF CloudInv
  <1>4. CASE /\ dest' = (IF k \in DOMAIN bucket THEN With(dest, k, NoContent) ELSE dest)
             /\ listed' = {} /\ reader' = "none" /\ expected' = <<>>
    <2>1. DOMAIN dest' \in SUBSET Keys
      BY <1>4 DEF CloudInv, PullInv, With
    <2>2. PullInv'
      BY <1>4, <2>1 DEF PullInv
    <2>3. QED  BY <1>2, <2>2 DEF CloudInv
  <1>5. QED  BY <1>3, <1>4 DEF pullOne

LEMMA DeleteKeeps ==
    ASSUME CloudInv, NEW batch \in SUBSET listed, Delete(batch)
    PROVE  CloudInv'
  <1>1. /\ listed' = listed \ batch /\ whole' = <<>> /\ expected' = <<>> /\ emptied' = TRUE
        /\ reader' = IF batch = listed THEN "none" ELSE reader
        /\ UNCHANGED <<file, pushing, dest>>
    BY DEF Delete
  <1>2. PICK kept \in {{}, batch} : bucket' = Only(bucket, DOMAIN bucket \ (batch \ kept))
    BY DEF Delete
  <1>3. DOMAIN bucket' \subseteq DOMAIN bucket /\ \A k \in DOMAIN bucket' : bucket'[k] = bucket[k]
    BY <1>2, OnlyThose
  <1>4. FileInv' /\ PushInv'
    BY <1>1 DEF CloudInv, FileInv, PushInv, pushing
  <1>5. BucketInv'
    BY <1>1, <1>3 DEF CloudInv, BucketInv
  <1>6. PullInv'
    BY <1>1 DEF CloudInv, PullInv
  <1>7. QED  BY <1>4, <1>5, <1>6 DEF CloudInv

LEMMA ReadEndKeeps ==
    ASSUME CloudInv, ReadEnds
    PROVE  CloudInv'
  <1>1. /\ reader # "none" /\ reader' = "none" /\ listed' = {}
        /\ expected' = (IF listed = {} THEN expected ELSE <<>>)
        /\ UNCHANGED <<file, pushing, bucket, dest, emptied, whole>>
    BY DEF ReadEnds
  <1>2. FileInv' /\ PushInv' /\ BucketInv'
    BY <1>1 DEF CloudInv, FileInv, PushInv, BucketInv, pushing
  <1>3. PullInv'
    <2>1. CASE listed = {}
      BY <1>1, <2>1 DEF CloudInv, PullInv
    <2>2. CASE listed # {}
      BY <1>1, <2>2 DEF CloudInv, PullInv
    <2>3. QED  BY <2>1, <2>2
  <1>4. QED  BY <1>2, <1>3 DEF CloudInv

LEMMA CloudInvKept ==
    ASSUME CloudInv, [CloudNext]_cloudVars
    PROVE  CloudInv'
  <1>1. CASE Pull
    BY <1>1, ListKeeps DEF Pull
  <1>2. CASE Destroy
    BY <1>2, ListKeeps DEF Destroy
  <1>3. CASE UNCHANGED cloudVars
    BY <1>3 DEF cloudVars, CloudInv, FileInv, PushInv, BucketInv, PullInv
  <1>4. QED
    BY <1>1, <1>2, <1>3, EditKeeps, StageKeeps, PushKeeps, ManifestKeeps, ScanKeeps, FailKeeps,
       PutKeeps, PullKeeps, ReadEndKeeps, DeleteKeeps DEF CloudNext, Keys

LEMMA CloudInvInit == CloudInit => CloudInv
  <1> SUFFICES ASSUME CloudInit PROVE CloudInv
    OBVIOUS
  <1>1. (CHOOSE c \in Contents : c \notin Findings) \in Contents
    BY CloudAssumption
  <1>2. FileInv
    BY <1>1 DEF CloudInit, FileInv
  <1>3. PushInv
    BY DEF CloudInit, PushInv
  <1>4. BucketInv /\ PullInv
    BY DEF CloudInit, BucketInv, PullInv
  <1>5. QED  BY <1>2, <1>3, <1>4 DEF CloudInv

LEMMA CloudInvImplies == CloudInv => ArchiveIsSound
  <1> SUFFICES ASSUME CloudInv PROVE ArchiveIsSound
    OBVIOUS
  <1>1. CloudTypeOK
    BY DEF CloudInv, FileInv, PushInv, BucketInv, PullInv, CloudTypeOK, Keys
  <1>2. OnlyScannedLeaves
    BY DEF CloudInv, PushInv, BucketInv, OnlyScannedLeaves, Admitted
  <1>3. RoundTrip
    BY DEF CloudInv, PullInv, RoundTrip
  <1>4. QED  BY <1>1, <1>2, <1>3 DEF ArchiveIsSound

(* The archive holds only what the allowlist admits and what a scan of the *)
(* very copy passed, and a push and then a pull that reported no failure   *)
(* bring back what was scanned, whatever is edited, fails or starts        *)
(* between their steps, for any files (integration/cloudsync).             *)
THEOREM ArchiveStaysSound == CloudSpec => []ArchiveIsSound
  <1>1. CloudInv /\ [CloudNext]_cloudVars => CloudInv'
    BY CloudInvKept
  <1>2. QED  BY CloudInvInit, <1>1, CloudInvImplies, PTL DEF CloudSpec

(***************************************************************************)
(* The session store: its index against the directories.                   *)
(***************************************************************************)

(* What is left to do of a command: the last steps of a capture or of a    *)
(* delete.  A save with an id of its own is the end of a capture.          *)
StepNames ==
    {"load", "empty", "draw", "session", "turns", "summary", "list", "remove", "unlist"}
LastOf(s, n, t) == \A k \in 1 .. Len(t) : t[k] = s[n - Len(t) + k]
Todo(t) ==
    /\ t \in Seq(StepNames)
    /\ \/ Len(t) \in 1 .. 9 /\ LastOf(CaptureSteps, 9, t)
       \/ Len(t) \in 1 .. 4 /\ LastOf(DeleteSteps, 4, t)
Ends(t) == Len(t) > 0 /\ t[Len(t)] = "unlist"

Left(p) == Len(job[p].todo)
Deleting(p) == Ends(job[p].todo)

(* Captures that have no id yet, and so how far the ids go.                *)
Idless == {p \in Captures : Left(p) >= 7}
IdLimit == captures + 1 - Cardinality(Idless)

IndexUpTo(I, n) ==
    /\ I = [sessions |-> I.sessions, next |-> I.next]
    /\ DOMAIN I.sessions \subseteq SessionIds /\ I.next \in 1 .. n
IndexOK(I) == IndexUpTo(I, IdLimit)

JobOK(p) ==
    \/ job[p] = NoJob
    \/ /\ job[p] = [todo |-> job[p].todo, read |-> job[p].read, id |-> job[p].id, by |-> job[p].by]
       /\ Todo(job[p].todo) /\ IndexOK(job[p].read) /\ job[p].by \in 1 .. captures
       /\ job[p].id \in SessionIds \cup {0} /\ (job[p].id = 0 <=> p \in Idless)
       /\ Deleting(p) /\ Left(p) <= 3 => job[p].id \in removedIds

Values ==
    /\ captures \in 0 .. MaxCaptures /\ IdLimit \in Nat \ {0} /\ disturbed \in BOOLEAN
    /\ captureDeaths \in Nat /\ DOMAIN job = Captures
    /\ sessionDir \in [SessionIds -> [session : 0 .. captures, turns : 0 .. captures,
                                      summary : 0 .. captures]]
    /\ IndexOK(index)

(* An index that knows every capture and every session that was saved.     *)
CapturedIds == {job[p].id : p \in {q \in Captures : Capturing(q)}}
FitsTo(I, ids, saved, chosen, removed) ==
    /\ \A i \in ids : i < I.next
    /\ \A i \in DOMAIN saved \ chosen : i < I.next
    /\ DOMAIN I.sessions \subseteq DOMAIN saved
    /\ \A i \in DOMAIN saved \ (chosen \cup removed) :
         i \in DOMAIN I.sessions /\ I.sessions[i] = saved[i]
Fits(I) == FitsTo(I, CapturedIds, reported, chosenIds, removedIds)

(* One command updates the index, and what it has read is what the index   *)
(* was.                                                                    *)
OneUpdates ==
    /\ \A p, q \in Captures : Updating(p) /\ Updating(q) => p = q
    /\ \A p \in Captures : Updating(p) =>
         /\ index = IF Step(p) = "empty" THEN job[p].read ELSE EmptyIndex
         /\ Fits(job[p].read)
    /\ (\A p \in Captures : ~Updating(p)) => Fits(index)

(* The files of a session that was saved, and of one that is being saved.  *)
FilesKept ==
    \A i \in DOMAIN reported \ (chosenIds \cup removedIds) :
      /\ reported[i] # Nobody
      /\ sessionDir[i].session = reported[i] /\ sessionDir[i].turns = reported[i]
OwnId(p) ==
    /\ job[p].id \notin DOMAIN reported
    /\ \A q \in Captures \ {p} : Capturing(q) => job[q].id # job[p].id
    /\ job[p].id \notin removedIds =>
         /\ Left(p) <= 5 => sessionDir[job[p].id].session = job[p].by
         /\ Left(p) <= 4 => sessionDir[job[p].id].turns = job[p].by

(* What is listed, or about to be, has its session.yaml.                   *)
ThereIn(i, gone, dir) == i \in gone \/ dir[i].session # Nobody
There(i) == ThereIn(i, removedIds \cup chosenIds, sessionDir)
AllThere ==
    /\ \A i \in DOMAIN index.sessions : There(i)
    /\ \A p \in Captures : Updating(p) => \A i \in DOMAIN job[p].read.sessions : There(i)
    /\ \A p \in Captures : ~Deleting(p) /\ Left(p) \in 1 .. 5 => There(job[p].id)

Typed == Values /\ \A p \in Captures : JobOK(p)
OwnIds == \A p \in Captures : Capturing(p) => OwnId(p)
ReportedAreIds == DOMAIN reported \subseteq SessionIds
SessionInv ==
    /\ Typed /\ ReportedAreIds
    /\ ~disturbed => OneUpdates /\ FilesKept /\ OwnIds
    /\ (disturbed /\ captureDeaths > 0) \/ AllThere

-----------------------------------------------------------------------------

(* The steps of the three commands.                                        *)
LEMMA StepsOfSave ==
    /\ SaveSteps \in Seq(StepNames) /\ Len(SaveSteps) = 6
    /\ SaveSteps[1] = "session" /\ SaveSteps[2] = "turns" /\ SaveSteps[3] = "summary"
    /\ SaveSteps[4] = "load" /\ SaveSteps[5] = "empty" /\ SaveSteps[6] = "list"
  <1>1. SaveSteps \in Seq(StepNames)
    BY DEF SaveSteps, StepNames
  <1>2. /\ Len(SaveSteps) = 6
        /\ SaveSteps[1] = "session" /\ SaveSteps[2] = "turns" /\ SaveSteps[3] = "summary"
        /\ SaveSteps[4] = "load" /\ SaveSteps[5] = "empty" /\ SaveSteps[6] = "list"
    BY DEF SaveSteps
  <1>3. QED  BY <1>1, <1>2

LEMMA StepsOfDelete ==
    /\ DeleteSteps \in Seq(StepNames) /\ Len(DeleteSteps) = 4
    /\ DeleteSteps[1] = "remove" /\ DeleteSteps[2] = "load" /\ DeleteSteps[3] = "empty"
    /\ DeleteSteps[4] = "unlist"
  <1>1. DeleteSteps \in Seq(StepNames)
    BY DEF DeleteSteps, StepNames
  <1>2. /\ Len(DeleteSteps) = 4
        /\ DeleteSteps[1] = "remove" /\ DeleteSteps[2] = "load" /\ DeleteSteps[3] = "empty"
        /\ DeleteSteps[4] = "unlist"
    BY DEF DeleteSteps
  <1>3. QED  BY <1>1, <1>2

LEMMA StepsOfCapture ==
    /\ CaptureSteps \in Seq(StepNames) /\ Len(CaptureSteps) = 9
    /\ CaptureSteps[1] = "load" /\ CaptureSteps[2] = "empty" /\ CaptureSteps[3] = "draw"
    /\ CaptureSteps[4] = "session" /\ CaptureSteps[5] = "turns" /\ CaptureSteps[6] = "summary"
    /\ CaptureSteps[7] = "load" /\ CaptureSteps[8] = "empty" /\ CaptureSteps[9] = "list"
    /\ \A k \in 1 .. 6 : CaptureSteps[3 + k] = SaveSteps[k]
  <1> DEFINE a == <<"load", "empty", "draw">>
  <1>1. a \in Seq(StepNames)
    BY DEF StepNames
  <1>2. /\ Len(a) = 3 /\ a[1] = "load" /\ a[2] = "empty" /\ a[3] = "draw"
        /\ CaptureSteps = a \o SaveSteps
    BY DEF CaptureSteps
  <1> HIDE DEF a
  <1>3. /\ a \o SaveSteps \in Seq(StepNames)
        /\ Len(a \o SaveSteps) = Len(a) + Len(SaveSteps)
        /\ \A i \in 1 .. Len(a) + Len(SaveSteps) : (a \o SaveSteps)[i] =
              IF i <= Len(a) THEN a[i] ELSE SaveSteps[i - Len(a)]
    BY <1>1, StepsOfSave, ConcatProperties, Zenon
  <1>4. CaptureSteps \in Seq(StepNames) /\ Len(CaptureSteps) = 9
    BY <1>2, <1>3, StepsOfSave
  <1>5. \A i \in 1 .. 9 : CaptureSteps[i] = IF i <= 3 THEN a[i] ELSE SaveSteps[i - 3]
    <2>1. \A i \in 1 .. 3 + 6 : (a \o SaveSteps)[i] = IF i <= 3 THEN a[i] ELSE SaveSteps[i - 3]
      BY <1>2, <1>3, StepsOfSave, Zenon
    <2>2. 3 + 6 = 9
      OBVIOUS
    <2>3. QED  BY <1>2, <2>1, <2>2, Zenon
  <1>6. \A k \in 1 .. 3 : CaptureSteps[k] = a[k]
    BY <1>5
  <1>7. \A k \in 1 .. 6 : CaptureSteps[3 + k] = SaveSteps[k]
    <2>1. \A k \in 1 .. 6 : 3 + k \in 1 .. 9 /\ ~(3 + k <= 3) /\ (3 + k) - 3 = k
      OBVIOUS
    <2>2. QED  BY <1>5, <2>1
  <1>8. CaptureSteps[1] = "load" /\ CaptureSteps[2] = "empty" /\ CaptureSteps[3] = "draw"
    <2>1. 1 \in 1 .. 3 /\ 2 \in 1 .. 3 /\ 3 \in 1 .. 3
      OBVIOUS
    <2>2. QED  BY <1>2, <1>6, <2>1, Zenon
  <1>9. /\ CaptureSteps[4] = "session" /\ CaptureSteps[5] = "turns"
        /\ CaptureSteps[6] = "summary" /\ CaptureSteps[7] = "load"
        /\ CaptureSteps[8] = "empty" /\ CaptureSteps[9] = "list"
    <2>1. \A k \in 1 .. 6 : 3 + k \in 4 .. 9
      OBVIOUS
    <2>2. /\ CaptureSteps[3 + 1] = "session" /\ CaptureSteps[3 + 2] = "turns"
          /\ CaptureSteps[3 + 3] = "summary" /\ CaptureSteps[3 + 4] = "load"
          /\ CaptureSteps[3 + 5] = "empty" /\ CaptureSteps[3 + 6] = "list"
      BY <1>7, StepsOfSave
    <2>3. QED  BY <2>2
  <1>10. QED  BY <1>4, <1>7, <1>8, <1>9

(* Places counted from the end of a sequence.                              *)
LEMMA Countdown ==
    ASSUME NEW n \in 1 .. 9
    PROVE  /\ 1 \in 1 .. n /\ n \in 1 .. n /\ n > 0
           /\ n # 1 => n - 1 \in 1 .. n - 1 /\ n - 1 + 1 = n /\ n - 1 > 0
           /\ 9 - n + 1 = 10 - n /\ 4 - n + 1 = 5 - n /\ 4 - n + n = 4
           /\ \A k \in 1 .. n : 9 - n + k \in 1 .. 9
           /\ \A k \in 1 .. n - 1 : 9 - n + (k + 1) = 9 - (n - 1) + k
           /\ \A k \in 1 .. n - 1 : 4 - n + (k + 1) = 4 - (n - 1) + k
           /\ \/ n = 9 /\ 10 - n = 1
              \/ n = 8 /\ 10 - n = 2
              \/ n = 7 /\ 10 - n = 3
              \/ n = 6 /\ 10 - n = 4
              \/ n = 5 /\ 10 - n = 5
              \/ n = 4 /\ 10 - n = 6 /\ 5 - n = 1
              \/ n = 3 /\ 10 - n = 7 /\ 5 - n = 2
              \/ n = 2 /\ 10 - n = 8 /\ 5 - n = 3
              \/ n = 1 /\ 10 - n = 9 /\ 5 - n = 4
  OBVIOUS

(* Which step comes when.                                                  *)
LEMMA StepOf ==
    ASSUME NEW t, Todo(t)
    PROVE  /\ t \in Seq(StepNames) /\ Len(t) \in 1 .. 9 /\ t # <<>>
           /\ Ends(t) <=> \E k \in DOMAIN t : t[k] = "unlist"
           /\ \/ ~Ends(t) /\ Len(t) = 9 /\ Head(t) = "load"
              \/ ~Ends(t) /\ Len(t) = 8 /\ Head(t) = "empty"
              \/ ~Ends(t) /\ Len(t) = 7 /\ Head(t) = "draw"
              \/ ~Ends(t) /\ Len(t) = 6 /\ Head(t) = "session"
              \/ ~Ends(t) /\ Len(t) = 5 /\ Head(t) = "turns"
              \/ ~Ends(t) /\ Len(t) = 4 /\ Head(t) = "summary"
              \/ ~Ends(t) /\ Len(t) = 3 /\ Head(t) = "load"
              \/ ~Ends(t) /\ Len(t) = 2 /\ Head(t) = "empty"
              \/ ~Ends(t) /\ Len(t) = 1 /\ Head(t) = "list"
              \/ Ends(t) /\ Len(t) = 4 /\ Head(t) = "remove"
              \/ Ends(t) /\ Len(t) = 3 /\ Head(t) = "load"
              \/ Ends(t) /\ Len(t) = 2 /\ Head(t) = "empty"
              \/ Ends(t) /\ Len(t) = 1 /\ Head(t) = "unlist"
  <1>1. t \in Seq(StepNames) /\ Len(t) \in 1 .. 9
    BY DEF Todo
  <1>2. t # <<>> /\ DOMAIN t = 1 .. Len(t) /\ Head(t) = t[1]
    BY <1>1
  <1>3. CASE LastOf(CaptureSteps, 9, t)
    <2>1. \A k \in 1 .. Len(t) : t[k] = CaptureSteps[9 - Len(t) + k]
      BY <1>3 DEF LastOf
    <2>2. t[1] = CaptureSteps[10 - Len(t)]
      <3>1. 1 \in 1 .. Len(t) /\ 9 - Len(t) + 1 = 10 - Len(t)
        BY <1>1, Countdown, Zenon
      <3>2. QED  BY <2>1, <3>1
    <2>3. \A k \in 1 .. Len(t) : t[k] # "unlist"
      <3>1. \A k \in 1 .. 9 : CaptureSteps[k] # "unlist"
        BY StepsOfCapture
      <3>2. \A k \in 1 .. Len(t) : 9 - Len(t) + k \in 1 .. 9
        BY <1>1, Countdown, Zenon
      <3>3. QED  BY <2>1, <3>1, <3>2
    <2>4. ~Ends(t) /\ ~\E k \in DOMAIN t : t[k] = "unlist"
      <3>1. Len(t) \in 1 .. Len(t)
        BY <1>1, Countdown, Zenon
      <3>2. QED  BY <1>2, <2>3, <3>1 DEF Ends
    <2>5. Head(t) = CaptureSteps[10 - Len(t)]
      BY <1>2, <2>2
    <2>6. \/ Len(t) = 9 /\ 10 - Len(t) = 1
          \/ Len(t) = 8 /\ 10 - Len(t) = 2
          \/ Len(t) = 7 /\ 10 - Len(t) = 3
          \/ Len(t) = 6 /\ 10 - Len(t) = 4
          \/ Len(t) = 5 /\ 10 - Len(t) = 5
          \/ Len(t) = 4 /\ 10 - Len(t) = 6
          \/ Len(t) = 3 /\ 10 - Len(t) = 7
          \/ Len(t) = 2 /\ 10 - Len(t) = 8
          \/ Len(t) = 1 /\ 10 - Len(t) = 9
      BY <1>1, Countdown, Zenon
    <2>7. \/ Len(t) = 9 /\ Head(t) = "load"
          \/ Len(t) = 8 /\ Head(t) = "empty"
          \/ Len(t) = 7 /\ Head(t) = "draw"
          \/ Len(t) = 6 /\ Head(t) = "session"
          \/ Len(t) = 5 /\ Head(t) = "turns"
          \/ Len(t) = 4 /\ Head(t) = "summary"
          \/ Len(t) = 3 /\ Head(t) = "load"
          \/ Len(t) = 2 /\ Head(t) = "empty"
          \/ Len(t) = 1 /\ Head(t) = "list"
      BY <2>5, <2>6, StepsOfCapture, Zenon
    <2>8. QED  BY <1>1, <1>2, <2>4, <2>7, Zenon
  <1>4. CASE Len(t) \in 1 .. 4 /\ LastOf(DeleteSteps, 4, t)
    <2>1. \A k \in 1 .. Len(t) : t[k] = DeleteSteps[4 - Len(t) + k]
      BY <1>4 DEF LastOf
    <2>2. t[1] = DeleteSteps[5 - Len(t)] /\ t[Len(t)] = DeleteSteps[4]
      <3>1. 1 \in 1 .. Len(t) /\ 4 - Len(t) + 1 = 5 - Len(t)
        BY <1>4
      <3>2. Len(t) \in 1 .. Len(t) /\ 4 - Len(t) + Len(t) = 4
        BY <1>4
      <3>3. QED  BY <2>1, <3>1, <3>2
    <2>3. Ends(t) /\ \E k \in DOMAIN t : t[k] = "unlist"
      <3>1. Len(t) \in 1 .. Len(t) /\ Len(t) > 0
        BY <1>4
      <3>2. QED  BY <1>2, <2>2, <3>1, StepsOfDelete DEF Ends
    <2>4. \/ Len(t) = 4 /\ 5 - Len(t) = 1
          \/ Len(t) = 3 /\ 5 - Len(t) = 2
          \/ Len(t) = 2 /\ 5 - Len(t) = 3
          \/ Len(t) = 1 /\ 5 - Len(t) = 4
      <3>1. Len(t) # 5 /\ Len(t) # 6 /\ Len(t) # 7 /\ Len(t) # 8 /\ Len(t) # 9
        BY <1>4
      <3>2. QED  BY <1>1, <3>1, Countdown, Zenon
    <2>5. \/ Len(t) = 4 /\ Head(t) = "remove"
          \/ Len(t) = 3 /\ Head(t) = "load"
          \/ Len(t) = 2 /\ Head(t) = "empty"
          \/ Len(t) = 1 /\ Head(t) = "unlist"
      <3>1. Head(t) = DeleteSteps[5 - Len(t)]
        BY <1>2, <2>2
      <3>2. QED  BY <2>4, <3>1, StepsOfDelete, Zenon
    <2>6. QED  BY <1>1, <1>2, <2>3, <2>5, Zenon
  <1>5. QED  BY <1>3, <1>4 DEF Todo

(* A step that is done leaves the steps behind it.                         *)
LEMMA StepsGoOn ==
    ASSUME NEW t, Todo(t), Len(t) # 1
    PROVE  Todo(Tail(t)) /\ Len(Tail(t)) = Len(t) - 1 /\ (Ends(Tail(t)) <=> Ends(t))
  <1>1. t \in Seq(StepNames) /\ Len(t) \in 2 .. 9 /\ t # <<>>
    BY StepOf
  <1>2. /\ Tail(t) \in Seq(StepNames) /\ Len(Tail(t)) = Len(t) - 1
        /\ \A k \in 1 .. Len(Tail(t)) : Tail(t)[k] = t[k + 1]
    BY <1>1, HeadTailProperties
  <1>3. \A k \in 1 .. Len(t) - 1 : Tail(t)[k] = t[k + 1] /\ k + 1 \in 1 .. Len(t)
    BY <1>1, <1>2
  <1>4. ASSUME NEW s, NEW n \in {4, 9}, LastOf(s, n, t)
        PROVE  LastOf(s, n, Tail(t))
    <2>1. \A k \in 1 .. Len(t) - 1 : n - Len(t) + (k + 1) = n - (Len(t) - 1) + k
      <3>1. Len(t) \in 1 .. 9
        BY <1>1
      <3>2. CASE n = 9
        BY <3>1, <3>2, Countdown, Zenon
      <3>3. CASE n = 4
        BY <3>1, <3>3, Countdown, Zenon
      <3>4. QED  BY <3>2, <3>3
    <2>2. \A k \in 1 .. Len(t) - 1 : t[k + 1] = s[n - Len(t) + (k + 1)]
      BY <1>3, <1>4 DEF LastOf
    <2>3. QED  BY <1>2, <1>3, <2>1, <2>2 DEF LastOf
  <1>5. Len(t) - 1 \in 1 .. 9 /\ (Len(t) \in 1 .. 4 => Len(t) - 1 \in 1 .. 4)
    BY <1>1
  <1>6. Todo(Tail(t))
    BY <1>2, <1>4, <1>5 DEF Todo
  <1>7. Ends(Tail(t)) <=> Ends(t)
    <2>1. Len(t) - 1 \in 1 .. Len(t) - 1 /\ Len(t) - 1 + 1 = Len(t) /\ Len(t) - 1 > 0 /\ Len(t) > 0
      BY StepOf, Countdown, Zenon
    <2>2. Tail(t)[Len(t) - 1] = t[Len(t)]
      BY <1>3, <2>1
    <2>3. QED  BY <1>2, <2>1, <2>2 DEF Ends
  <1>8. QED  BY <1>2, <1>6, <1>7

(* How the three commands begin.                                           *)
LEMMA StepsBegin ==
    /\ Todo(CaptureSteps) /\ ~Ends(CaptureSteps) /\ Len(CaptureSteps) = 9
    /\ Todo(SaveSteps) /\ ~Ends(SaveSteps) /\ Len(SaveSteps) = 6
    /\ Todo(DeleteSteps) /\ Ends(DeleteSteps) /\ Len(DeleteSteps) = 4
    /\ Head(CaptureSteps) = "load" /\ Head(SaveSteps) = "session"
    /\ Head(DeleteSteps) = "remove"
  <1>1. Todo(CaptureSteps)
    <2>1. \A k \in 1 .. 9 : 9 - 9 + k = k
      OBVIOUS
    <2>2. LastOf(CaptureSteps, 9, CaptureSteps)
      BY <2>1, StepsOfCapture DEF LastOf
    <2>3. QED  BY <2>2, StepsOfCapture DEF Todo
  <1>2. Todo(SaveSteps)
    <2>1. \A k \in 1 .. 6 : 9 - 6 + k = 3 + k
      OBVIOUS
    <2>2. LastOf(CaptureSteps, 9, SaveSteps)
      BY <2>1, StepsOfCapture, StepsOfSave DEF LastOf
    <2>3. QED  BY <2>2, StepsOfSave DEF Todo
  <1>3. Todo(DeleteSteps)
    <2>1. \A k \in 1 .. 4 : 4 - 4 + k = k
      OBVIOUS
    <2>2. LastOf(DeleteSteps, 4, DeleteSteps)
      BY <2>1, StepsOfDelete DEF LastOf
    <2>3. QED  BY <2>2, StepsOfDelete DEF Todo
  <1>4. /\ Head(CaptureSteps) = "load" /\ Head(SaveSteps) = "session"
        /\ Head(DeleteSteps) = "remove"
    <2>1. \A s \in Seq(StepNames) : Len(s) > 0 => Head(s) = s[1]
      OBVIOUS
    <2>2. QED  BY <2>1, StepsOfCapture, StepsOfSave, StepsOfDelete
  <1>5. QED  BY <1>1, <1>2, <1>3, <1>4, StepsOfCapture, StepsOfSave, StepsOfDelete DEF Ends

(* The places a command can be at.                                         *)
LEMMA StepIs ==
    ASSUME NEW p \in Captures, JobOK(p), job[p] # NoJob
    PROVE  /\ Todo(job[p].todo) /\ Left(p) \in 1 .. 9 /\ Step(p) = Head(job[p].todo)
           /\ Step(p) # "none"
           /\ Capturing(p) <=> ~Deleting(p) /\ job[p].id \notin chosenIds \cup {0}
           /\ \/ ~Deleting(p) /\ Left(p) = 9 /\ Step(p) = "load"
              \/ ~Deleting(p) /\ Left(p) = 8 /\ Step(p) = "empty"
              \/ ~Deleting(p) /\ Left(p) = 7 /\ Step(p) = "draw"
              \/ ~Deleting(p) /\ Left(p) = 6 /\ Step(p) = "session"
              \/ ~Deleting(p) /\ Left(p) = 5 /\ Step(p) = "turns"
              \/ ~Deleting(p) /\ Left(p) = 4 /\ Step(p) = "summary"
              \/ ~Deleting(p) /\ Left(p) = 3 /\ Step(p) = "load"
              \/ ~Deleting(p) /\ Left(p) = 2 /\ Step(p) = "empty"
              \/ ~Deleting(p) /\ Left(p) = 1 /\ Step(p) = "list"
              \/ Deleting(p) /\ Left(p) = 4 /\ Step(p) = "remove"
              \/ Deleting(p) /\ Left(p) = 3 /\ Step(p) = "load"
              \/ Deleting(p) /\ Left(p) = 2 /\ Step(p) = "empty"
              \/ Deleting(p) /\ Left(p) = 1 /\ Step(p) = "unlist"
  <1> DEFINE t == job[p].todo
  <1>1. Todo(t)
    BY DEF JobOK
  <1>2. /\ Len(t) \in 1 .. 9 /\ t # <<>>
        /\ Ends(t) <=> \E k \in DOMAIN t : t[k] = "unlist"
        /\ \/ ~Ends(t) /\ Len(t) = 9 /\ Head(t) = "load"
           \/ ~Ends(t) /\ Len(t) = 8 /\ Head(t) = "empty"
           \/ ~Ends(t) /\ Len(t) = 7 /\ Head(t) = "draw"
           \/ ~Ends(t) /\ Len(t) = 6 /\ Head(t) = "session"
           \/ ~Ends(t) /\ Len(t) = 5 /\ Head(t) = "turns"
           \/ ~Ends(t) /\ Len(t) = 4 /\ Head(t) = "summary"
           \/ ~Ends(t) /\ Len(t) = 3 /\ Head(t) = "load"
           \/ ~Ends(t) /\ Len(t) = 2 /\ Head(t) = "empty"
           \/ ~Ends(t) /\ Len(t) = 1 /\ Head(t) = "list"
           \/ Ends(t) /\ Len(t) = 4 /\ Head(t) = "remove"
           \/ Ends(t) /\ Len(t) = 3 /\ Head(t) = "load"
           \/ Ends(t) /\ Len(t) = 2 /\ Head(t) = "empty"
           \/ Ends(t) /\ Len(t) = 1 /\ Head(t) = "unlist"
    BY <1>1, StepOf, Zenon
  <1>3. Left(p) = Len(t) /\ Deleting(p) = Ends(t) /\ Step(p) = Head(t)
    BY <1>2 DEF Left, Deleting, Step
  <1>4. Step(p) # "none"
    BY <1>2, <1>3
  <1>5. Capturing(p) <=> ~Deleting(p) /\ job[p].id \notin chosenIds \cup {0}
    BY <1>2, <1>3, <1>4, Zenon DEF Capturing
  <1> HIDE DEF t
  <1>6. QED  BY <1>1, <1>2, <1>3, <1>4, <1>5, Zenon DEF t

LEMMA NoStep ==
    ASSUME NEW p \in Captures, job[p] = NoJob
    PROVE  /\ Left(p) = 0 /\ Step(p) = "none" /\ ~Deleting(p) /\ ~Updating(p) /\ ~Capturing(p)
           /\ p \notin Idless
  <1>1. job[p].todo = <<>> /\ Len(job[p].todo) = 0
    BY DEF NoJob
  <1>2. QED  BY <1>1 DEF Left, Step, Deleting, Ends, Updating, Capturing, Idless

(* A command that goes on to its next step, and one that is done.          *)
Onward(p, r, i) ==
    [todo |-> Tail(job[p].todo), read |-> r, id |-> i, by |-> job[p].by]

LEMMA DoneGoesOn ==
    ASSUME NEW p \in Captures, JobOK(p), job[p] # NoJob, DOMAIN job = Captures
    PROVE  /\ DOMAIN Done(p) = Captures /\ \A q \in Captures \ {p} : Done(p)[q] = job[q]
           /\ Done(p)[p] = IF Left(p) = 1 THEN NoJob ELSE Onward(p, job[p].read, job[p].id)
  <1>1. job[p] = [todo |-> job[p].todo, read |-> job[p].read, id |-> job[p].id, by |-> job[p].by]
    BY DEF JobOK
  <1>2. /\ DOMAIN Done(p) = Captures /\ \A q \in Captures \ {p} : Done(p)[q] = job[q]
        /\ Done(p)[p] = GoOn(job[p])
    BY DEF Done
  <1> DEFINE t == Tail(job[p].todo)
  <1>3. [job[p] EXCEPT !.todo = t] = [todo |-> t, read |-> job[p].read, id |-> job[p].id,
                                      by |-> job[p].by]
    <2> HIDE DEF t
    <2>1. QED  BY <1>1
  <1>4. GoOn(job[p]) = IF Left(p) = 1 THEN NoJob ELSE Onward(p, job[p].read, job[p].id)
    BY <1>3, Zenon DEF GoOn, Onward, Left
  <1>5. QED  BY <1>2, <1>4

LEMMA TheStepsAfter ==
    ASSUME NEW p \in Captures, JobOK(p), job[p] # NoJob, Left(p) # 1,
           job'[p].todo = Tail(job[p].todo)
    PROVE  /\ Todo(job'[p].todo) /\ Left(p)' = Left(p) - 1 /\ (Deleting(p)' <=> Deleting(p))
           /\ \/ ~Deleting(p) /\ Left(p) = 9 /\ Step(p) = "load" /\ Step(p)' = "empty"
              \/ ~Deleting(p) /\ Left(p) = 8 /\ Step(p) = "empty" /\ Step(p)' = "draw"
              \/ ~Deleting(p) /\ Left(p) = 7 /\ Step(p) = "draw" /\ Step(p)' = "session"
              \/ ~Deleting(p) /\ Left(p) = 6 /\ Step(p) = "session" /\ Step(p)' = "turns"
              \/ ~Deleting(p) /\ Left(p) = 5 /\ Step(p) = "turns" /\ Step(p)' = "summary"
              \/ ~Deleting(p) /\ Left(p) = 4 /\ Step(p) = "summary" /\ Step(p)' = "load"
              \/ ~Deleting(p) /\ Left(p) = 3 /\ Step(p) = "load" /\ Step(p)' = "empty"
              \/ ~Deleting(p) /\ Left(p) = 2 /\ Step(p) = "empty" /\ Step(p)' = "list"
              \/ Deleting(p) /\ Left(p) = 4 /\ Step(p) = "remove" /\ Step(p)' = "load"
              \/ Deleting(p) /\ Left(p) = 3 /\ Step(p) = "load" /\ Step(p)' = "empty"
              \/ Deleting(p) /\ Left(p) = 2 /\ Step(p) = "empty" /\ Step(p)' = "unlist"
  <1> DEFINE t == Tail(job[p].todo)
  <1>1. Todo(job[p].todo) /\ Len(job[p].todo) # 1
    BY DEF JobOK, Left
  <1>2. Todo(t) /\ Len(t) = Len(job[p].todo) - 1 /\ (Ends(t) <=> Ends(job[p].todo))
    BY <1>1, StepsGoOn, Zenon
  <1>3. /\ t # <<>>
        /\ \/ ~Ends(t) /\ Len(t) = 9 /\ Head(t) = "load"
           \/ ~Ends(t) /\ Len(t) = 8 /\ Head(t) = "empty"
           \/ ~Ends(t) /\ Len(t) = 7 /\ Head(t) = "draw"
           \/ ~Ends(t) /\ Len(t) = 6 /\ Head(t) = "session"
           \/ ~Ends(t) /\ Len(t) = 5 /\ Head(t) = "turns"
           \/ ~Ends(t) /\ Len(t) = 4 /\ Head(t) = "summary"
           \/ ~Ends(t) /\ Len(t) = 3 /\ Head(t) = "load"
           \/ ~Ends(t) /\ Len(t) = 2 /\ Head(t) = "empty"
           \/ ~Ends(t) /\ Len(t) = 1 /\ Head(t) = "list"
           \/ Ends(t) /\ Len(t) = 4 /\ Head(t) = "remove"
           \/ Ends(t) /\ Len(t) = 3 /\ Head(t) = "load"
           \/ Ends(t) /\ Len(t) = 2 /\ Head(t) = "empty"
           \/ Ends(t) /\ Len(t) = 1 /\ Head(t) = "unlist"
    BY <1>2, StepOf, Zenon
  <1> HIDE DEF t
  <1>4. job'[p].todo = t
    BY DEF t
  <1>5. /\ Left(p)' = Len(t) /\ (Deleting(p)' <=> Ends(t)) /\ Step(p)' = Head(t)
        /\ Left(p) = Len(job[p].todo) /\ (Deleting(p) <=> Ends(job[p].todo))
    BY <1>3, <1>4 DEF Left, Deleting, Step
  <1>6. Left(p)' = Left(p) - 1 /\ (Deleting(p)' <=> Deleting(p)) /\ Left(p) \in 1 .. 9
    BY <1>2, <1>5, StepIs
  <1>7. \/ ~Deleting(p) /\ Left(p)' = 9 /\ Step(p)' = "load"
        \/ ~Deleting(p) /\ Left(p)' = 8 /\ Step(p)' = "empty"
        \/ ~Deleting(p) /\ Left(p)' = 7 /\ Step(p)' = "draw"
        \/ ~Deleting(p) /\ Left(p)' = 6 /\ Step(p)' = "session"
        \/ ~Deleting(p) /\ Left(p)' = 5 /\ Step(p)' = "turns"
        \/ ~Deleting(p) /\ Left(p)' = 4 /\ Step(p)' = "summary"
        \/ ~Deleting(p) /\ Left(p)' = 3 /\ Step(p)' = "load"
        \/ ~Deleting(p) /\ Left(p)' = 2 /\ Step(p)' = "empty"
        \/ ~Deleting(p) /\ Left(p)' = 1 /\ Step(p)' = "list"
        \/ Deleting(p) /\ Left(p)' = 4 /\ Step(p)' = "remove"
        \/ Deleting(p) /\ Left(p)' = 3 /\ Step(p)' = "load"
        \/ Deleting(p) /\ Left(p)' = 2 /\ Step(p)' = "empty"
        \/ Deleting(p) /\ Left(p)' = 1 /\ Step(p)' = "unlist"
    BY <1>3, <1>5, <1>6, Zenon
  <1>8. \A a \in 1 .. 9 : \A b : b = a - 1 =>
          \/ a = 1
          \/ a = 2 /\ b = 1
          \/ a = 3 /\ b = 2
          \/ a = 4 /\ b = 3
          \/ a = 5 /\ b = 4
          \/ a = 6 /\ b = 5
          \/ a = 7 /\ b = 6
          \/ a = 8 /\ b = 7
          \/ a = 9 /\ b = 8
    OBVIOUS
  <1>9. QED  BY <1>2, <1>4, <1>6, <1>7, <1>8, StepIs

(* A step is one process's: the others are where they were.                *)
Others(p) ==
    /\ DOMAIN job' = Captures /\ \A q \in Captures \ {p} : job'[q] = job[q]
    /\ captures' \in {captures, captures + 1} /\ captures' <= MaxCaptures
    /\ removedIds \subseteq removedIds' /\ chosenIds \subseteq chosenIds'

(* The ids go up to a limit that grows with every id that is drawn.        *)
LEMMA IdLimitGrows ==
    ASSUME Typed, NEW p \in Captures, Others(p),
           p \in Idless' /\ p \notin Idless => captures' = captures + 1
    PROVE  /\ IdLimit' \in Nat \ {0} /\ IdLimit <= IdLimit'
           /\ p \in Idless /\ p \notin Idless' => IdLimit + 1 <= IdLimit'
           /\ IdLimit' <= captures' + 1
           /\ captures \in Nat /\ captures' \in 0 .. MaxCaptures /\ IdLimit \in Nat
  <1>1. /\ IsFiniteSet(Captures) /\ MaxCaptures \in Nat
        /\ captures \in 0 .. MaxCaptures /\ IdLimit \in Nat \ {0}
    BY SessionStoreAssumption DEF Typed, Values
  <1>2. Idless \subseteq Captures /\ Idless' \subseteq Captures
    BY DEF Idless
  <1>3. IsFiniteSet(Idless) /\ IsFiniteSet(Idless')
    BY <1>1, <1>2, FS_Subset
  <1>4. \A q \in Captures \ {p} : q \in Idless' <=> q \in Idless
    BY DEF Others, Idless, Left
  <1>5. Cardinality(Idless) \in Nat /\ Cardinality(Idless') \in Nat
    BY <1>3, FS_CardinalityType
  <1>6. captures' \in 0 .. MaxCaptures /\ captures' \in {captures, captures + 1}
    BY <1>1 DEF Others
  <1>7. IdLimit = captures + 1 - Cardinality(Idless) /\ IdLimit' = captures' + 1 - Cardinality(Idless')
    BY DEF IdLimit
  <1>8. CASE p \in Idless /\ p \notin Idless'
    <2>1. Idless' = Idless \ {p}
      BY <1>2, <1>4, <1>8
    <2>2. Cardinality(Idless') = Cardinality(Idless) - 1
      BY <1>3, <1>8, <2>1, FS_RemoveElement
    <2>3. QED  BY <1>1, <1>5, <1>6, <1>7, <2>2
  <1>9. CASE p \notin Idless /\ p \in Idless'
    <2>1. Idless' = Idless \cup {p}
      BY <1>2, <1>4, <1>9
    <2>2. Cardinality(Idless') = Cardinality(Idless) + 1
      BY <1>3, <1>9, <2>1, FS_AddElement
    <2>3. captures' = captures + 1
      BY <1>9
    <2>4. QED  BY <1>1, <1>5, <1>7, <1>9, <2>2, <2>3, <1>6
  <1>10. CASE p \in Idless <=> p \in Idless'
    <2>1. Idless' = Idless
      BY <1>2, <1>4, <1>10
    <2>2. QED  BY <1>1, <1>5, <1>6, <1>7, <1>10, <2>1
  <1>11. QED  BY <1>8, <1>9, <1>10

LEMMA IndexStaysOK ==
    ASSUME NEW I, NEW m \in Nat, NEW n \in Nat, m <= n, IndexUpTo(I, m)
    PROVE  IndexUpTo(I, n)
  BY DEF IndexUpTo

LEMMA NoIndexOK ==
    ASSUME NEW n \in Nat \ {0}
    PROVE  IndexUpTo(EmptyIndex, n)
  BY DEF IndexUpTo, EmptyIndex

(* The types hold after a step if they do of what it changed.              *)
LEMMA StaysTyped ==
    ASSUME Typed, NEW p \in Captures, Others(p), JobOK(p)',
           p \in Idless' /\ p \notin Idless => captures' = captures + 1,
           captureDeaths' \in Nat, disturbed' \in BOOLEAN, IndexUpTo(index', IdLimit'),
           sessionDir' \in [SessionIds -> [session : 0 .. captures', turns : 0 .. captures',
                                           summary : 0 .. captures']]
    PROVE  Typed'
  <1>1. /\ IdLimit' \in Nat \ {0} /\ IdLimit <= IdLimit' /\ IdLimit \in Nat
        /\ captures' \in 0 .. MaxCaptures /\ captures \in Nat
    BY IdLimitGrows
  <1>2. Values'
    BY <1>1 DEF Values, Others, IndexOK
  <1>3. ASSUME NEW q \in Captures \ {p}
        PROVE  JobOK(q)'
    <2>1. job'[q] = job[q] /\ JobOK(q)
      BY DEF Others, Typed
    <2>2. CASE job[q] = NoJob
      BY <2>1, <2>2 DEF JobOK
    <2>3. CASE job[q] # NoJob
      <3>1. /\ IndexUpTo(job[q].read, IdLimit') /\ job[q].by \in 1 .. captures'
        <4>1. IndexUpTo(job[q].read, IdLimit) /\ job[q].by \in 1 .. captures
          BY <2>1, <2>3 DEF JobOK, IndexOK
        <4>2. IndexUpTo(job[q].read, IdLimit')
          BY <1>1, <4>1, IndexStaysOK
        <4>3. 1 .. captures \subseteq 1 .. captures'
          BY <1>1 DEF Others
        <4>4. QED  BY <4>1, <4>2, <4>3
      <3>2. Left(q)' = Left(q) /\ (Deleting(q)' <=> Deleting(q)) /\ (q \in Idless' <=> q \in Idless)
        BY <2>1 DEF Left, Deleting, Idless
      <3>3. Deleting(q)' /\ Left(q)' <= 3 => job'[q].id \in removedIds'
        BY <2>1, <2>3, <3>2 DEF JobOK, Others
      <3>4. QED  BY <2>1, <2>3, <3>1, <3>2, <3>3 DEF JobOK, IndexOK
    <2>4. QED  BY <2>2, <2>3
  <1>4. QED  BY <1>2, <1>3 DEF Typed

(* ... and that of a command that goes on, or ends, are those.             *)
LEMMA GoesOnTyped ==
    ASSUME Typed, NEW p \in Captures, Others(p), job[p] # NoJob, captures' = captures,
           Left(p) # 1, NEW r, IndexUpTo(r, IdLimit'), NEW i \in SessionIds \cup {0},
           job'[p] = Onward(p, r, i), i = 0 <=> Left(p) > 7, Deleting(p) => i \in removedIds'
    PROVE  JobOK(p)'
  <1>1. /\ JobOK(p) /\ captures \in Nat
    BY SessionStoreAssumption DEF Typed, Values
  <1>2. /\ job'[p] = [todo |-> Tail(job[p].todo), read |-> r, id |-> i, by |-> job[p].by]
        /\ job'[p].todo = Tail(job[p].todo) /\ job'[p].read = r /\ job'[p].id = i
        /\ job'[p].by = job[p].by /\ job[p].by \in 1 .. captures'
    BY <1>1 DEF Onward, JobOK
  <1>3. /\ Todo(job'[p].todo) /\ Left(p)' = Left(p) - 1 /\ (Deleting(p)' <=> Deleting(p))
    BY <1>1, <1>2, TheStepsAfter
  <1>4. Left(p) \in 1 .. 9
    BY <1>1, StepIs
  <1>5. p \in Idless' <=> i = 0
    <2>1. Left(p) - 1 >= 7 <=> Left(p) > 7
      BY <1>4
    <2>2. QED  BY <1>3, <2>1 DEF Idless
  <1>6. QED  BY <1>2, <1>3, <1>5 DEF JobOK, IndexOK

LEMMA EndsTyped ==
    ASSUME NEW p \in Captures, job'[p] = NoJob
    PROVE  JobOK(p)' /\ p \notin Idless'
  BY DEF JobOK, Idless, Left, NoJob

(* Any step keeps the types.                                               *)
LEMMA BeginsTyped ==
    ASSUME Typed, NEW p \in Captures, NEW t, NEW i, Command(p, t, i),
           \/ t = CaptureSteps /\ i = 0
           \/ t \in {SaveSteps, DeleteSteps} /\ i \in GivenIds,
           UNCHANGED <<index, sessionDir, captureDeaths, removedIds, disturbed>>,
           chosenIds \subseteq chosenIds'
    PROVE  /\ Typed' /\ Others(p) /\ job[p] = NoJob /\ job'[p].id = i /\ job'[p].todo = t
           /\ job'[p] # NoJob
  <1>1. /\ JobOK(p) /\ DOMAIN job = Captures /\ captures \in 0 .. MaxCaptures
        /\ captures < MaxCaptures /\ MaxCaptures \in Nat /\ captures' = captures + 1
    BY SessionStoreAssumption DEF Typed, Values, Command
  <1>2. job[p] = NoJob
    <2>1. Step(p) = "none"
      BY DEF Command
    <2>2. QED  BY <1>1, <2>1, StepIs
  <1>3. job'[p] = [todo |-> t, read |-> EmptyIndex, id |-> i, by |-> captures + 1]
    <2>1. job'[p] = [NoJob EXCEPT !.todo = t, !.id = i, !.by = captures + 1]
      BY <1>1 DEF Command
    <2>2. QED  BY <2>1 DEF NoJob
  <1>4. Others(p)
    BY <1>1 DEF Others, Command
  <1>5. Todo(t) /\ (p \in Idless' <=> t = CaptureSteps) /\ (Deleting(p)' => Left(p)' = 4)
    <2>1. Left(p)' = Len(t) /\ (Deleting(p)' <=> Ends(t))
      BY <1>3 DEF Left, Deleting
    <2>2. Todo(t) /\ (Len(t) = 9 <=> t = CaptureSteps) /\ (Len(t) \in {4, 6, 9}) /\ (Ends(t) => Len(t) = 4)
      BY StepsBegin
    <2>3. QED  BY <2>1, <2>2 DEF Idless
  <1>6. IdLimit' \in Nat \ {0} /\ IdLimit \in Nat /\ IdLimit <= IdLimit'
    BY <1>1, <1>4, IdLimitGrows
  <1>7. JobOK(p)'
    <2>1. i \in SessionIds \cup {0} /\ (i = 0 <=> t = CaptureSteps)
      <3>1. Len(SaveSteps) # Len(CaptureSteps) /\ Len(DeleteSteps) # Len(CaptureSteps)
        BY StepsBegin
      <3>2. QED  BY <3>1, SessionStoreAssumption DEF SessionIds
    <2>2. /\ job'[p].todo = t /\ job'[p].read = EmptyIndex /\ job'[p].id = i
          /\ job'[p].by \in 1 .. captures'
      BY <1>1, <1>3
    <2>3. IndexUpTo(job'[p].read, IdLimit')
      BY <1>6, <2>2, NoIndexOK
    <2>4. ~(Deleting(p)' /\ Left(p)' <= 3)
      BY <1>5
    <2>5. QED  BY <1>3, <1>5, <2>1, <2>2, <2>3, <2>4 DEF JobOK, IndexOK
  <1>8. Typed'
    <2>1. IndexUpTo(index', IdLimit')
      <3>1. IndexUpTo(index, IdLimit)
        BY DEF Typed, Values, IndexOK
      <3>2. QED  BY <1>6, <3>1, IndexStaysOK
    <2>2. sessionDir' \in [SessionIds -> [session : 0 .. captures', turns : 0 .. captures',
                                          summary : 0 .. captures']]
      <3>1. 0 .. captures \subseteq 0 .. captures'
        BY <1>1
      <3>2. QED  BY <3>1 DEF Typed, Values
    <2>3. captureDeaths' \in Nat /\ disturbed' \in BOOLEAN
      BY DEF Typed, Values
    <2>4. QED  BY <1>1, <1>4, <1>7, <2>1, <2>2, <2>3, StaysTyped
  <1>9. job'[p] # NoJob
    BY <1>3, <1>5, StepOf DEF NoJob
  <1>10. QED  BY <1>2, <1>3, <1>4, <1>8, <1>9

(* What the steps of a command have in common.                             *)
LEMMA Working ==
    ASSUME Typed, NEW p \in Captures, Step(p) # "none", captures' = captures,
           DOMAIN job' = Captures, \A q \in Captures \ {p} : job'[q] = job[q],
           removedIds \subseteq removedIds', chosenIds \subseteq chosenIds',
           p \in Idless' => p \in Idless
    PROVE  /\ Others(p) /\ job[p] # NoJob /\ JobOK(p)
           /\ IdLimit \in Nat /\ IdLimit' \in Nat \ {0} /\ IdLimit <= IdLimit'
           /\ p \in Idless /\ p \notin Idless' => IdLimit + 1 <= IdLimit'
           /\ IdLimit' <= captures + 1 /\ captures \in 0 .. MaxCaptures
           /\ IndexUpTo(index, IdLimit') /\ IndexUpTo(job[p].read, IdLimit')
  <1>1. /\ JobOK(p) /\ DOMAIN job = Captures /\ captures \in 0 .. MaxCaptures
        /\ MaxCaptures \in Nat /\ IndexUpTo(index, IdLimit)
    BY SessionStoreAssumption DEF Typed, Values, IndexOK
  <1>2. job[p] # NoJob
    BY NoStep
  <1>3. Others(p)
    BY <1>1 DEF Others
  <1>4. /\ IdLimit \in Nat /\ IdLimit' \in Nat \ {0} /\ IdLimit <= IdLimit'
        /\ p \in Idless /\ p \notin Idless' => IdLimit + 1 <= IdLimit'
        /\ IdLimit' <= captures + 1
    BY <1>3, IdLimitGrows
  <1>5. IndexUpTo(job[p].read, IdLimit)
    BY <1>1, <1>2 DEF JobOK, IndexOK
  <1>6. IndexUpTo(index, IdLimit') /\ IndexUpTo(job[p].read, IdLimit')
    BY <1>1, <1>4, <1>5, IndexStaysOK
  <1>7. QED  BY <1>1, <1>2, <1>3, <1>4, <1>6

LEMMA DoneShrinks ==
    ASSUME Typed, NEW p \in Captures, Step(p) # "none",
           \/ Left(p) = 1 /\ job'[p] = NoJob
           \/ Left(p) # 1 /\ job'[p].todo = Tail(job[p].todo)
    PROVE  p \in Idless' => p \in Idless /\ Left(p) >= 8
  <1>1. JobOK(p) /\ job[p] # NoJob
    BY NoStep DEF Typed
  <1>2. Left(p) \in 1 .. 9
    BY <1>1, StepIs
  <1>3. CASE Left(p) # 1
    <2>1. Left(p)' = Left(p) - 1
      BY <1>1, <1>3, TheStepsAfter
    <2>2. QED  BY <1>2, <2>1 DEF Idless
  <1>4. CASE Left(p) = 1
    BY <1>4, EndsTyped
  <1>5. QED  BY <1>3, <1>4

(* A step that reads, or has read, an index and goes on.                   *)
LEMMA OnwardTyped ==
    ASSUME Typed, NEW p \in Captures, Step(p) # "none", captures' = captures,
           DOMAIN job' = Captures, \A q \in Captures \ {p} : job'[q] = job[q],
           removedIds \subseteq removedIds', chosenIds \subseteq chosenIds',
           captureDeaths' \in Nat, disturbed' \in BOOLEAN,
           sessionDir' \in [SessionIds -> [session : 0 .. captures, turns : 0 .. captures,
                                           summary : 0 .. captures]],
           IndexUpTo(index', IdLimit'),
           \/ Left(p) = 1 /\ job'[p] = NoJob
           \/ /\ Left(p) \notin {1, 7}
              /\ \E r : IndexUpTo(r, IdLimit') /\ job'[p] = Onward(p, r, job[p].id),
           Step(p) = "remove" => job[p].id \in removedIds'
    PROVE  Typed'
  <1>1. p \in Idless' => p \in Idless
    <2>1. \/ Left(p) = 1 /\ job'[p] = NoJob
          \/ Left(p) # 1 /\ job'[p].todo = Tail(job[p].todo)
      <3>1. \A r : Onward(p, r, job[p].id).todo = Tail(job[p].todo)
        BY DEF Onward
      <3>2. QED  BY <3>1
    <2>2. QED  BY <2>1, DoneShrinks
  <1>2. /\ Others(p) /\ job[p] # NoJob /\ JobOK(p) /\ captures \in 0 .. MaxCaptures
    BY <1>1, Working
  <1>3. JobOK(p)'
    <2>1. CASE Left(p) = 1 /\ job'[p] = NoJob
      BY <2>1, EndsTyped
    <2>2. CASE Left(p) \notin {1, 7} /\ \E r : IndexUpTo(r, IdLimit') /\ job'[p] = Onward(p, r, job[p].id)
      <3>1. PICK r : IndexUpTo(r, IdLimit') /\ job'[p] = Onward(p, r, job[p].id)
        BY <2>2
      <3>2. Left(p) \in 1 .. 9
        BY <1>2, StepIs
      <3>3. job[p].id \in SessionIds \cup {0} /\ (job[p].id = 0 <=> Left(p) > 7)
        <4>1. job[p].id \in SessionIds \cup {0} /\ (job[p].id = 0 <=> Left(p) >= 7)
          BY <1>2 DEF JobOK, Idless
        <4>2. Left(p) >= 7 <=> Left(p) > 7
          BY <2>2, <3>2
        <4>3. QED  BY <4>1, <4>2
      <3>4. Deleting(p) => job[p].id \in removedIds'
        <4>1. CASE Deleting(p) /\ Left(p) <= 3
          BY <1>2, <4>1 DEF JobOK
        <4>2. CASE Deleting(p) /\ ~(Left(p) <= 3)
          <5>1. Step(p) = "remove"
            BY <1>2, <4>2, StepIs
          <5>2. QED  BY <5>1
        <4>3. QED  BY <4>1, <4>2
      <3>5. QED  BY <1>2, <2>2, <3>1, <3>3, <3>4, GoesOnTyped
    <2>3. QED  BY <2>1, <2>2
  <1>4. QED  BY <1>1, <1>2, <1>3, StaysTyped

LEMMA CaptureTyped ==
    ASSUME Typed, NEW p \in Captures, CaptureSession(p)
    PROVE  Typed' /\ Others(p) /\ job[p] = NoJob /\ job'[p].id = 0 /\ job'[p].todo = CaptureSteps
  BY BeginsTyped DEF CaptureSession

LEMMA SaveTyped ==
    ASSUME Typed, NEW p \in Captures, NEW i \in GivenIds, SaveSession(p, i)
    PROVE  Typed' /\ Others(p) /\ job[p] = NoJob /\ job'[p].id = i /\ job'[p].todo = SaveSteps
  <1>1. chosenIds \subseteq chosenIds'
    BY DEF SaveSession
  <1>2. QED  BY <1>1, BeginsTyped DEF SaveSession

LEMMA DeleteTyped ==
    ASSUME Typed, NEW p \in Captures, NEW i \in GivenIds, DeleteSession(p, i)
    PROVE  Typed' /\ Others(p) /\ job[p] = NoJob /\ job'[p].id = i /\ job'[p].todo = DeleteSteps
  BY BeginsTyped DEF DeleteSession

(* How a command that works goes on, as each step says it.                 *)
LEMMA WhatIsDone ==
    ASSUME Typed, NEW p \in Captures, Step(p) # "none"
    PROVE  /\ JobOK(p) /\ job[p] # NoJob /\ Left(p) \in 1 .. 9
           /\ DOMAIN job = Captures
           /\ DOMAIN Done(p) = Captures /\ \A q \in Captures \ {p} : Done(p)[q] = job[q]
           /\ Left(p) = 1 => Done(p)[p] = NoJob
           /\ Left(p) # 1 => Done(p)[p] = Onward(p, job[p].read, job[p].id)
  <1>1. JobOK(p) /\ job[p] # NoJob /\ DOMAIN job = Captures
    BY NoStep DEF Typed, Values
  <1>2. Left(p) \in 1 .. 9
    BY <1>1, StepIs
  <1>3. QED  BY <1>1, <1>2, DoneGoesOn

LEMMA LoadTyped ==
    ASSUME Typed, NEW p \in Captures, loadIndexUnsafe(p)
    PROVE  /\ Typed' /\ Others(p) /\ job'[p] = Onward(p, index, job[p].id)
           /\ Left(p) \in {9, 3}
  <1>1. Step(p) = "load"
    BY DEF loadIndexUnsafe
  <1>2. /\ JobOK(p) /\ job[p] # NoJob /\ DOMAIN Done(p) = Captures
        /\ \A q \in Captures \ {p} : Done(p)[q] = job[q]
        /\ Left(p) # 1 => Done(p)[p] = Onward(p, job[p].read, job[p].id)
    BY <1>1, WhatIsDone
  <1>3. Left(p) \in {9, 3}
    BY <1>1, <1>2, StepIs
  <1>4. /\ DOMAIN job' = Captures /\ \A q \in Captures \ {p} : job'[q] = job[q]
        /\ job'[p] = Onward(p, index, job[p].id)
    <2>1. job' = [Done(p) EXCEPT ![p].read = index]
      BY DEF loadIndexUnsafe, loadIndex
    <2>2. job'[p] = [Onward(p, job[p].read, job[p].id) EXCEPT !.read = index]
      BY <1>2, <1>3, <2>1
    <2>3. \A q \in Captures \ {p} : job'[q] = job[q]
      BY <1>2, <2>1
    <2>4. DOMAIN job' = Captures
      BY <1>2, <2>1
    <2>5. job'[p] = Onward(p, index, job[p].id)
      BY <2>2 DEF Onward
    <2>6. QED  BY <2>3, <2>4, <2>5
  <1>5. /\ UNCHANGED <<index, sessionDir, captures, captureDeaths, reported, chosenIds, removedIds>>
        /\ disturbed' \in BOOLEAN /\ captureDeaths \in Nat
        /\ sessionDir \in [SessionIds -> [session : 0 .. captures, turns : 0 .. captures,
                                          summary : 0 .. captures]]
    BY DEF loadIndexUnsafe, Typed, Values
  <1>6. p \in Idless' => p \in Idless
    <2>1. Left(p) # 1 /\ job'[p].todo = Tail(job[p].todo)
      BY <1>3, <1>4 DEF Onward
    <2>2. QED  BY <1>1, <2>1, DoneShrinks
  <1>7. Others(p) /\ IndexUpTo(index, IdLimit')
    BY <1>1, <1>4, <1>5, <1>6, Working
  <1>8. Left(p) \notin {1, 7} /\ Step(p) # "none" /\ Step(p) # "remove"
    BY <1>1, <1>3
  <1>9. Typed'
    BY <1>4, <1>5, <1>7, <1>8, OnwardTyped
  <1>10. QED  BY <1>3, <1>4, <1>7, <1>9

LEMMA EmptyTyped ==
    ASSUME Typed, NEW p \in Captures, EmptyFile(p)
    PROVE  /\ Typed' /\ Others(p) /\ job'[p] = Onward(p, job[p].read, job[p].id)
           /\ Left(p) \in {8, 2}
  <1>1. Step(p) = "empty"
    BY DEF EmptyFile
  <1>2. /\ JobOK(p) /\ job[p] # NoJob /\ DOMAIN Done(p) = Captures
        /\ \A q \in Captures \ {p} : Done(p)[q] = job[q]
        /\ Left(p) # 1 => Done(p)[p] = Onward(p, job[p].read, job[p].id)
    BY <1>1, WhatIsDone
  <1>3. Left(p) \in {8, 2}
    BY <1>1, <1>2, StepIs
  <1>4. /\ DOMAIN job' = Captures /\ \A q \in Captures \ {p} : job'[q] = job[q]
        /\ job'[p] = Onward(p, job[p].read, job[p].id)
    BY <1>2, <1>3 DEF EmptyFile
  <1>5. /\ UNCHANGED <<sessionDir, captures, captureDeaths, reported, chosenIds, removedIds, disturbed>>
        /\ disturbed' \in BOOLEAN /\ captureDeaths \in Nat /\ index' = EmptyIndex
        /\ sessionDir \in [SessionIds -> [session : 0 .. captures, turns : 0 .. captures,
                                          summary : 0 .. captures]]
    BY DEF EmptyFile, Typed, Values
  <1>6. p \in Idless' => p \in Idless
    <2>1. Left(p) # 1 /\ job'[p].todo = Tail(job[p].todo)
      BY <1>3, <1>4 DEF Onward
    <2>2. QED  BY <1>1, <2>1, DoneShrinks
  <1>7. Others(p) /\ IndexUpTo(job[p].read, IdLimit') /\ IdLimit' \in Nat \ {0}
    BY <1>1, <1>4, <1>5, <1>6, Working
  <1>8. Left(p) \notin {1, 7} /\ Step(p) # "none" /\ Step(p) # "remove"
    BY <1>1, <1>3
  <1>9. IndexUpTo(index', IdLimit')
    BY <1>5, <1>7, NoIndexOK
  <1>10. Typed'
    BY <1>4, <1>5, <1>7, <1>8, <1>9, OnwardTyped
  <1>11. QED  BY <1>3, <1>4, <1>7, <1>10

LEMMA DrawTyped ==
    ASSUME Typed, NEW p \in Captures, GetNextSessionID(p)
    PROVE  /\ Typed' /\ Others(p) /\ job'[p] = Onward(p, job[p].read, job[p].read.next)
           /\ Left(p) = 7 /\ ~Deleting(p)
           /\ index' = [sessions |-> job[p].read.sessions, next |-> job[p].read.next + 1]
           /\ job[p].read.next \in Nat \ {0}
  <1> DEFINE i == job[p].read.next
  <1>1. Step(p) = "draw"
    BY DEF GetNextSessionID
  <1>2. /\ JobOK(p) /\ job[p] # NoJob /\ DOMAIN Done(p) = Captures
        /\ \A q \in Captures \ {p} : Done(p)[q] = job[q]
        /\ Left(p) # 1 => Done(p)[p] = Onward(p, job[p].read, job[p].id)
    BY <1>1, WhatIsDone
  <1>3. Left(p) = 7 /\ ~Deleting(p)
    BY <1>1, <1>2, StepIs
  <1>4. /\ DOMAIN job' = Captures /\ \A q \in Captures \ {p} : job'[q] = job[q]
        /\ job'[p] = Onward(p, job[p].read, i)
    <2>1. job' = [Done(p) EXCEPT ![p].id = i]
      BY DEF GetNextSessionID
    <2>2. job'[p] = [Onward(p, job[p].read, job[p].id) EXCEPT !.id = i]
      BY <1>2, <1>3, <2>1
    <2>3. \A q \in Captures \ {p} : job'[q] = job[q]
      BY <1>2, <2>1
    <2>4. DOMAIN job' = Captures
      BY <1>2, <2>1
    <2>5. job'[p] = Onward(p, job[p].read, i)
      BY <2>2 DEF Onward
    <2>6. QED  BY <2>3, <2>4, <2>5
  <1>5. /\ UNCHANGED <<sessionDir, captures, captureDeaths, reported, chosenIds, removedIds, disturbed>>
        /\ disturbed' \in BOOLEAN /\ captureDeaths' \in Nat
        /\ sessionDir' \in [SessionIds -> [session : 0 .. captures', turns : 0 .. captures',
                                           summary : 0 .. captures']]
    BY DEF GetNextSessionID, Typed, Values
  <1>6. p \notin Idless' /\ p \in Idless
    <2>1. Left(p) # 1 /\ job'[p].todo = Tail(job[p].todo)
      BY <1>3, <1>4 DEF Onward
    <2>2. ~(Left(p) >= 8) /\ Left(p) >= 7
      BY <1>3
    <2>3. p \in Idless
      BY <2>2 DEF Idless
    <2>4. QED  BY <1>1, <2>1, <2>2, <2>3, DoneShrinks
  <1>7. /\ Others(p) /\ IndexUpTo(job[p].read, IdLimit') /\ IdLimit + 1 <= IdLimit'
        /\ IdLimit \in Nat /\ IdLimit' \in Nat \ {0} /\ IdLimit' <= captures + 1
        /\ captures \in 0 .. MaxCaptures
    BY <1>1, <1>4, <1>5, <1>6, Working
  <1>8. IndexUpTo(job[p].read, IdLimit) /\ i \in 1 .. IdLimit
    BY <1>2 DEF JobOK, IndexOK, IndexUpTo
  <1>9. i + 1 \in 1 .. IdLimit' /\ i \in 1 .. MaxCaptures + 1 /\ i # 0 /\ i \in Nat
    BY <1>7, <1>8, SessionStoreAssumption
  <1>10. index' = [sessions |-> job[p].read.sessions, next |-> i + 1]
    <2>1. index' = [job[p].read EXCEPT !.next = i + 1]
      BY DEF GetNextSessionID
    <2>2. job[p].read = [sessions |-> job[p].read.sessions, next |-> i]
      BY <1>8 DEF IndexUpTo
    <2>3. QED  BY <2>1, <2>2
  <1>11. IndexUpTo(index', IdLimit')
    <2>1. DOMAIN job[p].read.sessions \subseteq SessionIds
      BY <1>8 DEF IndexUpTo
    <2>2. index'.sessions = job[p].read.sessions /\ index'.next = i + 1
      BY <1>10
    <2>3. QED  BY <1>9, <1>10, <2>1, <2>2 DEF IndexUpTo
  <1>12. JobOK(p)'
    <2>1. i \in SessionIds \cup {0} /\ (i = 0 <=> Left(p) > 7)
      BY <1>3, <1>9 DEF SessionIds
    <2>2. captures' = captures /\ Left(p) # 1
      BY <1>3, <1>5
    <2> HIDE DEF i
    <2>3. QED  BY <1>2, <1>3, <1>4, <1>7, <2>1, <2>2, GoesOnTyped
  <1>13. Typed'
    BY <1>5, <1>6, <1>7, <1>11, <1>12, StaysTyped
  <1>14. QED  BY <1>3, <1>4, <1>7, <1>9, <1>10, <1>13

LEMMA WriteTyped ==
    ASSUME Typed, NEW p \in Captures, NEW f \in {"session", "turns", "summary"}, WriteFile(p, f)
    PROVE  /\ Typed' /\ Others(p) /\ job'[p] = Onward(p, job[p].read, job[p].id)
           /\ ~Deleting(p) /\ job[p].id \in SessionIds /\ job[p].by \in 1 .. captures
           /\ \/ Left(p) = 6 /\ f = "session"
              \/ Left(p) = 5 /\ f = "turns"
              \/ Left(p) = 4 /\ f = "summary"
  <1>1. Step(p) = f /\ Step(p) \notin {"none", "remove"}
    BY DEF WriteFile
  <1>2. /\ JobOK(p) /\ job[p] # NoJob /\ DOMAIN Done(p) = Captures
        /\ \A q \in Captures \ {p} : Done(p)[q] = job[q]
        /\ Left(p) # 1 => Done(p)[p] = Onward(p, job[p].read, job[p].id)
    BY <1>1, WhatIsDone
  <1>3. /\ ~Deleting(p)
        /\ \/ Left(p) = 6 /\ f = "session"
           \/ Left(p) = 5 /\ f = "turns"
           \/ Left(p) = 4 /\ f = "summary"
    BY <1>1, <1>2, StepIs
  <1>4. job[p].id \in SessionIds /\ job[p].by \in 1 .. captures
    <2>1. ~(Left(p) >= 7)
      BY <1>3
    <2>2. QED  BY <1>2, <2>1 DEF JobOK, Idless
  <1>5. /\ DOMAIN job' = Captures /\ \A q \in Captures \ {p} : job'[q] = job[q]
        /\ job'[p] = Onward(p, job[p].read, job[p].id)
    BY <1>2, <1>3 DEF WriteFile
  <1>6. /\ UNCHANGED <<index, captures, captureDeaths, reported, chosenIds, removedIds, disturbed>>
        /\ disturbed' \in BOOLEAN /\ captureDeaths' \in Nat
    BY DEF WriteFile, Typed, Values
  <1>7. sessionDir' \in [SessionIds -> [session : 0 .. captures, turns : 0 .. captures,
                                        summary : 0 .. captures]]
    <2>1. PICK who \in {job[p].by} \cup IF f = "summary" THEN {sessionDir[job[p].id][f]} ELSE {} :
            sessionDir' = [sessionDir EXCEPT ![job[p].id][f] = who]
      BY DEF WriteFile
    <2>2. sessionDir \in [SessionIds -> [session : 0 .. captures, turns : 0 .. captures,
                                         summary : 0 .. captures]] /\ captures \in Nat
      BY SessionStoreAssumption DEF Typed, Values
    <2>3. sessionDir[job[p].id] \in [session : 0 .. captures, turns : 0 .. captures,
                                     summary : 0 .. captures]
      BY <1>4, <2>2
    <2>4. who \in 0 .. captures
      BY <1>4, <2>1, <2>2, <2>3
    <2>5. [sessionDir[job[p].id] EXCEPT ![f] = who]
             \in [session : 0 .. captures, turns : 0 .. captures, summary : 0 .. captures]
      BY <2>3, <2>4
    <2>6. sessionDir' = [sessionDir EXCEPT ![job[p].id] = [sessionDir[job[p].id] EXCEPT ![f] = who]]
      BY <2>1
    <2>7. QED  BY <1>4, <2>2, <2>5, <2>6
  <1>8. p \in Idless' => p \in Idless
    <2>1. Left(p) # 1 /\ job'[p].todo = Tail(job[p].todo)
      BY <1>3, <1>5 DEF Onward
    <2>2. QED  BY <1>1, <2>1, DoneShrinks
  <1>9. Others(p) /\ IndexUpTo(index', IdLimit') /\ IndexUpTo(job[p].read, IdLimit')
    BY <1>1, <1>5, <1>6, <1>8, Working
  <1>10. Left(p) \notin {1, 7}
    BY <1>3
  <1>11. Typed'
    BY <1>1, <1>5, <1>6, <1>7, <1>9, <1>10, OnwardTyped
  <1>12. QED  BY <1>3, <1>4, <1>5, <1>9, <1>11

LEMMA ListTyped ==
    ASSUME Typed, NEW p \in Captures, ListSession(p)
    PROVE  /\ Typed' /\ Others(p) /\ job'[p] = NoJob
           /\ Left(p) = 1 /\ ~Deleting(p) /\ job[p].id \in SessionIds /\ job[p].by \in 1 .. captures
           /\ index' = [sessions |-> Entered(job[p].read.sessions, job[p].id, job[p].by),
                        next |-> job[p].read.next]
  <1>1. Step(p) = "list"
    BY DEF ListSession
  <1>2. /\ JobOK(p) /\ job[p] # NoJob /\ DOMAIN Done(p) = Captures
        /\ \A q \in Captures \ {p} : Done(p)[q] = job[q]
        /\ Left(p) = 1 => Done(p)[p] = NoJob
    BY <1>1, WhatIsDone
  <1>3. Left(p) = 1 /\ ~Deleting(p)
    BY <1>1, <1>2, StepIs
  <1>4. job[p].id \in SessionIds /\ job[p].by \in 1 .. captures
    <2>1. ~(Left(p) >= 7)
      BY <1>3
    <2>2. QED  BY <1>2, <2>1 DEF JobOK, Idless
  <1>5. /\ DOMAIN job' = Captures /\ \A q \in Captures \ {p} : job'[q] = job[q]
        /\ job'[p] = NoJob
    BY <1>2, <1>3 DEF ListSession
  <1>6. /\ UNCHANGED <<sessionDir, captures, captureDeaths, chosenIds, removedIds, disturbed>>
        /\ disturbed' \in BOOLEAN /\ captureDeaths' \in Nat
        /\ sessionDir' \in [SessionIds -> [session : 0 .. captures, turns : 0 .. captures,
                                           summary : 0 .. captures]]
    BY DEF ListSession, Typed, Values
  <1>7. p \in Idless' => p \in Idless
    BY <1>5, EndsTyped
  <1>8. Others(p) /\ IndexUpTo(job[p].read, IdLimit')
    BY <1>1, <1>5, <1>6, <1>7, Working
  <1>9. index' = [sessions |-> Entered(job[p].read.sessions, job[p].id, job[p].by),
                  next |-> job[p].read.next]
    <2>1. index' = [job[p].read EXCEPT !.sessions =
                                         Entered(job[p].read.sessions, job[p].id, job[p].by)]
      BY DEF ListSession
    <2>2. job[p].read = [sessions |-> job[p].read.sessions, next |-> job[p].read.next]
      BY <1>8 DEF IndexUpTo
    <2>3. QED  BY <2>1, <2>2
  <1>10. IndexUpTo(index', IdLimit')
    <2>1. DOMAIN Entered(job[p].read.sessions, job[p].id, job[p].by) \subseteq SessionIds
      BY <1>4, <1>8 DEF IndexUpTo, Entered
    <2>2. /\ index'.sessions = Entered(job[p].read.sessions, job[p].id, job[p].by)
          /\ index'.next = job[p].read.next
      BY <1>9
    <2>3. QED  BY <1>8, <1>9, <2>1, <2>2 DEF IndexUpTo
  <1>11. Typed'
    BY <1>1, <1>3, <1>5, <1>6, <1>10, OnwardTyped
  <1>12. QED  BY <1>3, <1>4, <1>5, <1>8, <1>9, <1>11

LEMMA RemoveTyped ==
    ASSUME Typed, NEW p \in Captures, RemoveFiles(p)
    PROVE  /\ Typed' /\ Others(p) /\ job'[p] = Onward(p, job[p].read, job[p].id)
           /\ Left(p) = 4 /\ Deleting(p) /\ job[p].id \in SessionIds
  <1>1. Step(p) = "remove"
    BY DEF RemoveFiles
  <1>2. /\ JobOK(p) /\ job[p] # NoJob /\ DOMAIN Done(p) = Captures
        /\ \A q \in Captures \ {p} : Done(p)[q] = job[q]
        /\ Left(p) # 1 => Done(p)[p] = Onward(p, job[p].read, job[p].id)
    BY <1>1, WhatIsDone
  <1>3. Left(p) = 4 /\ Deleting(p)
    BY <1>1, <1>2, StepIs
  <1>4. job[p].id \in SessionIds
    <2>1. ~(Left(p) >= 7)
      BY <1>3
    <2>2. QED  BY <1>2, <2>1 DEF JobOK, Idless
  <1>5. /\ DOMAIN job' = Captures /\ \A q \in Captures \ {p} : job'[q] = job[q]
        /\ job'[p] = Onward(p, job[p].read, job[p].id)
    BY <1>2, <1>3 DEF RemoveFiles
  <1>6. /\ UNCHANGED <<index, captures, captureDeaths, reported, chosenIds, disturbed>>
        /\ disturbed' \in BOOLEAN /\ captureDeaths' \in Nat
        /\ removedIds' = removedIds \cup {job[p].id}
    BY DEF RemoveFiles, Typed, Values
  <1>7. sessionDir' \in [SessionIds -> [session : 0 .. captures, turns : 0 .. captures,
                                        summary : 0 .. captures]]
    <2>1. sessionDir \in [SessionIds -> [session : 0 .. captures, turns : 0 .. captures,
                                         summary : 0 .. captures]] /\ captures \in Nat
      BY SessionStoreAssumption DEF Typed, Values
    <2>2. NoFiles \in [session : 0 .. captures, turns : 0 .. captures, summary : 0 .. captures]
      BY <2>1 DEF NoFiles, Nobody
    <2>3. sessionDir' = [sessionDir EXCEPT ![job[p].id] = NoFiles]
      BY DEF RemoveFiles
    <2>4. QED  BY <1>4, <2>1, <2>2, <2>3
  <1>8. p \in Idless' => p \in Idless
    <2>1. Left(p) # 1 /\ job'[p].todo = Tail(job[p].todo)
      BY <1>3, <1>5 DEF Onward
    <2>2. QED  BY <1>1, <2>1, DoneShrinks
  <1>9. Others(p) /\ IndexUpTo(index', IdLimit') /\ IndexUpTo(job[p].read, IdLimit')
    <2>1. removedIds \subseteq removedIds' /\ index' = index
      BY <1>6
    <2>2. QED  BY <1>1, <1>5, <1>6, <1>8, <2>1, Working
  <1>10. Left(p) \notin {1, 7} /\ job[p].id \in removedIds' /\ Step(p) # "none"
    BY <1>1, <1>3, <1>6
  <1>11. Typed'
    BY <1>5, <1>6, <1>7, <1>9, <1>10, OnwardTyped
  <1>12. QED  BY <1>3, <1>4, <1>5, <1>9, <1>11

LEMMA UnlistTyped ==
    ASSUME Typed, NEW p \in Captures, UnlistSession(p)
    PROVE  /\ Typed' /\ Others(p) /\ job'[p] = NoJob
           /\ Left(p) = 1 /\ Deleting(p) /\ job[p].id \in removedIds
           /\ index' = [sessions |-> [i \in DOMAIN job[p].read.sessions \ {job[p].id} |->
                                        job[p].read.sessions[i]],
                        next |-> job[p].read.next]
  <1> DEFINE rest == [i \in DOMAIN job[p].read.sessions \ {job[p].id} |-> job[p].read.sessions[i]]
  <1>1. Step(p) = "unlist"
    BY DEF UnlistSession
  <1>2. /\ JobOK(p) /\ job[p] # NoJob /\ DOMAIN Done(p) = Captures
        /\ \A q \in Captures \ {p} : Done(p)[q] = job[q]
        /\ Left(p) = 1 => Done(p)[p] = NoJob
    BY <1>1, WhatIsDone
  <1>3. Left(p) = 1 /\ Deleting(p)
    BY <1>1, <1>2, StepIs
  <1>4. job[p].id \in removedIds
    BY <1>2, <1>3 DEF JobOK
  <1>5. /\ DOMAIN job' = Captures /\ \A q \in Captures \ {p} : job'[q] = job[q]
        /\ job'[p] = NoJob
    BY <1>2, <1>3 DEF UnlistSession
  <1>6. /\ UNCHANGED <<sessionDir, captures, captureDeaths, reported, chosenIds, removedIds, disturbed>>
        /\ disturbed' \in BOOLEAN /\ captureDeaths' \in Nat
        /\ sessionDir' \in [SessionIds -> [session : 0 .. captures, turns : 0 .. captures,
                                           summary : 0 .. captures]]
    BY DEF UnlistSession, Typed, Values
  <1>7. p \in Idless' => p \in Idless
    BY <1>5, EndsTyped
  <1>8. Others(p) /\ IndexUpTo(job[p].read, IdLimit')
    BY <1>1, <1>5, <1>6, <1>7, Working
  <1>9. index' = [sessions |-> rest, next |-> job[p].read.next]
    <2>1. index' = [job[p].read EXCEPT !.sessions = rest]
      BY DEF UnlistSession
    <2>2. job[p].read = [sessions |-> job[p].read.sessions, next |-> job[p].read.next]
      BY <1>8 DEF IndexUpTo
    <2> HIDE DEF rest
    <2>3. QED  BY <2>1, <2>2
  <1>10. IndexUpTo(index', IdLimit')
    <2>1. DOMAIN rest \subseteq SessionIds
      BY <1>8 DEF IndexUpTo
    <2> HIDE DEF rest
    <2>2. index'.sessions = rest /\ index'.next = job[p].read.next
      BY <1>9
    <2>3. QED  BY <1>8, <1>9, <2>1, <2>2 DEF IndexUpTo
  <1>11. Typed'
    BY <1>1, <1>3, <1>5, <1>6, <1>10, OnwardTyped
  <1> HIDE DEF rest
  <1>12. QED  BY <1>3, <1>4, <1>5, <1>8, <1>9, <1>11 DEF rest

LEMMA DiesTyped ==
    ASSUME Typed, NEW p \in Captures, CaptureDies(p)
    PROVE  /\ Typed' /\ Others(p) /\ job'[p] = NoJob /\ captureDeaths' > 0
           /\ \/ sessionDir' = sessionDir
              \/ /\ ~Deleting(p) /\ job[p].id \in SessionIds
                 /\ sessionDir' = [sessionDir EXCEPT ![job[p].id][Step(p)] = Nobody]
  <1>1. Step(p) # "none"
    BY DEF CaptureDies
  <1>2. JobOK(p) /\ job[p] # NoJob /\ Left(p) \in 1 .. 9 /\ DOMAIN job = Captures
    BY <1>1, WhatIsDone
  <1>3. /\ DOMAIN job' = Captures /\ \A q \in Captures \ {p} : job'[q] = job[q]
        /\ job'[p] = NoJob
    BY <1>2 DEF CaptureDies
  <1>4. /\ UNCHANGED <<index, captures, reported, chosenIds, removedIds>>
        /\ disturbed' \in BOOLEAN /\ captureDeaths' \in Nat /\ captureDeaths' > 0
    BY DEF CaptureDies, Typed, Values
  <1>5. sessionDir \in [SessionIds -> [session : 0 .. captures, turns : 0 .. captures,
                                       summary : 0 .. captures]] /\ captures \in Nat
    BY SessionStoreAssumption DEF Typed, Values
  <1>6. ASSUME Step(p) \in {"session", "turns", "summary"},
               sessionDir' = [sessionDir EXCEPT ![job[p].id][Step(p)] = Nobody]
        PROVE  /\ ~Deleting(p) /\ job[p].id \in SessionIds
               /\ sessionDir' \in [SessionIds -> [session : 0 .. captures, turns : 0 .. captures,
                                                  summary : 0 .. captures]]
    <2>1. ~Deleting(p) /\ Left(p) \in 4 .. 6
      BY <1>2, <1>6, StepIs
    <2>2. ~(Left(p) >= 7)
      BY <2>1
    <2>3. job[p].id \in SessionIds
      BY <1>2, <2>2 DEF JobOK, Idless
    <2>4. sessionDir[job[p].id] \in [session : 0 .. captures, turns : 0 .. captures,
                                     summary : 0 .. captures]
      BY <1>5, <2>3
    <2>5. Nobody \in 0 .. captures
      BY <1>5 DEF Nobody
    <2>6. [sessionDir[job[p].id] EXCEPT ![Step(p)] = Nobody]
             \in [session : 0 .. captures, turns : 0 .. captures, summary : 0 .. captures]
      BY <1>6, <2>4, <2>5
    <2>7. sessionDir' = [sessionDir EXCEPT ![job[p].id] =
                           [sessionDir[job[p].id] EXCEPT ![Step(p)] = Nobody]]
      BY <1>6
    <2>8. sessionDir' \in [SessionIds -> [session : 0 .. captures, turns : 0 .. captures,
                                          summary : 0 .. captures]]
      BY <1>5, <2>3, <2>6, <2>7
    <2>9. QED  BY <2>1, <2>3, <2>8
  <1>7. /\ sessionDir' \in [SessionIds -> [session : 0 .. captures, turns : 0 .. captures,
                                           summary : 0 .. captures]]
        /\ \/ sessionDir' = sessionDir
           \/ /\ ~Deleting(p) /\ job[p].id \in SessionIds
              /\ sessionDir' = [sessionDir EXCEPT ![job[p].id][Step(p)] = Nobody]
    <2>1. CASE sessionDir' = sessionDir
      BY <1>4, <1>5, <2>1
    <2>2. CASE sessionDir' # sessionDir
      <3>1. /\ Step(p) \in {"session", "turns", "summary"}
            /\ sessionDir' = [sessionDir EXCEPT ![job[p].id][Step(p)] = Nobody]
        BY <2>2 DEF CaptureDies
      <3>2. QED  BY <1>6, <3>1
    <2>3. QED  BY <2>1, <2>2
  <1>8. JobOK(p)' /\ p \notin Idless'
    BY <1>3, EndsTyped
  <1>9. Others(p) /\ IndexUpTo(index', IdLimit')
    BY <1>1, <1>3, <1>4, <1>8, Working
  <1>10. Typed'
    BY <1>4, <1>7, <1>8, <1>9, StaysTyped
  <1>11. QED  BY <1>3, <1>4, <1>7, <1>9, <1>10

-----------------------------------------------------------------------------

(* What a step of one process leaves of the others'.                       *)
LEMMA OthersStay ==
    ASSUME NEW p \in Captures, Others(p), NEW q \in Captures \ {p}
    PROVE  /\ job'[q] = job[q] /\ Step(q)' = Step(q) /\ Left(q)' = Left(q)
           /\ (Deleting(q)' <=> Deleting(q)) /\ (Updating(q)' <=> Updating(q))
           /\ Capturing(q)' => Capturing(q)
  <1>1. job'[q] = job[q]
    BY DEF Others
  <1>2. Step(q)' = Step(q) /\ Left(q)' = Left(q) /\ (Deleting(q)' <=> Deleting(q))
    BY <1>1 DEF Step, Left, Deleting
  <1>3. Updating(q)' <=> Updating(q)
    BY <1>2 DEF Updating
  <1>4. Capturing(q)' => Capturing(q)
    BY <1>1, <1>2 DEF Others, Capturing
  <1>5. QED  BY <1>1, <1>2, <1>3, <1>4

(* A step by which nobody gets an id and nothing is reported keeps what is *)
(* known of the ids, if it writes only files of its own, or of an id that  *)
(* was chosen or removed.                                                  *)
LEMMA IdsStay ==
    ASSUME FilesKept, OwnIds, NEW p \in Captures, Others(p), reported' = reported,
           Capturing(p)' => Capturing(p) /\ job'[p].id = job[p].id,
           NEW k, \A i \in SessionIds \ {k} : sessionDir'[i] = sessionDir[i],
           \/ \A i \in SessionIds : sessionDir'[i] = sessionDir[i]
           \/ k \in chosenIds' \cup removedIds' \cup {0}
           \/ Capturing(p) /\ k = job[p].id,
           ReportedAreIds,
           \A q \in Captures : Capturing(q) => job[q].id \in SessionIds,
           Capturing(p)' /\ job[p].id \notin removedIds' =>
             /\ Left(p)' <= 5 => sessionDir'[job[p].id].session = job'[p].by
             /\ Left(p)' <= 4 => sessionDir'[job[p].id].turns = job'[p].by
    PROVE  FilesKept' /\ OwnIds'
  <1>1. \A q \in Captures : Capturing(q)' => Capturing(q) /\ job'[q].id = job[q].id
    BY OthersStay
  <1>2. \A q \in Captures : Capturing(q)' => job[q].id \notin chosenIds' \cup {0}
    BY <1>1 DEF Capturing
  <1>3. FilesKept'
    <2>1. ASSUME NEW i \in DOMAIN reported \ (chosenIds' \cup removedIds')
          PROVE  i \in SessionIds /\ i \notin chosenIds \cup removedIds /\ sessionDir'[i] = sessionDir[i]
      <3>1. i \in SessionIds /\ i \notin chosenIds \cup removedIds
        BY DEF Others, ReportedAreIds
      <3>2. CASE i = k
        <4>1. ~(Capturing(p) /\ k = job[p].id)
          BY <3>2 DEF OwnIds, OwnId
        <4>2. k # 0
          BY <3>1, <3>2, SessionStoreAssumption DEF SessionIds
        <4>3. QED  BY <3>1, <3>2, <4>1, <4>2
      <3>3. QED  BY <3>1, <3>2
    <2>2. QED  BY <2>1 DEF FilesKept
  <1>4. ASSUME NEW q \in Captures, Capturing(q)'
        PROVE  OwnId(q)'
    <2>1. Capturing(q) /\ job'[q].id = job[q].id /\ OwnId(q)
      BY <1>1, <1>4 DEF OwnIds
    <2>2. job'[q].id \notin DOMAIN reported'
      BY <2>1 DEF OwnId
    <2>3. \A s \in Captures \ {q} : Capturing(s)' => job'[s].id # job'[q].id
      BY <1>1, <2>1 DEF OwnId
    <2>4. CASE q = p
      BY <1>4, <2>1, <2>2, <2>3, <2>4 DEF OwnId
    <2>5. CASE q # p
      <3>1. job'[q] = job[q] /\ Left(q)' = Left(q)
        BY <2>5, OthersStay
      <3>2. ASSUME job[q].id \notin removedIds'
            PROVE  sessionDir'[job[q].id] = sessionDir[job[q].id]
        <4>1. job[q].id \in SessionIds /\ job[q].id \notin chosenIds' \cup {0}
          BY <1>2, <1>4, <2>1
        <4>2. CASE job[q].id = k
          <5>1. ~(Capturing(p) /\ k = job[p].id)
            BY <2>1, <2>5, <4>2 DEF OwnId
          <5>2. QED  BY <3>2, <4>1, <4>2, <5>1
        <4>3. QED  BY <4>1, <4>2
      <3>3. job[q].id \notin removedIds' => job[q].id \notin removedIds
        BY DEF Others
      <3>4. QED  BY <2>1, <2>2, <2>3, <3>1, <3>2, <3>3 DEF OwnId
    <2>6. QED  BY <2>4, <2>5
  <1>5. QED  BY <1>3, <1>4 DEF OwnIds

LEMMA TypedIds ==
    ASSUME Typed, NEW p \in Captures
    PROVE  /\ Capturing(p) => job[p].id \in SessionIds
           /\ job[p] = NoJob \/ Left(p) <= 6 => job[p].id \in SessionIds \cup {0}
           /\ job[p] # NoJob /\ Left(p) <= 6 => job[p].id \in SessionIds
           /\ DOMAIN job[p].read.sessions \subseteq SessionIds
           /\ DOMAIN index.sessions \subseteq SessionIds
  <1>1. JobOK(p) /\ IndexUpTo(index, IdLimit)
    BY DEF Typed, Values, IndexOK
  <1>2. DOMAIN index.sessions \subseteq SessionIds
    BY <1>1 DEF IndexUpTo
  <1>3. CASE job[p] = NoJob
    <2>1. job[p].id = 0 /\ job[p].read.sessions = <<>> /\ ~Capturing(p)
      BY <1>3, NoStep DEF NoJob, EmptyIndex
    <2>2. DOMAIN job[p].read.sessions = {}
      BY <2>1
    <2>3. QED  BY <1>2, <1>3, <2>1, <2>2
  <1>4. CASE job[p] # NoJob
    <2>1. IndexUpTo(job[p].read, IdLimit) /\ job[p].id \in SessionIds \cup {0}
          /\ (job[p].id = 0 <=> p \in Idless)
      BY <1>1, <1>4 DEF JobOK, IndexOK
    <2>2. Left(p) <= 6 => p \notin Idless
      <3>1. Left(p) \in 1 .. 9
        BY <1>1, <1>4, StepIs
      <3>2. QED  BY <3>1 DEF Idless
    <2>3. Capturing(p) => job[p].id # 0
      BY DEF Capturing
    <2>4. QED  BY <1>2, <1>4, <2>1, <2>2, <2>3 DEF IndexUpTo
  <1>5. QED  BY <1>3, <1>4

LEMMA FitsLess ==
    ASSUME NEW I, NEW saved, NEW ids, NEW ids2 \in SUBSET ids, NEW chosen, NEW chosen2,
           NEW removed, NEW removed2, chosen \subseteq chosen2, removed \subseteq removed2,
           FitsTo(I, ids, saved, chosen, removed)
    PROVE  FitsTo(I, ids2, saved, chosen2, removed2)
  BY DEF FitsTo

LEMMA NobodyNew ==
    ASSUME NEW p \in Captures, Others(p),
           Capturing(p)' => Capturing(p) /\ job'[p].id = job[p].id
    PROVE  CapturedIds' \subseteq CapturedIds
  <1>1. \A q \in Captures : Capturing(q)' => Capturing(q) /\ job'[q].id = job[q].id
    BY OthersStay
  <1>2. QED  BY <1>1 DEF CapturedIds

(* A step that leaves the index alone, ...                                 *)
LEMMA IndexStays ==
    ASSUME OneUpdates, NEW p \in Captures, Others(p), ~Updating(p), ~Updating(p)',
           index' = index, reported' = reported, CapturedIds' \subseteq CapturedIds
    PROVE  OneUpdates'
  <1>1. \A q \in Captures : Updating(q)' =>
          q # p /\ Updating(q) /\ job'[q] = job[q] /\ Step(q)' = Step(q)
    BY OthersStay
  <1>2. \A q, s \in Captures : Updating(q)' /\ Updating(s)' => q = s
    BY <1>1 DEF OneUpdates
  <1>3. ASSUME NEW q \in Captures, Updating(q)'
        PROVE  /\ index' = IF Step(q)' = "empty" THEN job'[q].read ELSE EmptyIndex
               /\ FitsTo(job'[q].read, CapturedIds', reported', chosenIds', removedIds')
    <2>1. /\ index = IF Step(q) = "empty" THEN job[q].read ELSE EmptyIndex
          /\ FitsTo(job[q].read, CapturedIds, reported, chosenIds, removedIds)
      BY <1>1, <1>3 DEF OneUpdates, Fits
    <2>2. FitsTo(job[q].read, CapturedIds', reported, chosenIds', removedIds')
      BY <2>1, FitsLess DEF Others
    <2>3. QED  BY <1>1, <1>3, <2>1, <2>2
  <1>4. ASSUME \A q \in Captures : ~Updating(q)'
        PROVE  FitsTo(index', CapturedIds', reported', chosenIds', removedIds')
    <2>1. \A q \in Captures : ~Updating(q)
      BY <1>4, OthersStay
    <2>2. FitsTo(index, CapturedIds, reported, chosenIds, removedIds)
      BY <2>1 DEF OneUpdates, Fits
    <2>3. QED  BY <2>2, FitsLess DEF Others
  <1>5. QED  BY <1>2, <1>3, <1>4 DEF OneUpdates, Fits

(* ... one of the command that updates it, ...                             *)
LEMMA UpdateGoesOn ==
    ASSUME NEW p \in Captures, Others(p), \A q \in Captures \ {p} : ~Updating(q), Updating(p)',
           index' = IF Step(p)' = "empty" THEN job'[p].read ELSE EmptyIndex,
           FitsTo(job'[p].read, CapturedIds', reported', chosenIds', removedIds')
    PROVE  OneUpdates'
  <1>1. \A q \in Captures : Updating(q)' => q = p
    BY OthersStay
  <1>2. QED  BY <1>1 DEF OneUpdates, Fits

(* ... and the last of an update.                                          *)
LEMMA UpdateEnds ==
    ASSUME NEW p \in Captures, Others(p), \A q \in Captures \ {p} : ~Updating(q), ~Updating(p)',
           FitsTo(index', CapturedIds', reported', chosenIds', removedIds')
    PROVE  OneUpdates'
  <1>1. \A q \in Captures : ~Updating(q)'
    BY OthersStay
  <1>2. QED  BY <1>1 DEF OneUpdates, Fits

(* What is there stays there, if it does as far as the others need it.     *)
Needs(q, i) ==
    \/ Updating(q) /\ i \in DOMAIN job[q].read.sessions
    \/ ~Deleting(q) /\ Left(q) \in 1 .. 5 /\ job[q].id = i

LEMMA ThereForOthers ==
    ASSUME Typed, AllThere, NEW p \in Captures, Others(p),
           \A q \in Captures \ {p} : \A i \in SessionIds : Needs(q, i) => There(i)',
           \A i \in DOMAIN index'.sessions : There(i)',
           Updating(p)' => \A i \in DOMAIN job'[p].read.sessions : There(i)',
           ~Deleting(p)' /\ Left(p)' \in 1 .. 5 =>
             ThereIn(job'[p].id, removedIds' \cup chosenIds', sessionDir')
    PROVE  AllThere'
  <1>1. ASSUME NEW q \in Captures \ {p}
        PROVE  /\ Updating(q)' => \A i \in DOMAIN job'[q].read.sessions : There(i)'
               /\ ~Deleting(q)' /\ Left(q)' \in 1 .. 5 =>
                    ThereIn(job'[q].id, removedIds' \cup chosenIds', sessionDir')
    <2>1. /\ job'[q] = job[q] /\ (Updating(q)' <=> Updating(q)) /\ Left(q)' = Left(q)
          /\ (Deleting(q)' <=> Deleting(q))
      BY OthersStay
    <2>2. DOMAIN job[q].read.sessions \subseteq SessionIds
      BY TypedIds
    <2>3. Updating(q) => \A i \in DOMAIN job[q].read.sessions : There(i)'
      BY <2>2 DEF Needs
    <2>4. ASSUME ~Deleting(q), Left(q) \in 1 .. 5
          PROVE  ThereIn(job[q].id, removedIds' \cup chosenIds', sessionDir')
      <3>1. job[q] # NoJob /\ Left(q) <= 6
        BY <2>4, NoStep
      <3>2. job[q].id \in SessionIds
        BY <3>1, TypedIds
      <3>3. \A i \in SessionIds :
              Needs(q, i) => ThereIn(i, removedIds' \cup chosenIds', sessionDir')
        BY DEF There
      <3>4. Needs(q, job[q].id)
        BY <2>4 DEF Needs
      <3>5. QED  BY <3>2, <3>3, <3>4
    <2>5. QED  BY <2>1, <2>3, <2>4
  <1>2. ASSUME NEW q \in Captures
        PROVE  /\ Updating(q)' => \A i \in DOMAIN job'[q].read.sessions : There(i)'
               /\ ~Deleting(q)' /\ Left(q)' \in 1 .. 5 =>
                    ThereIn(job'[q].id, removedIds' \cup chosenIds', sessionDir')
    BY <1>1
  <1>3. QED  BY <1>2 DEF AllThere, There

LEMMA ThereStays ==
    ASSUME Typed, AllThere, NEW p \in Captures, Others(p),
           \A i \in SessionIds : There(i) => There(i)',
           \A i \in DOMAIN index'.sessions : There(i)',
           Updating(p)' => \A i \in DOMAIN job'[p].read.sessions : There(i)',
           ~Deleting(p)' /\ Left(p)' \in 1 .. 5 =>
             ThereIn(job'[p].id, removedIds' \cup chosenIds', sessionDir')
    PROVE  AllThere'
  <1>1. \A q \in Captures \ {p} : \A i \in SessionIds : Needs(q, i) => There(i)'
    BY DEF Needs, AllThere
  <1>2. QED  BY <1>1, ThereForOthers

LEMMA CapturesNotDelete ==
    ASSUME NEW p \in Captures, Typed'
    PROVE  Capturing(p)' => ~Deleting(p)' /\ job'[p].id \notin chosenIds' \cup {0}
  <1>1. job'[p] = NoJob \/ Todo(job'[p].todo)
    BY DEF Typed, JobOK
  <1>2. CASE job'[p] = NoJob
    BY <1>2 DEF Capturing, Step, NoJob
  <1>3. CASE Todo(job'[p].todo)
    <2>1. Ends(job'[p].todo) <=> \E k \in DOMAIN job'[p].todo : job'[p].todo[k] = "unlist"
      BY <1>3, StepOf
    <2>2. QED  BY <2>1 DEF Capturing, Deleting
  <1>4. QED  BY <1>1, <1>2, <1>3

(* A command that begins has no id of its own yet.                         *)
LEMMA StoreBeginKeeps ==
    ASSUME SessionInv, NEW p \in Captures, Typed', Others(p), job[p] = NoJob,
           NEW t, job'[p].todo = t,
           \/ t = CaptureSteps /\ job'[p].id = 0
           \/ t = SaveSteps /\ job'[p].id \in chosenIds'
           \/ t = DeleteSteps,
           UNCHANGED <<index, sessionDir, captureDeaths, reported, removedIds, disturbed>>
    PROVE  SessionInv'
  <1>1. /\ t # <<>> /\ Head(t) \notin {"empty", "draw", "list", "unlist"}
        /\ Len(t) \in {4, 6, 9} /\ (Len(t) = 4 <=> t = DeleteSteps) /\ (Ends(t) <=> t = DeleteSteps)
        /\ (t = DeleteSteps => \E k \in DOMAIN t : t[k] = "unlist")
    <2>1. Todo(t) /\ Len(t) \in {4, 6, 9} /\ (Len(t) = 4 <=> t = DeleteSteps) /\ (Ends(t) <=> t = DeleteSteps)
      BY StepsBegin
    <2>2. t # <<>> /\ (Ends(t) <=> \E k \in DOMAIN t : t[k] = "unlist")
      BY <2>1, StepOf, Zenon
    <2>3. Head(t) \notin {"empty", "draw", "list", "unlist"}
      BY StepsBegin
    <2>4. QED  BY <2>1, <2>2, <2>3
  <1>2. /\ Step(p)' = Head(t) /\ Left(p)' = Len(t) /\ (Deleting(p)' <=> t = DeleteSteps)
    BY <1>1 DEF Step, Left, Deleting
  <1>3. ~Updating(p)' /\ ~Capturing(p)' /\ ~Updating(p) /\ ~Capturing(p)
    <2>1. ~Updating(p)'
      BY <1>1, <1>2 DEF Updating
    <2>2. ~Capturing(p)'
      BY <1>1 DEF Capturing
    <2>3. QED  BY <2>1, <2>2, NoStep
  <1>4. ReportedAreIds'
    BY DEF SessionInv, ReportedAreIds
  <1>5. ASSUME ~disturbed'
        PROVE  OneUpdates' /\ FilesKept' /\ OwnIds'
    <2>1. OneUpdates /\ FilesKept /\ OwnIds /\ Typed /\ ReportedAreIds
      BY <1>5 DEF SessionInv
    <2>2. CapturedIds' \subseteq CapturedIds
      BY <1>3, NobodyNew
    <2>3. OneUpdates'
      BY <1>3, <2>1, <2>2, IndexStays
    <2>4. \A q \in Captures : Capturing(q) => job[q].id \in SessionIds
      BY <2>1, TypedIds
    <2>5. \A i \in SessionIds : sessionDir'[i] = sessionDir[i]
      OBVIOUS
    <2>6. FilesKept' /\ OwnIds'
      BY <1>3, <2>1, <2>4, <2>5, IdsStay
    <2>7. QED  BY <2>3, <2>6
  <1>6. ASSUME AllThere
        PROVE  AllThere'
    <2>1. \A i : There(i) => There(i)'
      BY DEF There, ThereIn, Others
    <2>2. \A i \in DOMAIN index'.sessions : There(i)'
      BY <1>6, <2>1 DEF AllThere
    <2>3. ~(~Deleting(p)' /\ Left(p)' \in 1 .. 5)
      <3>1. CASE Len(t) = 4
        BY <1>1, <1>2, <3>1
      <3>2. CASE Len(t) \in {6, 9}
        <4>1. Len(t) \notin 1 .. 5
          BY <3>2
        <4>2. QED  BY <1>2, <4>1
      <3>3. QED  BY <1>1, <3>1, <3>2
    <2>4. QED  BY <1>3, <1>6, <2>1, <2>2, <2>3, ThereStays DEF SessionInv
  <1>7. QED  BY <1>4, <1>5, <1>6 DEF SessionInv

(* A command that goes on under the same id.                               *)
LEMMA CommandGoesOn ==
    ASSUME Typed, Typed', NEW p \in Captures, Step(p) # "none", Left(p) # 1, NEW r,
           job'[p] = Onward(p, r, job[p].id), chosenIds \subseteq chosenIds'
    PROVE  /\ job'[p].read = r /\ job'[p].id = job[p].id /\ job'[p].by = job[p].by
           /\ job'[p].todo = Tail(job[p].todo) /\ JobOK(p) /\ job[p] # NoJob
           /\ Left(p) \in 2 .. 9 /\ Left(p)' = Left(p) - 1 /\ (Deleting(p)' <=> Deleting(p))
           /\ Capturing(p)' => Capturing(p)
           /\ Capturing(p) <=> ~Deleting(p) /\ job[p].id \notin chosenIds \cup {0}
  <1>1. /\ job'[p].read = r /\ job'[p].id = job[p].id /\ job'[p].by = job[p].by
        /\ job'[p].todo = Tail(job[p].todo)
    BY DEF Onward
  <1>2. JobOK(p) /\ job[p] # NoJob /\ Left(p) \in 1 .. 9
    BY WhatIsDone
  <1>3. Left(p)' = Left(p) - 1 /\ (Deleting(p)' <=> Deleting(p))
    BY <1>1, <1>2, TheStepsAfter
  <1>4. Capturing(p) <=> ~Deleting(p) /\ job[p].id \notin chosenIds \cup {0}
    BY <1>2, StepIs
  <1>5. Capturing(p)' => ~Deleting(p)' /\ job'[p].id \notin chosenIds' \cup {0}
    BY CapturesNotDelete
  <1>6. Capturing(p)' => Capturing(p)
    BY <1>1, <1>3, <1>4, <1>5
  <1>7. Left(p) \in 2 .. 9
    BY <1>2
  <1>8. QED  BY <1>1, <1>2, <1>3, <1>4, <1>6, <1>7

LEMMA StoreLoadKeeps ==
    ASSUME SessionInv, NEW p \in Captures, loadIndexUnsafe(p)
    PROVE  SessionInv'
  <1>1. /\ Typed' /\ Others(p) /\ job'[p] = Onward(p, index, job[p].id) /\ Left(p) \in {9, 3}
    BY LoadTyped DEF SessionInv
  <1>2. /\ Step(p) = "load" /\ JobOK(p) /\ job[p] # NoJob
        /\ UNCHANGED <<index, sessionDir, captures, captureDeaths, reported, chosenIds, removedIds>>
        /\ ~disturbed' => ~disturbed /\ \A q \in Captures \ {p} : ~Updating(q)
    <2>1. Step(p) = "load" /\ JobOK(p) /\ job[p] # NoJob
      BY WhatIsDone DEF loadIndexUnsafe, SessionInv
    <2>2. /\ UNCHANGED <<index, sessionDir, captures, captureDeaths, reported, chosenIds, removedIds>>
          /\ ~disturbed' => ~disturbed /\ \A q \in Captures \ {p} : ~Updating(q)
      BY DEF loadIndexUnsafe
    <2>3. disturbed => disturbed'
      BY DEF loadIndexUnsafe
    <2>4. QED  BY <2>1, <2>2
  <1>3. /\ job'[p].read = index /\ job'[p].id = job[p].id /\ job'[p].by = job[p].by
        /\ job'[p].todo = Tail(job[p].todo) /\ (Capturing(p)' => Capturing(p))
    <2>1. Left(p) # 1 /\ Step(p) # "none" /\ Typed /\ chosenIds \subseteq chosenIds'
      BY <1>1, <1>2 DEF SessionInv
    <2>2. QED  BY <1>1, <2>1, CommandGoesOn
  <1>4. /\ Step(p)' = "empty" /\ Left(p)' = Left(p) - 1 /\ (Deleting(p)' <=> Deleting(p))
        /\ Left(p)' \in {8, 2}
    <2>1. /\ Step(p)' = "empty" /\ Left(p)' = Left(p) - 1 /\ (Deleting(p)' <=> Deleting(p))
      BY <1>1, <1>2, <1>3, TheStepsAfter
    <2>2. QED  BY <1>1, <2>1
  <1>5. /\ Updating(p)' /\ ~Updating(p) /\ (Capturing(p)' => Capturing(p))
    <2>1. Step(p)' = "empty" => Updating(p)'
      BY DEF Updating
    <2>2. ~Updating(p)
      BY <1>2 DEF Updating
    <2>3. QED  BY <1>3, <1>4, <2>1, <2>2
  <1>6. ReportedAreIds'
    BY <1>2 DEF SessionInv, ReportedAreIds
  <1>7. ASSUME ~disturbed'
        PROVE  OneUpdates' /\ FilesKept' /\ OwnIds'
    <2>1. /\ OneUpdates /\ FilesKept /\ OwnIds /\ Typed /\ ReportedAreIds
          /\ \A q \in Captures \ {p} : ~Updating(q)
      BY <1>2, <1>7 DEF SessionInv
    <2>2. CapturedIds' \subseteq CapturedIds
      BY <1>1, <1>3, <1>5, NobodyNew
    <2>3. FitsTo(index, CapturedIds, reported, chosenIds, removedIds)
      BY <1>5, <2>1 DEF OneUpdates, Fits
    <2>4. FitsTo(job'[p].read, CapturedIds', reported', chosenIds', removedIds')
      <3>1. FitsTo(index, CapturedIds', reported, chosenIds, removedIds)
        BY <2>2, <2>3, FitsLess
      <3>2. QED  BY <1>2, <1>3, <3>1
    <2>5. OneUpdates'
      BY <1>1, <1>2, <1>3, <1>4, <1>5, <2>1, <2>4, UpdateGoesOn
    <2>6. \A q \in Captures : Capturing(q) => job[q].id \in SessionIds
      BY <2>1, TypedIds
    <2>7. Capturing(p)' /\ job[p].id \notin removedIds' =>
             /\ Left(p)' <= 5 => sessionDir'[job[p].id].session = job'[p].by
             /\ Left(p)' <= 4 => sessionDir'[job[p].id].turns = job'[p].by
      <3>1. (Left(p)' <= 5 => Left(p) <= 5) /\ (Left(p)' <= 4 => Left(p) <= 4)
        BY <1>1, <1>4
      <3>2. QED  BY <1>2, <1>3, <1>5, <2>1, <3>1 DEF OwnIds, OwnId
    <2>8. \A i \in SessionIds : sessionDir'[i] = sessionDir[i]
      BY <1>2
    <2>9. FilesKept' /\ OwnIds'
      BY <1>1, <1>2, <1>3, <1>5, <2>1, <2>6, <2>7, <2>8, IdsStay
    <2>10. QED  BY <2>5, <2>9
  <1>8. ASSUME AllThere
        PROVE  AllThere'
    <2>1. \A i : There(i) => There(i)'
      BY <1>2 DEF There, ThereIn
    <2>2. \A i \in DOMAIN index.sessions : There(i)'
      BY <1>8, <2>1 DEF AllThere
    <2>3. ~Deleting(p)' /\ Left(p)' \in 1 .. 5 =>
             ThereIn(job'[p].id, removedIds' \cup chosenIds', sessionDir')
      <3>1. ASSUME ~Deleting(p)', Left(p)' \in 1 .. 5
            PROVE  There(job[p].id)
        <4>1. ~Deleting(p) /\ Left(p) \in 1 .. 5
          BY <1>1, <1>4, <3>1
        <4>2. QED  BY <1>8, <4>1 DEF AllThere
      <3>2. QED  BY <1>2, <1>3, <3>1 DEF There
    <2>4. QED  BY <1>1, <1>2, <1>3, <1>8, <2>1, <2>2, <2>3, ThereStays DEF SessionInv
  <1>9. QED  BY <1>1, <1>2, <1>6, <1>7, <1>8 DEF SessionInv

LEMMA StoreEmptyKeeps ==
    ASSUME SessionInv, NEW p \in Captures, EmptyFile(p)
    PROVE  SessionInv'
  <1>1. /\ Typed /\ Typed' /\ Others(p) /\ job'[p] = Onward(p, job[p].read, job[p].id)
        /\ Left(p) \in {8, 2}
    BY EmptyTyped DEF SessionInv
  <1>2. /\ Step(p) = "empty" /\ index' = EmptyIndex
        /\ UNCHANGED <<sessionDir, captures, captureDeaths, reported, chosenIds, removedIds,
                       disturbed>>
    BY DEF EmptyFile
  <1>3. /\ job'[p].read = job[p].read /\ job'[p].id = job[p].id /\ job'[p].by = job[p].by
        /\ job'[p].todo = Tail(job[p].todo) /\ JobOK(p) /\ job[p] # NoJob
        /\ Left(p)' = Left(p) - 1 /\ (Deleting(p)' <=> Deleting(p))
        /\ (Capturing(p)' => Capturing(p))
    <2>1. Left(p) # 1 /\ Step(p) # "none" /\ chosenIds \subseteq chosenIds'
      BY <1>1, <1>2
    <2>2. Typed /\ Typed' /\ job'[p] = Onward(p, job[p].read, job[p].id)
      BY <1>1
    <2>3. QED  BY <2>1, <2>2, CommandGoesOn, Zenon
  <1>4. Step(p)' \in {"draw", "list", "unlist"}
    BY <1>1, <1>2, <1>3, TheStepsAfter
  <1>5. Updating(p) /\ Updating(p)'
    BY <1>2, <1>4 DEF Updating
  <1>6. ReportedAreIds'
    BY <1>2 DEF SessionInv, ReportedAreIds
  <1>7. ASSUME ~disturbed'
        PROVE  OneUpdates' /\ FilesKept' /\ OwnIds'
    <2>1. OneUpdates /\ FilesKept /\ OwnIds /\ Typed /\ ReportedAreIds
      BY <1>2, <1>7 DEF SessionInv
    <2>2. CapturedIds' \subseteq CapturedIds
      BY <1>1, <1>3, NobodyNew
    <2>3. /\ FitsTo(job[p].read, CapturedIds, reported, chosenIds, removedIds)
          /\ \A q \in Captures \ {p} : ~Updating(q)
      BY <1>5, <2>1 DEF OneUpdates, Fits
    <2>4. FitsTo(job'[p].read, CapturedIds', reported', chosenIds', removedIds')
      <3>1. FitsTo(job[p].read, CapturedIds', reported, chosenIds, removedIds)
        BY <2>2, <2>3, FitsLess
      <3>2. QED  BY <1>2, <1>3, <3>1
    <2>5. OneUpdates'
      BY <1>1, <1>2, <1>4, <1>5, <2>3, <2>4, UpdateGoesOn
    <2>6. \A q \in Captures : Capturing(q) => job[q].id \in SessionIds
      BY <2>1, TypedIds
    <2>7. Capturing(p)' /\ job[p].id \notin removedIds' =>
             /\ Left(p)' <= 5 => sessionDir'[job[p].id].session = job'[p].by
             /\ Left(p)' <= 4 => sessionDir'[job[p].id].turns = job'[p].by
      <3>1. (Left(p)' <= 5 => Left(p) <= 5) /\ (Left(p)' <= 4 => Left(p) <= 4)
        BY <1>1, <1>3
      <3>2. QED  BY <1>2, <1>3, <2>1, <3>1 DEF OwnIds, OwnId
    <2>8. \A i \in SessionIds : sessionDir'[i] = sessionDir[i]
      BY <1>2
    <2>9. FilesKept' /\ OwnIds'
      BY <1>1, <1>2, <1>3, <2>1, <2>6, <2>7, <2>8, IdsStay
    <2>10. QED  BY <2>5, <2>9
  <1>8. ASSUME AllThere
        PROVE  AllThere'
    <2>1. \A i : There(i) => There(i)'
      BY <1>2 DEF There, ThereIn
    <2>2. \A i \in DOMAIN index'.sessions : There(i)'
      <3>1. DOMAIN index'.sessions = {}
        BY <1>2 DEF EmptyIndex
      <3>2. QED  BY <3>1
    <2>3. \A i \in DOMAIN job'[p].read.sessions : There(i)'
      BY <1>3, <1>5, <1>8, <2>1 DEF AllThere
    <2>4. ~Deleting(p)' /\ Left(p)' \in 1 .. 5 =>
             ThereIn(job'[p].id, removedIds' \cup chosenIds', sessionDir')
      <3>1. ASSUME ~Deleting(p)', Left(p)' \in 1 .. 5
            PROVE  There(job[p].id)
        <4>1. ~Deleting(p) /\ Left(p) \in 1 .. 5
          BY <1>1, <1>3, <3>1
        <4>2. QED  BY <1>8, <4>1 DEF AllThere
      <3>2. QED  BY <1>2, <1>3, <3>1 DEF There
    <2>5. QED  BY <1>1, <1>8, <2>1, <2>2, <2>3, <2>4, ThereStays
  <1>9. QED  BY <1>1, <1>2, <1>6, <1>7, <1>8 DEF SessionInv

(* The draw of an id: it is beyond those that are in use.                  *)
LEMMA StoreDrawKeeps ==
    ASSUME SessionInv, NEW p \in Captures, GetNextSessionID(p)
    PROVE  SessionInv'
  <1> DEFINE i == job[p].read.next
  <1>1. /\ Typed /\ Typed' /\ Others(p) /\ job'[p] = Onward(p, job[p].read, i)
        /\ Left(p) = 7 /\ ~Deleting(p) /\ i \in Nat \ {0}
        /\ index' = [sessions |-> job[p].read.sessions, next |-> i + 1]
    BY DrawTyped DEF SessionInv
  <1>2. /\ Step(p) = "draw"
        /\ UNCHANGED <<sessionDir, captures, captureDeaths, reported, chosenIds, removedIds,
                       disturbed>>
    BY DEF GetNextSessionID
  <1>3. /\ job'[p].id = i /\ job'[p].todo = Tail(job[p].todo) /\ JobOK(p) /\ job[p] # NoJob
        /\ index'.sessions = job[p].read.sessions /\ index'.next = i + 1
    <2>1. JobOK(p) /\ job[p] # NoJob
      BY <1>1, <1>2, WhatIsDone
    <2>2. QED  BY <1>1, <2>1 DEF Onward
  <1>4. Left(p)' = 6 /\ Step(p)' = "session"
    <2>1. Left(p)' = Left(p) - 1 /\ Step(p)' = "session"
      BY <1>1, <1>2, <1>3, TheStepsAfter
    <2>2. QED  BY <1>1, <2>1
  <1>5. Updating(p) /\ ~Updating(p)'
    BY <1>2, <1>4 DEF Updating
  <1>6. ReportedAreIds'
    BY <1>2 DEF SessionInv, ReportedAreIds
  <1> HIDE DEF i
  <1>7. ASSUME ~disturbed'
        PROVE  OneUpdates' /\ FilesKept' /\ OwnIds'
    <2>1. OneUpdates /\ FilesKept /\ OwnIds /\ Typed /\ ReportedAreIds
      BY <1>2, <1>7 DEF SessionInv
    <2>2. /\ FitsTo(job[p].read, CapturedIds, reported, chosenIds, removedIds)
          /\ \A q \in Captures \ {p} : ~Updating(q)
      BY <1>5, <2>1 DEF OneUpdates, Fits
    <2>3. \A q \in Captures \ {p} : Capturing(q)' =>
            Capturing(q) /\ job'[q] = job[q] /\ Left(q)' = Left(q) /\ job[q].id \in CapturedIds
      BY <1>1, OthersStay DEF CapturedIds
    <2>4. CapturedIds' \subseteq CapturedIds \cup {i}
      BY <1>3, <2>3 DEF CapturedIds
    <2>5. CapturedIds \subseteq Nat /\ DOMAIN reported \subseteq Nat
      <3>1. SessionIds \subseteq Nat
        BY SessionStoreAssumption DEF SessionIds
      <3>2. QED  BY <2>1, <3>1, TypedIds DEF CapturedIds, ReportedAreIds
    <2>6. (\A j \in CapturedIds : j < i) /\ (\A j \in DOMAIN reported \ chosenIds : j < i)
      BY <2>2 DEF FitsTo, i
    <2>7. FitsTo(index', CapturedIds', reported', chosenIds', removedIds')
      <3>1. ASSUME NEW j \in CapturedIds' PROVE j < i + 1
        <4>1. CASE j = i
          BY <1>1, <4>1, SMT
        <4>2. CASE j \in CapturedIds
          <5>1. j \in Nat /\ j < i
            BY <2>5, <2>6, <4>2, Zenon
          <5>2. QED  BY <1>1, <5>1, SMT
        <4>3. QED  BY <2>4, <4>1, <4>2
      <3>2. \A j \in DOMAIN reported \ chosenIds : j < i + 1
        BY <1>1, <2>5, <2>6
      <3>3. QED  BY <1>2, <1>3, <2>2, <3>1, <3>2 DEF FitsTo
    <2>8. OneUpdates'
      BY <1>1, <1>5, <2>2, <2>7, UpdateEnds
    <2>9. FilesKept'
      BY <1>2, <2>1 DEF FilesKept
    <2>10. Capturing(p)' => i \notin DOMAIN reported
      <3>1. ~(i < i)
        BY <1>1
      <3>2. Capturing(p)' => i \notin chosenIds
        BY <1>2, <1>3 DEF Capturing
      <3>3. QED  BY <2>6, <3>1, <3>2
    <2>11. \A q \in Captures \ {p} : Capturing(q)' => job[q].id # i
      <3>1. ~(i < i)
        BY <1>1
      <3>2. QED  BY <2>3, <2>6, <3>1
    <2>12. ASSUME NEW q \in Captures, Capturing(q)'
           PROVE  OwnId(q)'
      <3>1. CASE q = p
        <4>1. ~(Left(p)' <= 5) /\ ~(Left(p)' <= 4)
          BY <1>4
        <4>2. \A s \in Captures \ {p} : Capturing(s)' => job'[s].id # job'[p].id
          BY <1>3, <2>3, <2>11
        <4>3. job'[p].id \notin DOMAIN reported'
          BY <1>2, <1>3, <2>10, <2>12, <3>1
        <4>4. QED  BY <3>1, <4>1, <4>2, <4>3 DEF OwnId
      <3>2. CASE q # p
        <4>1. OwnId(q) /\ job'[q] = job[q] /\ Left(q)' = Left(q)
          BY <2>1, <2>3, <2>12, <3>2 DEF OwnIds
        <4>2. \A s \in Captures \ {q} : Capturing(s)' => job'[s].id # job'[q].id
          BY <1>3, <2>3, <2>11, <2>12, <3>2, <4>1 DEF OwnId
        <4>3. QED  BY <1>2, <4>1, <4>2 DEF OwnId
      <3>3. QED  BY <3>1, <3>2
    <2>13. QED  BY <2>8, <2>9, <2>12 DEF OwnIds
  <1>8. ASSUME AllThere
        PROVE  AllThere'
    <2>1. \A j : There(j) => There(j)'
      BY <1>2 DEF There, ThereIn
    <2>2. \A j \in DOMAIN index'.sessions : There(j)'
      BY <1>3, <1>5, <1>8, <2>1 DEF AllThere
    <2>3. ~(Left(p)' \in 1 .. 5)
      BY <1>4
    <2>4. QED  BY <1>1, <1>5, <1>8, <2>1, <2>2, <2>3, ThereStays
  <1>9. QED  BY <1>1, <1>2, <1>6, <1>7, <1>8 DEF SessionInv

(* Writing the files of a session.                                         *)
LEMMA StoreWriteKeeps ==
    ASSUME SessionInv, NEW p \in Captures, NEW f \in {"session", "turns", "summary"}, WriteFile(p, f)
    PROVE  SessionInv'
  <1> DEFINE k == job[p].id
  <1>1. /\ Typed /\ Typed' /\ Others(p) /\ job'[p] = Onward(p, job[p].read, k)
        /\ ~Deleting(p) /\ k \in SessionIds /\ job[p].by \in 1 .. captures
        /\ \/ Left(p) = 6 /\ f = "session"
           \/ Left(p) = 5 /\ f = "turns"
           \/ Left(p) = 4 /\ f = "summary"
    BY WriteTyped DEF SessionInv
  <1>2. /\ Step(p) = f
        /\ UNCHANGED <<index, captures, captureDeaths, reported, chosenIds, removedIds, disturbed>>
    BY DEF WriteFile
  <1>3. /\ job'[p].read = job[p].read /\ job'[p].id = k /\ job'[p].by = job[p].by
        /\ job'[p].todo = Tail(job[p].todo) /\ JobOK(p) /\ job[p] # NoJob
        /\ Left(p)' = Left(p) - 1 /\ (Deleting(p)' <=> Deleting(p))
        /\ (Capturing(p)' => Capturing(p))
        /\ (Capturing(p) <=> ~Deleting(p) /\ k \notin chosenIds \cup {0})
    <2>1. Left(p) # 1 /\ Step(p) # "none" /\ chosenIds \subseteq chosenIds'
      BY <1>1, <1>2
    <2>2. QED  BY <1>1, <2>1, CommandGoesOn, Zenon
  <1>4. Step(p)' \in {"turns", "summary", "load"}
    BY <1>1, <1>2, <1>3, TheStepsAfter
  <1>5. ~Updating(p) /\ ~Updating(p)'
    BY <1>2, <1>4 DEF Updating
  <1>6. PICK who \in {job[p].by} \cup IF f = "summary" THEN {sessionDir[k][f]} ELSE {} :
          sessionDir' = [sessionDir EXCEPT ![k][f] = who]
    BY DEF WriteFile
  <1>7. /\ \A i \in SessionIds \ {k} : sessionDir'[i] = sessionDir[i]
        /\ sessionDir'[k].session = IF f = "session" THEN job[p].by ELSE sessionDir[k].session
        /\ sessionDir'[k].turns = IF f = "turns" THEN job[p].by ELSE sessionDir[k].turns
    <2>1. /\ DOMAIN sessionDir = SessionIds
          /\ sessionDir[k] \in [session : 0 .. captures, turns : 0 .. captures, summary : 0 .. captures]
      BY <1>1 DEF Typed, Values
    <2>2. sessionDir' = [sessionDir EXCEPT ![k] = [sessionDir[k] EXCEPT ![f] = who]]
      BY <1>6
    <2>3. \A i \in SessionIds \ {k} : sessionDir'[i] = sessionDir[i]
      BY <2>1, <2>2
    <2>4. sessionDir'[k] = [sessionDir[k] EXCEPT ![f] = who]
      BY <1>1, <2>1, <2>2
    <2>5. f # "summary" => who = job[p].by
      BY <1>6
    <2> HIDE DEF k
    <2>6. QED  BY <2>1, <2>3, <2>4, <2>5
  <1>8. ReportedAreIds'
    BY <1>2 DEF SessionInv, ReportedAreIds
  <1>9. k \in chosenIds' \cup removedIds' \cup {0} \/ Capturing(p)
    BY <1>1, <1>2, <1>3
  <1>10. ASSUME ~disturbed'
         PROVE  OneUpdates' /\ FilesKept' /\ OwnIds'
    <2>1. OneUpdates /\ FilesKept /\ OwnIds /\ ReportedAreIds
      BY <1>2, <1>10 DEF SessionInv
    <2>2. CapturedIds' \subseteq CapturedIds
      BY <1>1, <1>3, NobodyNew
    <2>3. OneUpdates'
      BY <1>1, <1>2, <1>5, <2>1, <2>2, IndexStays
    <2>4. \A q \in Captures : Capturing(q) => job[q].id \in SessionIds
      BY <1>1, TypedIds
    <2>5. Capturing(p)' /\ job[p].id \notin removedIds' =>
             /\ Left(p)' <= 5 => sessionDir'[job[p].id].session = job'[p].by
             /\ Left(p)' <= 4 => sessionDir'[job[p].id].turns = job'[p].by
      <3>1. ASSUME Capturing(p), k \notin removedIds
            PROVE  /\ sessionDir'[k].session = job[p].by
                   /\ Left(p)' <= 4 => sessionDir'[k].turns = job[p].by
        <4>1. /\ Left(p) <= 5 => sessionDir[k].session = job[p].by
              /\ Left(p) <= 4 => sessionDir[k].turns = job[p].by
          BY <2>1, <3>1 DEF OwnIds, OwnId
        <4>2. CASE Left(p) = 6 /\ f = "session"
          <5>1. ~(Left(p)' <= 4)
            BY <1>3, <4>2
          <5>2. QED  BY <1>7, <4>2, <5>1
        <4>3. CASE Left(p) = 5 /\ f = "turns"
          BY <1>7, <4>1, <4>3
        <4>4. CASE Left(p) = 4 /\ f = "summary"
          BY <1>7, <4>1, <4>4
        <4>5. QED  BY <1>1, <4>2, <4>3, <4>4
      <3>2. QED  BY <1>2, <1>3, <3>1
    <2>6. FilesKept' /\ OwnIds'
      BY <1>1, <1>2, <1>3, <1>7, <1>9, <2>1, <2>4, <2>5, IdsStay
    <2>7. QED  BY <2>3, <2>6
  <1>11. ASSUME AllThere
         PROVE  AllThere'
    <2>0. job[p].by # Nobody
      BY <1>1 DEF Nobody
    <2>1. \A i \in SessionIds : There(i) => There(i)'
      BY <1>2, <1>7, <2>0 DEF There, ThereIn
    <2>2. \A i \in DOMAIN index'.sessions : There(i)'
      <3>1. DOMAIN index.sessions \subseteq SessionIds
        BY <1>1, TypedIds
      <3>2. QED  BY <1>2, <1>11, <2>1, <3>1 DEF AllThere
    <2>3. ThereIn(job'[p].id, removedIds' \cup chosenIds', sessionDir')
      <3>1. CASE f = "session"
        BY <1>3, <1>7, <2>0, <3>1 DEF ThereIn
      <3>2. CASE f # "session"
        <4>1. ~Deleting(p) /\ Left(p) \in 1 .. 5
          BY <1>1, <3>2
        <4>2. There(k)
          BY <1>11, <4>1 DEF AllThere
        <4>3. QED  BY <1>2, <1>3, <1>7, <3>2, <4>2 DEF There, ThereIn
      <3>3. QED  BY <3>1, <3>2
    <2>4. QED  BY <1>1, <1>5, <1>11, <2>1, <2>2, <2>3, ThereStays
  <1>12. QED  BY <1>1, <1>2, <1>8, <1>10, <1>11 DEF SessionInv

(* The entry of a session, with which it is reported.                      *)
LEMMA StoreListKeeps ==
    ASSUME SessionInv, NEW p \in Captures, ListSession(p)
    PROVE  SessionInv'
  <1> DEFINE k == job[p].id
             R == job[p].read
  <1>1. /\ Typed /\ Typed' /\ Others(p) /\ job'[p] = NoJob
        /\ Left(p) = 1 /\ ~Deleting(p) /\ k \in SessionIds /\ job[p].by \in 1 .. captures
        /\ index' = [sessions |-> Entered(R.sessions, k, job[p].by), next |-> R.next]
    BY ListTyped DEF SessionInv
  <1>2. /\ Step(p) = "list" /\ reported' = Entered(reported, k, job[p].by)
        /\ UNCHANGED <<sessionDir, captures, captureDeaths, chosenIds, removedIds, disturbed>>
    BY DEF ListSession
  <1>3. /\ JobOK(p) /\ job[p] # NoJob
        /\ index'.sessions = Entered(R.sessions, k, job[p].by) /\ index'.next = R.next
    BY <1>1, <1>2, WhatIsDone
  <1>4. Capturing(p) <=> ~Deleting(p) /\ k \notin chosenIds \cup {0}
    BY <1>3, StepIs
  <1>5. Updating(p) /\ ~Updating(p)' /\ ~Capturing(p)' /\ Left(p)' = 0
    <2>1. Updating(p)
      BY <1>2 DEF Updating
    <2>2. Step(p)' = "none" /\ Left(p)' = 0
      BY <1>1 DEF Step, Left, NoJob
    <2>3. QED  BY <2>1, <2>2 DEF Updating, Capturing
  <1>6. /\ DOMAIN reported' = DOMAIN reported \cup {k} /\ reported'[k] = job[p].by
        /\ \A i \in DOMAIN reported \ {k} : reported'[i] = reported[i]
        /\ DOMAIN index'.sessions = DOMAIN R.sessions \cup {k} /\ index'.sessions[k] = job[p].by
        /\ \A i \in DOMAIN R.sessions \ {k} : index'.sessions[i] = R.sessions[i]
    BY <1>2, <1>3 DEF Entered
  <1>7. ReportedAreIds'
    BY <1>1, <1>6 DEF SessionInv, ReportedAreIds
  <1>8. 0 \notin SessionIds /\ job[p].by # Nobody
    BY <1>1, SessionStoreAssumption DEF SessionIds, Nobody
  <1> HIDE DEF k, R
  <1>9. ASSUME ~disturbed'
        PROVE  OneUpdates' /\ FilesKept' /\ OwnIds'
    <2>1. OneUpdates /\ FilesKept /\ OwnIds /\ ReportedAreIds
      BY <1>2, <1>9 DEF SessionInv
    <2>2. /\ FitsTo(R, CapturedIds, reported, chosenIds, removedIds)
          /\ \A q \in Captures \ {p} : ~Updating(q)
      BY <1>5, <2>1 DEF OneUpdates, Fits, R
    <2>3. k \notin chosenIds =>
            /\ Capturing(p) /\ OwnId(p) /\ k \in CapturedIds /\ k < R.next
            /\ k \notin removedIds => sessionDir[k].session = job[p].by /\ sessionDir[k].turns = job[p].by
      <3>1. ASSUME k \notin chosenIds
            PROVE  Capturing(p) /\ OwnId(p) /\ k \in CapturedIds
        BY <1>1, <1>4, <1>8, <2>1, <3>1 DEF OwnIds, CapturedIds, k
      <3>2. ASSUME k \notin chosenIds
            PROVE  k < R.next
        BY <2>2, <3>1, <3>2 DEF FitsTo
      <3>3. ASSUME k \notin chosenIds, k \notin removedIds
            PROVE  sessionDir[k].session = job[p].by /\ sessionDir[k].turns = job[p].by
        <4>1. OwnId(p) /\ Left(p) <= 5 /\ Left(p) <= 4
          BY <1>1, <3>1, <3>3
        <4>2. QED  BY <3>3, <4>1 DEF OwnId, k
      <3>4. QED  BY <3>1, <3>2, <3>3
    <2>4. \A q \in Captures : Capturing(q)' =>
            /\ q # p /\ Capturing(q) /\ job'[q] = job[q] /\ Left(q)' = Left(q)
            /\ job[q].id \in CapturedIds /\ job[q].id \notin chosenIds
      BY <1>1, <1>2, <1>5, OthersStay DEF CapturedIds, Capturing
    <2>5. \A q \in Captures : Capturing(q)' => job[q].id # k
      <3>1. ASSUME NEW q \in Captures, Capturing(q)', job[q].id = k
            PROVE  FALSE
        <4>1. q # p /\ Capturing(q) /\ k \notin chosenIds
          BY <2>4, <3>1
        <4>2. OwnId(p)
          BY <2>3, <4>1
        <4>3. QED  BY <3>1, <4>1, <4>2 DEF OwnId, k
      <3>2. QED  BY <3>1
    <2>6. CapturedIds' \subseteq CapturedIds
      BY <2>4 DEF CapturedIds
    <2>7. FitsTo(index', CapturedIds', reported', chosenIds', removedIds')
      <3>1. \A i \in CapturedIds' : i < index'.next
        BY <1>3, <2>2, <2>6 DEF FitsTo
      <3>2. \A i \in DOMAIN reported' \ chosenIds' : i < index'.next
        BY <1>2, <1>3, <1>6, <2>2, <2>3 DEF FitsTo
      <3>3. DOMAIN index'.sessions \subseteq DOMAIN reported'
        BY <1>6, <2>2 DEF FitsTo
      <3>4. \A i \in DOMAIN reported' \ (chosenIds' \cup removedIds') :
              i \in DOMAIN index'.sessions /\ index'.sessions[i] = reported'[i]
        BY <1>2, <1>6, <2>2 DEF FitsTo
      <3>5. QED  BY <3>1, <3>2, <3>3, <3>4 DEF FitsTo
    <2>8. OneUpdates'
      BY <1>1, <1>5, <2>2, <2>7, UpdateEnds
    <2>9. FilesKept'
      BY <1>2, <1>6, <1>8, <2>1, <2>3 DEF FilesKept
    <2>10. ASSUME NEW q \in Captures, Capturing(q)'
           PROVE  OwnId(q)'
      <3>1. /\ OwnId(q) /\ job'[q] = job[q] /\ Left(q)' = Left(q) /\ job[q].id # k
        BY <2>1, <2>4, <2>5, <2>10 DEF OwnIds
      <3>2. job'[q].id \notin DOMAIN reported'
        BY <1>6, <3>1 DEF OwnId
      <3>3. \A s \in Captures \ {q} : Capturing(s)' => job'[s].id # job'[q].id
        BY <2>4, <3>1 DEF OwnId
      <3>4. QED  BY <1>2, <3>1, <3>2, <3>3 DEF OwnId
    <2>11. QED  BY <2>8, <2>9, <2>10 DEF OwnIds
  <1>10. ASSUME AllThere
         PROVE  AllThere'
    <2>1. \A i : There(i) => There(i)'
      BY <1>2 DEF There, ThereIn
    <2>2. There(k)
      BY <1>1, <1>10 DEF AllThere, k
    <2>3. \A i \in DOMAIN index'.sessions : There(i)'
      BY <1>5, <1>6, <1>10, <2>1, <2>2 DEF AllThere, R
    <2>4. ~(Left(p)' \in 1 .. 5)
      BY <1>5
    <2>5. QED  BY <1>1, <1>5, <1>10, <2>1, <2>3, <2>4, ThereStays
  <1>11. QED  BY <1>1, <1>2, <1>7, <1>9, <1>10 DEF SessionInv

(* A delete removes the files first ...                                    *)
LEMMA StoreRemoveKeeps ==
    ASSUME SessionInv, NEW p \in Captures, RemoveFiles(p)
    PROVE  SessionInv'
  <1> DEFINE k == job[p].id
  <1>1. /\ Typed /\ Typed' /\ Others(p) /\ job'[p] = Onward(p, job[p].read, k)
        /\ Left(p) = 4 /\ Deleting(p) /\ k \in SessionIds
    BY RemoveTyped DEF SessionInv
  <1>2. /\ Step(p) = "remove" /\ removedIds' = removedIds \cup {k}
        /\ sessionDir' = [sessionDir EXCEPT ![k] = NoFiles]
        /\ UNCHANGED <<index, captures, captureDeaths, reported, chosenIds, disturbed>>
    BY DEF RemoveFiles
  <1>3. /\ job'[p].id = k /\ job'[p].todo = Tail(job[p].todo) /\ JobOK(p) /\ job[p] # NoJob
        /\ (Deleting(p)' <=> Deleting(p))
        /\ (Capturing(p)' => Capturing(p)) /\ ~Capturing(p)
    <2>1. Left(p) # 1 /\ Step(p) # "none" /\ chosenIds \subseteq chosenIds'
      BY <1>1, <1>2
    <2>2. QED  BY <1>1, <2>1, CommandGoesOn, Zenon
  <1>4. Step(p)' = "load"
    BY <1>1, <1>2, <1>3, TheStepsAfter
  <1>5. ~Updating(p) /\ ~Updating(p)'
    BY <1>2, <1>4 DEF Updating
  <1>6. \A i \in SessionIds \ {k} : sessionDir'[i] = sessionDir[i]
    BY <1>2 DEF Typed, Values
  <1>7. ReportedAreIds'
    BY <1>2 DEF SessionInv, ReportedAreIds
  <1>8. k \in chosenIds' \cup removedIds' \cup {0}
    BY <1>2
  <1>9. ASSUME ~disturbed'
        PROVE  OneUpdates' /\ FilesKept' /\ OwnIds'
    <2>1. OneUpdates /\ FilesKept /\ OwnIds /\ ReportedAreIds
      BY <1>2, <1>9 DEF SessionInv
    <2>2. CapturedIds' \subseteq CapturedIds
      BY <1>1, <1>3, NobodyNew
    <2>3. OneUpdates'
      BY <1>1, <1>2, <1>5, <2>1, <2>2, IndexStays
    <2>4. \A q \in Captures : Capturing(q) => job[q].id \in SessionIds
      BY <1>1, TypedIds
    <2> HIDE DEF k
    <2>5. FilesKept' /\ OwnIds'
      BY <1>1, <1>2, <1>3, <1>6, <1>8, <2>1, <2>4, IdsStay
    <2>6. QED  BY <2>3, <2>5
  <1>10. ASSUME AllThere
         PROVE  AllThere'
    <2>1. \A i \in SessionIds : There(i) => There(i)'
      BY <1>2, <1>6 DEF There, ThereIn
    <2>2. \A i \in DOMAIN index'.sessions : There(i)'
      <3>1. DOMAIN index.sessions \subseteq SessionIds
        BY <1>1, TypedIds
      <3>2. QED  BY <1>2, <1>10, <2>1, <3>1 DEF AllThere
    <2>3. Deleting(p)'
      BY <1>1, <1>3
    <2>4. QED  BY <1>1, <1>5, <1>10, <2>1, <2>2, <2>3, ThereStays
  <1>11. QED  BY <1>1, <1>2, <1>7, <1>9, <1>10 DEF SessionInv

(* ... and the entry later.                                                *)
LEMMA StoreUnlistKeeps ==
    ASSUME SessionInv, NEW p \in Captures, UnlistSession(p)
    PROVE  SessionInv'
  <1> DEFINE k == job[p].id
             R == job[p].read
  <1>1. /\ Typed /\ Typed' /\ Others(p) /\ job'[p] = NoJob /\ k \in removedIds
        /\ index' = [sessions |-> [i \in DOMAIN R.sessions \ {k} |-> R.sessions[i]],
                     next |-> R.next]
    BY UnlistTyped DEF SessionInv
  <1>2. /\ Step(p) = "unlist"
        /\ UNCHANGED <<sessionDir, captures, captureDeaths, reported, chosenIds, removedIds,
                       disturbed>>
    BY DEF UnlistSession
  <1>3. /\ index'.next = R.next /\ DOMAIN index'.sessions = DOMAIN R.sessions \ {k}
        /\ \A i \in DOMAIN R.sessions \ {k} : index'.sessions[i] = R.sessions[i]
    BY <1>1
  <1>4. Updating(p) /\ ~Updating(p)' /\ ~Capturing(p)' /\ Left(p)' = 0
    <2>1. Updating(p)
      BY <1>2 DEF Updating
    <2>2. Step(p)' = "none" /\ Left(p)' = 0
      BY <1>1 DEF Step, Left, NoJob
    <2>3. QED  BY <2>1, <2>2 DEF Updating, Capturing
  <1>5. ReportedAreIds'
    BY <1>2 DEF SessionInv, ReportedAreIds
  <1> HIDE DEF k, R
  <1>6. ASSUME ~disturbed'
        PROVE  OneUpdates' /\ FilesKept' /\ OwnIds'
    <2>1. OneUpdates /\ FilesKept /\ OwnIds /\ ReportedAreIds
      BY <1>2, <1>6 DEF SessionInv
    <2>2. /\ FitsTo(R, CapturedIds, reported, chosenIds, removedIds)
          /\ \A q \in Captures \ {p} : ~Updating(q)
      BY <1>4, <2>1 DEF OneUpdates, Fits, R
    <2>3. CapturedIds' \subseteq CapturedIds
      BY <1>1, <1>4, NobodyNew
    <2>4. FitsTo(R, CapturedIds', reported, chosenIds, removedIds)
      BY <2>2, <2>3, FitsLess
    <2>5. FitsTo(index', CapturedIds', reported', chosenIds', removedIds')
      BY <1>1, <1>2, <1>3, <2>4 DEF FitsTo
    <2>6. OneUpdates'
      BY <1>1, <1>4, <2>2, <2>5, UpdateEnds
    <2>7. \A q \in Captures : Capturing(q) => job[q].id \in SessionIds
      BY <1>1, TypedIds
    <2>8. \A i \in SessionIds : sessionDir'[i] = sessionDir[i]
      BY <1>2
    <2>9. FilesKept' /\ OwnIds'
      BY <1>1, <1>2, <1>4, <2>1, <2>7, <2>8, IdsStay
    <2>10. QED  BY <2>6, <2>9
  <1>7. ASSUME AllThere
        PROVE  AllThere'
    <2>1. \A i : There(i) => There(i)'
      BY <1>2 DEF There, ThereIn
    <2>2. \A i \in DOMAIN index'.sessions : There(i)'
      BY <1>3, <1>4, <1>7, <2>1 DEF AllThere, R
    <2>3. ~(Left(p)' \in 1 .. 5)
      BY <1>4
    <2>4. QED  BY <1>1, <1>4, <1>7, <2>1, <2>2, <2>3, ThereStays
  <1>8. QED  BY <1>1, <1>2, <1>5, <1>6, <1>7 DEF SessionInv

(* A death leaves at most a file of an id that nobody else has.            *)
LEMMA StoreDiesKeeps ==
    ASSUME SessionInv, NEW p \in Captures, CaptureDies(p)
    PROVE  SessionInv'
  <1> DEFINE k == job[p].id
  <1>1. /\ Typed /\ Typed' /\ Others(p) /\ job'[p] = NoJob /\ captureDeaths' > 0
        /\ \/ sessionDir' = sessionDir
           \/ /\ ~Deleting(p) /\ k \in SessionIds
              /\ sessionDir' = [sessionDir EXCEPT ![k][Step(p)] = Nobody]
    BY DiesTyped DEF SessionInv
  <1>2. /\ UNCHANGED <<index, captures, reported, chosenIds, removedIds>> /\ Step(p) # "none"
        /\ disturbed => disturbed'
    BY DEF CaptureDies
  <1>3. ~disturbed' => Step(p) \notin {"draw", "list", "unlist"}
    BY DEF CaptureDies
  <1>4. /\ JobOK(p) /\ job[p] # NoJob
        /\ Capturing(p) <=> ~Deleting(p) /\ k \notin chosenIds \cup {0}
    <2>1. JobOK(p) /\ job[p] # NoJob
      BY <1>1, <1>2, WhatIsDone
    <2>2. QED  BY <2>1, StepIs
  <1>5. ~Updating(p)' /\ ~Capturing(p)' /\ Left(p)' = 0
    <2>1. Step(p)' = "none" /\ Left(p)' = 0
      BY <1>1 DEF Step, Left, NoJob
    <2>2. QED  BY <2>1 DEF Updating, Capturing
  <1>6. \A i \in SessionIds \ {k} : sessionDir'[i] = sessionDir[i]
    BY <1>1 DEF Typed, Values
  <1>7. \/ \A i \in SessionIds : sessionDir'[i] = sessionDir[i]
        \/ k \in chosenIds' \cup removedIds' \cup {0}
        \/ Capturing(p) /\ k = job[p].id
    BY <1>1, <1>2, <1>4
  <1>8. ReportedAreIds'
    BY <1>2 DEF SessionInv, ReportedAreIds
  <1> HIDE DEF k
  <1>9. ASSUME ~disturbed'
        PROVE  OneUpdates' /\ FilesKept' /\ OwnIds' /\ AllThere'
    <2>1. OneUpdates /\ FilesKept /\ OwnIds /\ ReportedAreIds /\ AllThere
      BY <1>2, <1>9 DEF SessionInv
    <2>2. CapturedIds' \subseteq CapturedIds
      BY <1>1, <1>5, NobodyNew
    <2>3. OneUpdates'
      <3>1. CASE ~Updating(p)
        BY <1>1, <1>2, <1>5, <2>1, <2>2, <3>1, IndexStays
      <3>2. CASE Updating(p)
        <4>1. Step(p) = "empty"
          BY <1>3, <1>9, <3>2 DEF Updating
        <4>2. /\ index = job[p].read /\ \A q \in Captures \ {p} : ~Updating(q)
              /\ FitsTo(job[p].read, CapturedIds, reported, chosenIds, removedIds)
          BY <2>1, <3>2, <4>1 DEF OneUpdates, Fits
        <4>3. FitsTo(index, CapturedIds', reported, chosenIds, removedIds)
          BY <2>2, <4>2, FitsLess
        <4>4. FitsTo(index', CapturedIds', reported', chosenIds', removedIds')
          BY <1>2, <4>3
        <4>5. QED  BY <1>1, <1>5, <4>2, <4>4, UpdateEnds
      <3>3. QED  BY <3>1, <3>2
    <2>4. \A q \in Captures : Capturing(q) => job[q].id \in SessionIds
      BY <1>1, TypedIds
    <2>5. FilesKept' /\ OwnIds'
      BY <1>1, <1>2, <1>5, <1>6, <1>7, <2>1, <2>4, IdsStay
    <2>6. ASSUME NEW i \in SessionIds, There(i), i # k \/ ~Capturing(p)
          PROVE  There(i)'
      <3>1. CASE i = k /\ k \in chosenIds' \cup removedIds'
        BY <3>1 DEF There, ThereIn
      <3>2. CASE sessionDir'[i] = sessionDir[i]
        BY <1>2, <2>6, <3>2 DEF There, ThereIn
      <3>3. i # 0
        BY SessionStoreAssumption DEF SessionIds
      <3>4. QED  BY <1>6, <1>7, <2>6, <3>1, <3>2, <3>3
    <2>7. Capturing(p) => k \notin DOMAIN reported
      BY <2>1 DEF OwnIds, OwnId, k
    <2>8. DOMAIN index.sessions \subseteq DOMAIN reported
      <3>1. CASE \E q \in Captures : Updating(q)
        <4>1. PICK q \in Captures : Updating(q)
          BY <3>1
        <4>2. /\ index \in {job[q].read, EmptyIndex}
              /\ FitsTo(job[q].read, CapturedIds, reported, chosenIds, removedIds)
          BY <2>1, <4>1 DEF OneUpdates, Fits
        <4>3. DOMAIN EmptyIndex.sessions = {}
          BY DEF EmptyIndex
        <4>4. QED  BY <4>2, <4>3 DEF FitsTo
      <3>2. CASE \A q \in Captures : ~Updating(q)
        BY <2>1, <3>2 DEF OneUpdates, Fits, FitsTo
      <3>3. QED  BY <3>1, <3>2
    <2>9. \A i \in DOMAIN index'.sessions : There(i)'
      <3>1. DOMAIN index.sessions \subseteq SessionIds
        BY <1>1, TypedIds
      <3>2. QED  BY <1>2, <2>1, <2>6, <2>7, <2>8, <3>1 DEF AllThere
    <2>10. ASSUME NEW q \in Captures \ {p}, NEW i \in SessionIds, Needs(q, i)
           PROVE  There(i)'
      <3>1. There(i)
        BY <2>1, <2>10 DEF AllThere, Needs
      <3>2. CASE Updating(q) /\ i \in DOMAIN job[q].read.sessions
        <4>1. FitsTo(job[q].read, CapturedIds, reported, chosenIds, removedIds)
          BY <2>1, <3>2 DEF OneUpdates, Fits
        <4>2. i \in DOMAIN reported
          BY <3>2, <4>1 DEF FitsTo
        <4>3. QED  BY <2>6, <2>7, <3>1, <4>2
      <3>3. CASE ~Deleting(q) /\ Left(q) \in 1 .. 5 /\ job[q].id = i
        <4>1. ASSUME i = k, Capturing(p)
              PROVE  FALSE
          <5>1. k \notin chosenIds \cup {0} /\ OwnId(p)
            BY <1>4, <2>1, <4>1 DEF OwnIds
          <5>2. JobOK(q) /\ job[q] # NoJob
            BY <1>1, <3>3, NoStep DEF Typed
          <5>3. Capturing(q)
            BY <3>3, <4>1, <5>1, <5>2, StepIs
          <5>4. QED  BY <3>3, <4>1, <5>1, <5>3 DEF OwnId, k
        <4>2. QED  BY <2>6, <3>1, <4>1
      <3>4. QED  BY <2>10, <3>2, <3>3 DEF Needs
    <2>11. ~(Left(p)' \in 1 .. 5)
      BY <1>5
    <2>12. AllThere'
      BY <1>1, <1>5, <2>1, <2>9, <2>10, <2>11, ThereForOthers
    <2>13. QED  BY <2>3, <2>5, <2>12
  <1>10. QED  BY <1>1, <1>8, <1>9 DEF SessionInv

-----------------------------------------------------------------------------

LEMMA SessionsBegin == SessionInit => SessionInv
  <1> SUFFICES ASSUME SessionInit
               PROVE  SessionInv
    OBVIOUS
  <1>1. /\ index = EmptyIndex /\ sessionDir = [i \in SessionIds |-> NoFiles]
        /\ job = [p \in Captures |-> NoJob] /\ captures = 0 /\ captureDeaths = 0
        /\ reported = <<>> /\ disturbed = FALSE
    BY DEF SessionInit
  <1>2. \A p \in Captures : /\ job[p] = NoJob /\ p \notin Idless /\ ~Updating(p) /\ ~Capturing(p)
                            /\ ~Deleting(p) /\ Left(p) = 0
    BY <1>1, NoStep
  <1>3. IdLimit = 1 /\ DOMAIN reported = {} /\ DOMAIN EmptyIndex.sessions = {}
    <2>1. Idless = {}
      BY <1>2 DEF Idless
    <2>2. Cardinality(Idless) = 0
      BY <2>1, FS_EmptySet
    <2>3. IdLimit = 1
      BY <1>1, <2>2 DEF IdLimit
    <2>4. DOMAIN reported = {} /\ DOMAIN EmptyIndex.sessions = {}
      BY <1>1 DEF EmptyIndex
    <2>5. QED  BY <2>3, <2>4
  <1>4. Typed
    <2>1. NoFiles \in [session : 0 .. captures, turns : 0 .. captures, summary : 0 .. captures]
      BY <1>1 DEF NoFiles, Nobody
    <2>2. sessionDir \in [SessionIds -> [session : 0 .. captures, turns : 0 .. captures,
                                         summary : 0 .. captures]]
      BY <1>1, <2>1
    <2>3. IndexUpTo(index, IdLimit)
      BY <1>1, <1>3, NoIndexOK
    <2>4. captures \in 0 .. MaxCaptures
      BY <1>1, SessionStoreAssumption
    <2>5. /\ IdLimit \in Nat \ {0} /\ disturbed \in BOOLEAN /\ captureDeaths \in Nat
      <3>1. IdLimit \in Nat \ {0}
        BY <1>3, SMT
      <3>2. disturbed \in BOOLEAN
        BY <1>1, Zenon
      <3>3. captureDeaths \in Nat
        BY <1>1, SMT
      <3>4. QED  BY <3>1, <3>2, <3>3
    <2>6. DOMAIN job = Captures
      BY <1>1
    <2>7. Values
      BY <2>2, <2>3, <2>4, <2>5, <2>6 DEF Values, IndexOK
    <2>8. QED  BY <1>2, <2>7 DEF Typed, JobOK
  <1>5. CapturedIds = {}
    BY <1>2 DEF CapturedIds
  <1>6. OneUpdates /\ FilesKept /\ OwnIds /\ ReportedAreIds
    BY <1>1, <1>2, <1>3, <1>5 DEF OneUpdates, Fits, FitsTo, FilesKept, OwnIds, ReportedAreIds
  <1>7. AllThere
    BY <1>1, <1>2, <1>3 DEF AllThere
  <1>8. QED  BY <1>4, <1>6, <1>7 DEF SessionInv

LEMMA SessionsStay ==
    ASSUME SessionInv, [SessionNext]_sessionVars
    PROVE  SessionInv'
  <1>1. CASE UNCHANGED sessionVars
    <2>1. UNCHANGED <<index, sessionDir, job, captures, captureDeaths, reported, chosenIds,
                      removedIds, disturbed>>
      BY <1>1 DEF sessionVars
    <2>2. \A p \in Captures : UNCHANGED <<Left(p), Deleting(p), Updating(p), Capturing(p), Step(p)>>
      BY <2>1 DEF Left, Deleting, Updating, Capturing, Step
    <2>3. Idless' = Idless
      BY <2>2 DEF Idless
    <2>4. IdLimit' = IdLimit
      BY <2>1, <2>3 DEF IdLimit
    <2>5. CapturedIds' = CapturedIds
      BY <2>1, <2>2 DEF CapturedIds
    <2>6. Values <=> Values'
      BY <2>1, <2>4 DEF Values, IndexOK
    <2>7. \A p \in Captures : JobOK(p) <=> JobOK(p)'
      BY <2>1, <2>2, <2>3, <2>4 DEF JobOK, IndexOK
    <2>8. OneUpdates <=> OneUpdates'
      BY <2>1, <2>2, <2>5 DEF OneUpdates, Fits
    <2>9. (FilesKept <=> FilesKept') /\ (ReportedAreIds <=> ReportedAreIds')
      BY <2>1 DEF FilesKept, ReportedAreIds
    <2>10. OwnIds <=> OwnIds'
      BY <2>1, <2>2 DEF OwnIds, OwnId
    <2>11. AllThere <=> AllThere'
      BY <2>1, <2>2 DEF AllThere, There
    <2>12. QED  BY <2>1, <2>6, <2>7, <2>8, <2>9, <2>10, <2>11 DEF SessionInv, Typed
  <1>2. ASSUME NEW p \in Captures, CaptureSession(p)
        PROVE  SessionInv'
    <2>1. Typed' /\ Others(p) /\ job[p] = NoJob /\ job'[p].id = 0 /\ job'[p].todo = CaptureSteps
      BY <1>2, CaptureTyped DEF SessionInv
    <2>2. UNCHANGED <<index, sessionDir, captureDeaths, reported, removedIds, disturbed>>
      BY <1>2 DEF CaptureSession
    <2>3. QED  BY <2>1, <2>2, StoreBeginKeeps
  <1>3. ASSUME NEW p \in Captures, NEW i \in GivenIds, SaveSession(p, i)
        PROVE  SessionInv'
    <2>1. Typed' /\ Others(p) /\ job[p] = NoJob /\ job'[p].id = i /\ job'[p].todo = SaveSteps
      BY <1>3, SaveTyped DEF SessionInv
    <2>2. /\ UNCHANGED <<index, sessionDir, captureDeaths, reported, removedIds, disturbed>>
          /\ i \in chosenIds'
      BY <1>3 DEF SaveSession
    <2>3. QED  BY <2>1, <2>2, StoreBeginKeeps
  <1>4. ASSUME NEW p \in Captures, NEW i \in GivenIds, DeleteSession(p, i)
        PROVE  SessionInv'
    <2>1. Typed' /\ Others(p) /\ job[p] = NoJob /\ job'[p].todo = DeleteSteps
      BY <1>4, DeleteTyped DEF SessionInv
    <2>2. UNCHANGED <<index, sessionDir, captureDeaths, reported, removedIds, disturbed>>
      BY <1>4 DEF DeleteSession
    <2>3. QED  BY <2>1, <2>2, StoreBeginKeeps
  <1>5. QED
    BY <1>1, <1>2, <1>3, <1>4, StoreLoadKeeps, StoreEmptyKeeps, StoreDrawKeeps, StoreWriteKeeps,
       StoreListKeeps, StoreRemoveKeeps, StoreUnlistKeeps, StoreDiesKeeps DEF SessionNext

LEMMA SessionsAreSound == SessionInv => SessionsAreKept
  <1> SUFFICES ASSUME SessionInv
               PROVE  SessionsAreKept
    OBVIOUS
  <1>1. SessionTypeOK
    <2>1. Typed /\ IndexUpTo(index, IdLimit)
      BY DEF SessionInv, Typed, Values, IndexOK
    <2>2. ListSessions \subseteq SessionIds
      BY <2>1 DEF ListSessions, IndexUpTo
    <2>3. IdLimit \in Nat /\ IdLimit <= MaxCaptures + 1
      <3>1. /\ IsFiniteSet(Captures) /\ MaxCaptures \in Nat
            /\ captures \in 0 .. MaxCaptures /\ IdLimit \in Nat \ {0}
        BY <2>1, SessionStoreAssumption DEF Typed, Values
      <3>2. Cardinality(Idless) \in Nat
        <4>1. IsFiniteSet(Idless)
          BY <3>1, FS_Subset DEF Idless
        <4>2. QED  BY <4>1, FS_CardinalityType
      <3>3. QED  BY <3>1, <3>2 DEF IdLimit
    <2>4. index.next \in 1 .. MaxCaptures + 1
      <3>1. index.next \in 1 .. IdLimit /\ MaxCaptures \in Nat
        BY <2>1, SessionStoreAssumption DEF IndexUpTo
      <3>2. QED  BY <2>3, <3>1
    <2>5. \A i \in SessionIds : sessionDir[i].session \in 0 .. captures
      <3>1. sessionDir \in [SessionIds -> [session : 0 .. captures, turns : 0 .. captures,
                                           summary : 0 .. captures]]
        BY <2>1 DEF Typed, Values
      <3>2. QED  BY <3>1
    <2>6. \A p \in Captures : Step(p) = "none" => job[p] = NoJob
      BY <2>1, StepIs DEF Typed
    <2>7. QED  BY <2>2, <2>4, <2>5, <2>6 DEF SessionTypeOK
  <1>2. DrawnOnce
    BY DEF SessionInv, DrawnOnce, OwnIds, OwnId
  <1>3. SessionsKept
    <2> SUFFICES ASSUME ~disturbed, \A p \in Captures : ~Updating(p),
                        NEW i \in DOMAIN reported \ (chosenIds \cup removedIds)
                 PROVE  /\ i \in FilterSessions /\ index.sessions[i] = reported[i]
                        /\ sessionDir[i].session = reported[i] /\ sessionDir[i].turns = reported[i]
      BY DEF SessionsKept
    <2>1. FitsTo(index, CapturedIds, reported, chosenIds, removedIds) /\ FilesKept
      BY DEF SessionInv, OneUpdates, Fits
    <2>2. /\ i \in DOMAIN index.sessions /\ index.sessions[i] = reported[i] /\ reported[i] # Nobody
          /\ sessionDir[i].session = reported[i] /\ sessionDir[i].turns = reported[i]
      BY <2>1 DEF FitsTo, FilesKept
    <2>3. QED  BY <2>2 DEF FilterSessions, ListSessions, GetSession
  <1>4. ListedIsThere
    BY DEF SessionInv, AllThere, There, ThereIn, ListedIsThere, ListSessions, GetSession
  <1>5. QED  BY <1>1, <1>2, <1>3, <1>4 DEF SessionsAreKept

(* Saved sessions keep their ids, their files and their entries: no id is  *)
(* drawn twice and what was reported stays listed as long as no two        *)
(* commands update the index at once and none dies when it has emptied it; *)
(* what is listed is there whatever overlaps, or whoever dies; for any     *)
(* processes, ids and commands (storage/sessionstore.go).                  *)
THEOREM SessionsSurvive == SessionSpec => []SessionsAreKept
  <1>1. SessionSpec => []SessionInv
    BY SessionsBegin, SessionsStay, PTL DEF SessionSpec
  <1>2. QED  BY <1>1, SessionsAreSound, PTL

-----------------------------------------------------------------------------

(***************************************************************************)
(* Templates and the project files made of them: an update tells what the  *)
(* user changed from what it made itself, and leaves the former.           *)
(***************************************************************************)

ProjectFiles == BaseFiles \cup GitFiles \cup BMADFiles
FromTemplate(c) == c.text \notin {"absent", "empty", "mine", "workspace"}

(* What version v of the templates makes of the options.                   *)
RenderOf(v, o) ==
    [f \in Tree(o) \cap DOMAIN Templates[v] |->
       Content(Templates[v][f], IF f \in NamedFiles THEN o.name ELSE "")]

(* The files still to write, of which each is in one group.                *)
StillIn(groups) == UNION {groups[i] : i \in DOMAIN groups}
Apart(groups) == \A i, j \in DOMAIN groups : i # j => groups[i] \cap groups[j] = {}

(* What a manifest holds comes from the templates.  One of this version    *)
(* has every file of the project; where it differs from the template, so   *)
(* does the disk from it, unless a command wrote the file.                 *)
ManifestFits(m, v, d, cut) ==
    \/ m \in {NoManifest, BlankManifest}
    \/ /\ m.version \in Versions /\ m.version <= v
       /\ DOMAIN m.files \subseteq ProjectFiles
       /\ \A f \in DOMAIN m.files : FromTemplate(m.files[f])
       /\ m.version = v =>
            \A f \in DOMAIN RenderOf(v, m.options) :
              /\ f \in DOMAIN m.files
              /\ \/ m.files[f] = RenderOf(v, m.options)[f]
                 \/ f \in cut \/ d[f] # m.files[f]

Mending == IF OnProject THEN written ELSE {}
HonestSoFar ==
    \A f \in DOMAIN manifest.files : f \in unrecorded \cup Mending \/ manifest.files[f] = wrote[f]

(* What a command on a project has written is what it renders.             *)
OnFiles ==
    /\ rendered = RenderOf(version, command.options)
    /\ \A f \in written :
         /\ f \in DOMAIN baseline /\ baseline[f] = rendered[f] /\ wrote[f] = rendered[f]
         /\ f \notin touched => disk[f] = rendered[f]

NewProject == DOMAIN baseline = DOMAIN rendered /\ DOMAIN rendered = written \cup StillIn(pending)

(* An update follows its plan: what it leaves alone is as the template     *)
(* says, or a conflict; what it has not come to is as it was.              *)
OnPlan ==
    /\ HasManifest /\ command.options = manifest.options
    /\ DOMAIN baseline = DOMAIN manifest.files \cup written
    /\ \A f \in DOMAIN manifest.files \ written : baseline[f] = manifest.files[f]
    /\ skipped \subseteq DOMAIN rendered \ (written \cup StillIn(pending))
    /\ \A f \in DOMAIN rendered \ (written \cup StillIn(pending)) :
         /\ f \in DOMAIN manifest.files
         /\ rendered[f] = manifest.files[f] \/ disk[f] # manifest.files[f]
         /\ f \notin touched => disk[f] # Absent
         /\ f \in skipped <=> rendered[f] # manifest.files[f]
    /\ ~command.force =>
         \A f \in StillIn(pending) \ touched :
           \/ disk[f] = Absent \/ f \notin DOMAIN manifest.files
           \/ disk[f] = manifest.files[f]

CommandFits ==
    /\ command.op \in {"project", "update", "harness", "workspace"}
    /\ pending \in Seq(SUBSET DOMAIN rendered) /\ pending # <<>> /\ Apart(pending)
    /\ DOMAIN rendered \subseteq ScaffoldFiles /\ DOMAIN baseline \subseteq ScaffoldFiles
    /\ written \subseteq DOMAIN rendered \ StillIn(pending)
    /\ OnProject => OnFiles
    /\ command.op = "project" => NewProject
    /\ command.op = "update" => OnPlan
    /\ command.op = "harness" => DOMAIN rendered \subseteq HarnessFiles
    /\ command.op = "workspace" => \A f \in DOMAIN rendered : rendered[f].text = "workspace"

NoneUnderway == pending = <<>> /\ baseline = <<>> /\ written = {} /\ touched = {}

SettledAs(r, m, d, left) ==
    /\ left \subseteq DOMAIN r
    /\ \A f \in DOMAIN r :
         /\ f \in DOMAIN m.files /\ d[f] # Absent
         /\ r[f] = m.files[f] \/ d[f] # m.files[f]
         /\ f \in left <=> r[f] # m.files[f]

ScaffoldInv ==
    /\ version \in Versions /\ deaths \in 0 .. ScaffoldDeaths
    /\ DOMAIN disk = ScaffoldFiles /\ DOMAIN wrote = ScaffoldFiles
    /\ ManifestFits(manifest, version, disk, unrecorded \cup Mending)
    /\ HonestSoFar
    /\ Idle => NoneUnderway
    /\ ~Idle => CommandFits
    /\ settled => Idle /\ SettledAs(RenderOf(version, manifest.options), manifest, disk, skipped)

-----------------------------------------------------------------------------

LEMMA OtherTexts ==
    /\ Mine.text = "mine" /\ Absent.text = "absent" /\ Empty.text = "empty"
    /\ Mine # Absent
  BY DEF Mine, Absent, Empty, Content

LEMMA RenderIs ==
    ASSUME NEW o
    PROVE  renderArtifacts(o) = RenderOf(version, o)
  BY DEF renderArtifacts, renderFile, RenderOf

(* What is rendered comes from the templates.                              *)
LEMMA RenderFits ==
    ASSUME NEW v \in Versions, NEW o
    PROVE  /\ DOMAIN RenderOf(v, o) \subseteq ProjectFiles
           /\ \A f \in DOMAIN RenderOf(v, o) : FromTemplate(RenderOf(v, o)[f])
  <1> DEFINE r == RenderOf(v, o)
  <1>1. DOMAIN r = Tree(o) \cap DOMAIN Templates[v]
    BY DEF RenderOf
  <1>2. DOMAIN r \subseteq ProjectFiles
    BY <1>1 DEF Tree, ProjectFiles
  <1>3. ASSUME NEW f \in DOMAIN r
        PROVE  FromTemplate(r[f])
    <2>1. f \in DOMAIN Templates[v]
      BY <1>1
    <2> DEFINE n == IF f \in NamedFiles THEN o.name ELSE ""
    <2>2. r[f] = Content(Templates[v][f], n)
      BY DEF RenderOf
    <2> HIDE DEF r, n
    <2>3. r[f].text = Templates[v][f]
      BY <2>2 DEF Content
    <2>4. Templates[v][f] \notin {"absent", "empty", "mine", "workspace"}
      BY <2>1, ScaffoldAssumption
    <2>5. QED  BY <2>3, <2>4 DEF FromTemplate
  <1>4. QED  BY <1>2, <1>3

(* Of what is left to write after a file, and after a group.               *)
LEMMA LeftWithout ==
    ASSUME NEW S, NEW s \in Seq(SUBSET S), s # <<>>, Apart(s), NEW f \in Head(s)
    PROVE  LET t == [s EXCEPT ![1] = @ \ {f}]
           IN  /\ t \in Seq(SUBSET S) /\ t # <<>> /\ Apart(t)
               /\ StillIn(t) = StillIn(s) \ {f} /\ f \in StillIn(s)
  <1> DEFINE t == [s EXCEPT ![1] = @ \ {f}]
  <1>1. Len(s) \in Nat /\ Len(s) >= 1 /\ DOMAIN s = 1 .. Len(s) /\ Head(s) = s[1] /\ 1 \in DOMAIN s
    BY EmptySeq
  <1>2. DOMAIN t = DOMAIN s
    OBVIOUS
  <1>3. \A i \in DOMAIN s : s[i] \subseteq S
    BY <1>1
  <1>4. t[1] = s[1] \ {f} /\ \A i \in DOMAIN s : i # 1 => t[i] = s[i]
    BY <1>1
  <1>5. \A i \in DOMAIN t : t[i] \subseteq S
    BY <1>2, <1>3, <1>4
  <1>6. t = [i \in 1 .. Len(s) |-> t[i]]
    BY <1>1, <1>2
  <1>7. t \in Seq(SUBSET S)
    <2> HIDE DEF t
    <2>1. \A i \in 1 .. Len(s) : t[i] \in SUBSET S
      BY <1>1, <1>2, <1>5
    <2>2. QED  BY <1>1, <1>6, <2>1, IsASeq
  <1> HIDE DEF t
  <1>8. t # <<>>
    BY <1>1, <1>2
  <1>9. Apart(t)
    BY <1>2, <1>4 DEF Apart
  <1>10. f \in StillIn(s)
    BY <1>1 DEF StillIn
  <1>11. \A i \in DOMAIN s : i # 1 => f \notin s[i]
    BY <1>1 DEF Apart
  <1>12. StillIn(t) = StillIn(s) \ {f}
    BY <1>1, <1>2, <1>4, <1>11 DEF StillIn
  <1>13. QED  BY <1>7, <1>8, <1>9, <1>10, <1>12 DEF t

LEMMA LeftAfter ==
    ASSUME NEW S, NEW s \in Seq(SUBSET S), Len(s) > 1, Apart(s), Head(s) = {}
    PROVE  /\ Tail(s) \in Seq(SUBSET S) /\ Tail(s) # <<>> /\ Apart(Tail(s))
           /\ StillIn(Tail(s)) = StillIn(s)
  <1> DEFINE t == Tail(s)
             n == Len(s)
  <1>1. n \in Nat /\ DOMAIN s = 1 .. n /\ s[1] = {}
    OBVIOUS
  <1>2. t \in Seq(SUBSET S) /\ Len(t) = n - 1 /\ \A i \in 1 .. n - 1 : t[i] = s[i + 1]
    OBVIOUS
  <1>3. DOMAIN t = 1 .. n - 1
    BY <1>1, <1>2
  <1>4. n > 1
    OBVIOUS
  <1> HIDE DEF t, n
  <1>5. t # <<>>
    BY <1>1, <1>2, <1>4
  <1>6. \A i \in DOMAIN t : i + 1 \in DOMAIN s /\ t[i] = s[i + 1]
    BY <1>1, <1>2, <1>3
  <1>7. Apart(t)
    BY <1>1, <1>3, <1>6 DEF Apart
  <1>8. \A i \in DOMAIN s : i # 1 => i - 1 \in DOMAIN t /\ t[i - 1] = s[i]
    BY <1>1, <1>2, <1>3
  <1>9. StillIn(t) = StillIn(s)
    <2>1. StillIn(t) \subseteq StillIn(s)
      BY <1>6 DEF StillIn
    <2>2. ASSUME NEW x \in StillIn(s)
          PROVE  x \in StillIn(t)
      <3>1. PICK i \in DOMAIN s : x \in s[i]
        BY DEF StillIn
      <3>2. i # 1
        BY <1>1, <3>1
      <3>3. QED  BY <1>8, <3>1, <3>2 DEF StillIn
    <2>3. QED  BY <2>1, <2>2
  <1>10. QED  BY <1>2, <1>5, <1>7, <1>9 DEF t

LEMMA NothingLeft ==
    ASSUME NEW S, NEW s \in Seq(SUBSET S), Len(s) = 1, Head(s) = {}
    PROVE  StillIn(s) = {}
  <1>1. DOMAIN s = {1} /\ s[1] = {}
    OBVIOUS
  <1>2. QED  BY <1>1 DEF StillIn

LEMMA OneGroup ==
    ASSUME NEW S
    PROVE  /\ <<S>> \in Seq(SUBSET S) /\ <<S>> # <<>> /\ Apart(<<S>>) /\ StillIn(<<S>>) = S
  <1>1. <<S>> \in Seq(SUBSET S) /\ <<S>> # <<>>
    OBVIOUS
  <1>2. DOMAIN <<S>> = {1} /\ <<S>>[1] = S
    OBVIOUS
  <1>3. QED  BY <1>1, <1>2 DEF Apart, StillIn

(* The groups of an update: what is added, updated, and with force the     *)
(* conflicts too.                                                          *)
UpdateGroups(a, u, last) == <<a, u>> \o last
Covers(s, a, u, c, last) == StillIn(s) = a \cup u \cup (IF last = <<>> THEN {} ELSE c)
Splits(S, a, u, c) ==
    /\ a \subseteq S /\ u \subseteq S /\ c \subseteq S
    /\ a \cap u = {} /\ a \cap c = {} /\ u \cap c = {}

LEMMA GroupsOfUpdate ==
    ASSUME NEW S, NEW a, NEW u, NEW c, Splits(S, a, u, c), NEW l, l = <<c>> \/ l = <<>>, NEW s,
           s = UpdateGroups(a, u, l)
    PROVE  /\ s \in Seq(SUBSET S) /\ s # <<>> /\ Apart(s)
           /\ Covers(s, a, u, c, l)
  <1> USE DEF Splits, Covers
  <1>1. CASE l = <<c>>
    <2> DEFINE t == <<a, u>> \o <<c>>
    <2>1. <<a, u>> \in Seq(SUBSET S) /\ <<c>> \in Seq(SUBSET S)
      OBVIOUS
    <2>8. t \in Seq(SUBSET S) /\ Len(t) = 3 /\ t[1] = a /\ t[2] = u /\ t[3] = c
      BY <2>1
    <2>9. s = t
      BY <1>1 DEF UpdateGroups
    <2> HIDE DEF t
    <2>2. s \in Seq(SUBSET S) /\ Len(s) = 3 /\ s[1] = a /\ s[2] = u /\ s[3] = c
      BY <2>8, <2>9
    <2>3. DOMAIN s = {1, 2, 3}
      BY <2>2
    <2>4. s # <<>>
      BY <2>2
    <2>5. Apart(s)
      BY <2>2, <2>3 DEF Apart
    <2>6. StillIn(s) = a \cup u \cup c
      BY <2>2, <2>3 DEF StillIn
    <2>10. l # <<>>
      BY <1>1
    <2>7. QED  BY <2>2, <2>4, <2>5, <2>6, <2>10
  <1>2. CASE l = <<>>
    <2> DEFINE t == <<a, u>>
    <2>1. t \in Seq(SUBSET S) /\ s = t \o <<>>
      BY <1>2 DEF UpdateGroups
    <2>8. Len(t) = 2 /\ t[1] = a /\ t[2] = u
      OBVIOUS
    <2> HIDE DEF t
    <2>2. s = t
      BY <2>1, ConcatEmptySeq
    <2>3. s \in Seq(SUBSET S) /\ Len(s) = 2 /\ s[1] = a /\ s[2] = u
      BY <2>1, <2>2, <2>8
    <2>4. DOMAIN s = {1, 2}
      BY <2>3
    <2>5. Apart(s) /\ s # <<>>
      BY <2>3, <2>4 DEF Apart
    <2>6. StillIn(s) = a \cup u
      BY <2>3, <2>4 DEF StillIn
    <2>7. QED  BY <1>2, <2>3, <2>5, <2>6
  <1>3. QED  BY <1>1, <1>2

-----------------------------------------------------------------------------

(* The parts of the properties that the invariant gives.                   *)
LEMMA InvGivesUpdates == ScaffoldInv => UpdatesAreRight
  <1> SUFFICES ASSUME ScaffoldInv PROVE UpdatesAreRight
    OBVIOUS
  <1> DEFINE r == RenderOf(version, manifest.options)
             plan == PlanUpdate(r)
  <1>0. renderArtifacts(manifest.options) = r
    BY RenderIs
  <1>1. ManifestFits(manifest, version, disk, unrecorded \cup Mending)
    BY DEF ScaffoldInv
  <1>2. Versions \subseteq Nat \ {0} /\ version \in Versions
    BY ScaffoldAssumption DEF ScaffoldInv
  <1>3. ScaffoldTypeOK
    <2>1. HasManifest => DOMAIN manifest.files \subseteq ScaffoldFiles
      BY <1>1 DEF ManifestFits, BlankManifest, HasManifest, ProjectFiles, ScaffoldFiles
    <2>2. \A i \in DOMAIN pending : pending[i] \subseteq DOMAIN rendered
      BY DEF ScaffoldInv, NoneUnderway, CommandFits
    <2>3. Idle => pending = <<>>
      BY DEF ScaffoldInv, NoneUnderway
    <2>4. DOMAIN baseline \subseteq ScaffoldFiles
      BY DEF ScaffoldInv, NoneUnderway, CommandFits
    <2>5. QED  BY <1>2, <2>1, <2>2, <2>3, <2>4 DEF ScaffoldTypeOK, ScaffoldInv
  <1>4. Idle => Mending = {}
    BY DEF ScaffoldInv, NoneUnderway, Mending
  <1>5. BaselineHonest
    BY <1>4 DEF BaselineHonest, ScaffoldInv, HonestSoFar
  <1>6. UpdateSettles
    <2> SUFFICES ASSUME settled, Idle
                 PROVE  plan.added \cup plan.updated = {} /\ plan.conflicts = skipped
      BY <1>0 DEF UpdateSettles
    <2>1. SettledAs(r, manifest, disk, skipped)
      BY DEF ScaffoldInv
    <2> HIDE DEF r
    <2>2. plan.added = {}
      BY <2>1 DEF PlanUpdate, SettledAs
    <2>3. plan.updated = {}
      BY <2>1 DEF PlanUpdate, SettledAs, ByTemplate
    <2>4. plan.conflicts = {f \in DOMAIN r : ByTemplate(f, r) /\ disk[f] # manifest.files[f]}
      BY DEF PlanUpdate
    <2>5. \A f \in DOMAIN r : f \in skipped <=> (ByTemplate(f, r) /\ disk[f] # manifest.files[f])
      BY <2>1 DEF SettledAs, ByTemplate
    <2>6. skipped \subseteq DOMAIN r
      BY <2>1 DEF SettledAs
    <2>7. plan.conflicts = skipped
      BY <2>4, <2>5, <2>6
    <2>8. QED  BY <2>2, <2>3, <2>7
  <1>7. NoDriftNoUpdate
    <2> SUFFICES ASSUME Idle, HasManifest, manifest # BlankManifest, checkTemplateDrift = {}
                 PROVE  plan.added = {} /\ plan.updated \subseteq unrecorded
      BY <1>0 DEF NoDriftNoUpdate
    <2>1. manifest.version \in Versions
      BY <1>1 DEF ManifestFits, HasManifest
    <2>2. manifest.version \in {0, version} /\ \A f \in DOMAIN manifest.files : disk[f] # Absent
      BY DEF checkTemplateDrift
    <2>3. manifest.version = version
      BY <1>2, <2>1, <2>2
    <2>4. \A f \in DOMAIN r :
             /\ f \in DOMAIN manifest.files
             /\ manifest.files[f] = r[f] \/ f \in unrecorded \/ disk[f] # manifest.files[f]
      BY <1>1, <1>4, <2>3 DEF ManifestFits, HasManifest
    <2> HIDE DEF r
    <2>5. plan.added = {}
      BY <2>2, <2>4 DEF PlanUpdate
    <2>6. plan.updated \subseteq unrecorded
      BY <2>4 DEF PlanUpdate, ByTemplate
    <2>7. QED  BY <2>5, <2>6
  <1>8. QED  BY <1>3, <1>5, <1>6, <1>7 DEF UpdatesAreRight

LEMMA InitFits == ScaffoldInit => ScaffoldInv
  <1> SUFFICES ASSUME ScaffoldInit PROVE ScaffoldInv
    OBVIOUS
  <1>1. Idle /\ NoneUnderway
    BY DEF ScaffoldInit, Idle, NoneUnderway
  <1>2. ManifestFits(manifest, version, disk, unrecorded \cup Mending)
    BY DEF ScaffoldInit, ManifestFits
  <1>3. HonestSoFar
    BY DEF ScaffoldInit, HonestSoFar, NoManifest
  <1>4. QED  BY <1>1, <1>2, <1>3, ScaffoldAssumption DEF ScaffoldInit, ScaffoldInv

-----------------------------------------------------------------------------

(* A command begins.                                                       *)
LEMMA BeginFits ==
    ASSUME ScaffoldInv, NEW c, NEW groups, NEW r, NEW b, Begin(c, groups, r, b),
           c # NoCommand, CommandFits'
    PROVE  ScaffoldInv'
  <1>1. NoneUnderway
    BY DEF Begin, ScaffoldInv
  <1>2. Mending = {} /\ Mending' = {}
    BY <1>1 DEF Begin, Mending, NoneUnderway
  <1>3. ManifestFits(manifest, version, disk, unrecorded \cup Mending)'
    BY <1>2 DEF Begin, ScaffoldInv
  <1>4. HonestSoFar'
    BY <1>2 DEF Begin, ScaffoldInv, HonestSoFar
  <1>5. ~Idle' /\ ~settled'
    BY DEF Begin, Idle
  <1>6. QED  BY <1>3, <1>4, <1>5 DEF Begin, ScaffoldInv

LEMMA ProjectFits ==
    ASSUME ScaffoldInv, NEW o, InitializeProject(o)
    PROVE  ScaffoldInv'
  <1> DEFINE a == applyDefaults(o)
             c == Run("project", a, FALSE)
             r == RenderOf(version, a)
  <1>1. Begin(c, <<DOMAIN r>>, r, r)
    BY RenderIs DEF InitializeProject
  <1>2. c.op = "project" /\ c.options = a /\ c # NoCommand
    BY DEF Run, NoCommand
  <1>3. DOMAIN r \subseteq ScaffoldFiles
    BY RenderFits DEF ScaffoldInv, ScaffoldFiles, ProjectFiles
  <1>4. command' = c /\ pending' = <<DOMAIN r>> /\ rendered' = r /\ baseline' = r /\ written' = {}
        /\ version' = version
    BY <1>1 DEF Begin
  <1> HIDE DEF c, a, r
  <1>5. pending' \in Seq(SUBSET DOMAIN r) /\ pending' # <<>> /\ Apart(pending') /\ StillIn(pending') = DOMAIN r
    BY <1>4, OneGroup
  <1>6. OnFiles'
    BY <1>2, <1>4 DEF OnFiles, r
  <1>7. NewProject'
    BY <1>4, <1>5 DEF NewProject
  <1>8. CommandFits'
    BY <1>2, <1>3, <1>4, <1>5, <1>6, <1>7 DEF CommandFits
  <1>9. QED  BY <1>1, <1>2, <1>8, BeginFits

LEMMA UpdateFits ==
    ASSUME ScaffoldInv, NEW force \in BOOLEAN, ApplyUpdate(force)
    PROVE  ScaffoldInv'
  <1> DEFINE o == manifest.options
             c == Run("update", o, force)
             r == RenderOf(version, o)
             plan == PlanUpdate(r)
             added == {f \in DOMAIN r : disk[f] = Absent \/ f \notin DOMAIN manifest.files}
             updated == {f \in DOMAIN r : ByTemplate(f, r) /\ disk[f] = manifest.files[f]}
             conflicts == {f \in DOMAIN r : ByTemplate(f, r) /\ disk[f] # manifest.files[f]}
             groups == <<added, updated>> \o (IF force THEN <<conflicts>> ELSE <<>>)
  <1>1. plan.added = added /\ plan.updated = updated /\ plan.conflicts = conflicts
    BY DEF PlanUpdate
  <1>2. HasManifest /\ Begin(c, groups, r, manifest.files) /\ skipped' = IF force THEN {} ELSE conflicts
    BY <1>1, RenderIs DEF ApplyUpdate
  <1>3. c.op = "update" /\ c.options = o /\ c.force = force /\ c # NoCommand
    BY DEF Run, NoCommand
  <1>4. DOMAIN r \subseteq ScaffoldFiles /\ DOMAIN manifest.files \subseteq ScaffoldFiles
    <2>1. DOMAIN r \subseteq ScaffoldFiles
      BY RenderFits DEF ScaffoldInv, ScaffoldFiles, ProjectFiles
    <2>2. DOMAIN manifest.files \subseteq ScaffoldFiles
      BY <1>2 DEF ScaffoldInv, ManifestFits, HasManifest, BlankManifest, ProjectFiles, ScaffoldFiles
    <2>3. QED  BY <2>1, <2>2
  <1>5. added \cap updated = {} /\ added \cap conflicts = {} /\ updated \cap conflicts = {}
    BY DEF ByTemplate
  <1>6. \A f \in DOMAIN r \ (added \cup updated) :
           /\ f \in DOMAIN manifest.files /\ disk[f] # Absent
           /\ r[f] = manifest.files[f] \/ disk[f] # manifest.files[f]
           /\ f \in conflicts <=> r[f] # manifest.files[f]
    BY DEF ByTemplate
  <1>7. \A f \in added \cup updated :
           disk[f] = Absent \/ f \notin DOMAIN manifest.files \/ disk[f] = manifest.files[f]
    OBVIOUS
  <1>8. command' = c /\ pending' = groups /\ rendered' = r /\ baseline' = manifest.files
        /\ written' = {} /\ touched' = {}
        /\ version' = version /\ disk' = disk /\ manifest' = manifest /\ HasManifest'
    BY <1>2 DEF Begin, HasManifest
  <1>9. added \in SUBSET DOMAIN r /\ updated \in SUBSET DOMAIN r /\ conflicts \in SUBSET DOMAIN r
    OBVIOUS
  <1> HIDE DEF c, o, r, added, updated, conflicts
  <1>10. /\ groups \in Seq(SUBSET DOMAIN r) /\ groups # <<>> /\ Apart(groups)
         /\ StillIn(groups) = added \cup updated \cup (IF force THEN conflicts ELSE {})
    <2> DEFINE S == DOMAIN r
    <2>1. Splits(S, added, updated, conflicts)
      BY <1>5, <1>9 DEF Splits
    <2> DEFINE last == IF force THEN <<conflicts>> ELSE <<>>
    <2>2. groups = UpdateGroups(added, updated, last)
      BY DEF UpdateGroups
    <2>3. last = (IF force THEN <<conflicts>> ELSE <<>>)
      OBVIOUS
    <2> HIDE DEF S, groups, last, plan
    <2>4. last = <<conflicts>> \/ last = <<>>
      BY <2>3
    <2>5. /\ groups \in Seq(SUBSET S) /\ groups # <<>> /\ Apart(groups)
          /\ Covers(groups, added, updated, conflicts, last)
      BY <2>1, <2>2, <2>4, GroupsOfUpdate
    <2>6. last = <<>> <=> ~force
      BY <2>3
    <2>7. QED  BY <2>5, <2>6 DEF S, Covers
  <1> HIDE DEF groups
  <1>11. OnFiles'
    BY <1>3, <1>8 DEF OnFiles, r
  <1>12. OnPlan'
    <2>1. HasManifest' /\ command'.options = manifest'.options
      BY <1>3, <1>8 DEF o
    <2>2. DOMAIN baseline' = DOMAIN manifest'.files \cup written'
          /\ \A f \in DOMAIN manifest'.files \ written' : baseline'[f] = manifest'.files[f]
      BY <1>8
    <2>3. skipped' \subseteq DOMAIN rendered' \ (written' \cup StillIn(pending'))
      BY <1>2, <1>5, <1>8, <1>9, <1>10
    <2>4. \A f \in DOMAIN rendered' \ (written' \cup StillIn(pending')) :
         /\ f \in DOMAIN manifest'.files
         /\ rendered'[f] = manifest'.files[f] \/ disk'[f] # manifest'.files[f]
         /\ f \notin touched' => disk'[f] # Absent
         /\ f \in skipped' <=> rendered'[f] # manifest'.files[f]
      BY <1>2, <1>6, <1>8, <1>10
    <2>5. ~command'.force =>
             \A f \in StillIn(pending') \ touched' :
               \/ disk'[f] = Absent \/ f \notin DOMAIN manifest'.files
               \/ disk'[f] = manifest'.files[f]
      BY <1>3, <1>7, <1>8, <1>10
    <2>6. QED  BY <2>1, <2>2, <2>3, <2>4, <2>5 DEF OnPlan
  <1>13. CommandFits'
    BY <1>3, <1>4, <1>8, <1>10, <1>11, <1>12 DEF CommandFits
  <1>14. QED  BY <1>2, <1>3, <1>13, BeginFits

LEMMA HarnessFits ==
    ASSUME ScaffoldInv, NEW force \in BOOLEAN, InstallHarness(force)
    PROVE  ScaffoldInv'
  <1> DEFINE c == Run("harness", NoOptions, force)
             r == HarnessManifest
  <1>1. Begin(c, <<DOMAIN r>>, r, <<>>)
    BY DEF InstallHarness
  <1>2. c.op = "harness" /\ c # NoCommand
    BY DEF Run, NoCommand
  <1>3. DOMAIN r \subseteq HarnessFiles /\ HarnessFiles \subseteq ScaffoldFiles
    BY DEF HarnessManifest, ScaffoldFiles
  <1>4. command' = c /\ pending' = <<DOMAIN r>> /\ rendered' = r /\ baseline' = <<>> /\ written' = {}
    BY <1>1 DEF Begin
  <1> HIDE DEF c, r
  <1>5. pending' \in Seq(SUBSET DOMAIN r) /\ pending' # <<>> /\ Apart(pending') /\ StillIn(pending') = DOMAIN r
    BY <1>4, OneGroup
  <1>6. ~OnProject' /\ DOMAIN baseline' = {}
    BY <1>2, <1>4 DEF OnProject
  <1>7. CommandFits'
    BY <1>2, <1>3, <1>4, <1>5, <1>6 DEF CommandFits
  <1>8. QED  BY <1>1, <1>2, <1>7, BeginFits

LEMMA WorkspaceFits ==
    ASSUME ScaffoldInv, NewWorkspace
    PROVE  ScaffoldInv'
  <1> DEFINE c == Run("workspace", NoOptions, FALSE)
             r == [f \in BaseFiles |-> Content("workspace", "")]
  <1>1. Begin(c, <<BaseFiles>>, r, <<>>)
    BY DEF NewWorkspace
  <1>2. c.op = "workspace" /\ c # NoCommand
    BY DEF Run, NoCommand
  <1>3. DOMAIN r = BaseFiles /\ BaseFiles \subseteq ScaffoldFiles
    BY DEF ScaffoldFiles
  <1>4. \A f \in DOMAIN r : r[f].text = "workspace"
    BY DEF Content
  <1>5. command' = c /\ pending' = <<BaseFiles>> /\ rendered' = r /\ baseline' = <<>> /\ written' = {}
    BY <1>1 DEF Begin
  <1> HIDE DEF c, r
  <1>6. /\ pending' \in Seq(SUBSET DOMAIN r) /\ pending' # <<>> /\ Apart(pending')
        /\ StillIn(pending') = DOMAIN r
    BY <1>3, <1>5, OneGroup
  <1>7. ~OnProject' /\ DOMAIN baseline' = {}
    BY <1>2, <1>5 DEF OnProject
  <1>8. CommandFits'
    BY <1>2, <1>3, <1>4, <1>5, <1>6, <1>7 DEF CommandFits
  <1>9. QED  BY <1>1, <1>2, <1>8, BeginFits

-----------------------------------------------------------------------------

(* A command at work goes on with its plan, the rest being as it was.      *)
SameCommand == UNCHANGED <<version, manifest, command, rendered, unrecorded, settled, skipped, deaths>>

(* The disk changes where a command that may writes it, or a user.         *)
LEMMA ManifestStays ==
    ASSUME ScaffoldInv, NEW m, NEW v, NEW cut, NEW more, NEW g, NEW c,
           ManifestFits(m, v, disk, cut), cut \subseteq more,
           g \in more \/ c.text \in {"absent", "empty", "mine", "workspace"} \/ g \notin ProjectFiles
    PROVE  ManifestFits(m, v, [disk EXCEPT ![g] = c], more)
  <1> DEFINE d == [disk EXCEPT ![g] = c]
  <1>1. \A f : f # g => (f \in ScaffoldFiles => d[f] = disk[f])
    BY DEF ScaffoldInv
  <1>2. g \in ScaffoldFiles => d[g] = c
    BY DEF ScaffoldInv
  <1>3. CASE m \in {NoManifest, BlankManifest}
    BY <1>3 DEF ManifestFits
  <1>4. CASE m \notin {NoManifest, BlankManifest}
    <2> DEFINE r == RenderOf(v, m.options)
    <2>1. /\ m.version \in Versions /\ m.version <= v
          /\ DOMAIN m.files \subseteq ProjectFiles
          /\ \A f \in DOMAIN m.files : FromTemplate(m.files[f])
          /\ m.version = v =>
               \A f \in DOMAIN r :
                 /\ f \in DOMAIN m.files
                 /\ m.files[f] = r[f] \/ f \in cut \/ disk[f] # m.files[f]
      BY <1>4 DEF ManifestFits
    <2> HIDE DEF r, d
    <2>2. ASSUME m.version = v, NEW f \in DOMAIN r
          PROVE  f \in DOMAIN m.files /\ (m.files[f] = r[f] \/ f \in more \/ d[f] # m.files[f])
      <3>1. f \in DOMAIN m.files /\ f \in ProjectFiles /\ f \in ScaffoldFiles
        BY <2>1, <2>2 DEF ProjectFiles, ScaffoldFiles
      <3>2. CASE f # g
        BY <1>1, <2>1, <2>2, <3>1, <3>2
      <3>3. CASE f = g
        <4>1. d[f] = c
          BY <1>2, <3>1, <3>3
        <4>2. FromTemplate(m.files[f])
          BY <2>1, <3>1
        <4>3. c.text \in {"absent", "empty", "mine", "workspace"} => d[f] # m.files[f]
          BY <4>1, <4>2 DEF FromTemplate
        <4>4. QED  BY <3>1, <3>3, <4>3
      <3>4. QED  BY <3>2, <3>3
    <2>3. ManifestFits(m, v, d, more)
      <3>1. /\ m.version \in Versions /\ m.version <= v
            /\ DOMAIN m.files \subseteq ProjectFiles
            /\ \A f \in DOMAIN m.files : FromTemplate(m.files[f])
        BY <2>1
      <3>2. m.version = v =>
              \A f \in DOMAIN RenderOf(v, m.options) :
                /\ f \in DOMAIN m.files
                /\ \/ m.files[f] = RenderOf(v, m.options)[f]
                   \/ f \in more \/ d[f] # m.files[f]
        BY <2>2 DEF r
      <3>3. QED  BY <3>1, <3>2 DEF ManifestFits
    <2>4. QED  BY <2>3 DEF d
  <1>5. QED  BY <1>3, <1>4 DEF d

(* A step between two writes leaves the rest of the plan as it was.        *)
LEMMA WriteFits ==
    ASSUME ScaffoldInv, NEW f \in ScaffoldFiles, WriteArtifact(f)
    PROVE  ScaffoldInv'
  <1>1. ~Idle
    BY DEF WriteArtifact, ScaffoldInv, NoneUnderway
  <1>2. CommandFits /\ ~settled
    BY <1>1 DEF ScaffoldInv
  <1> DEFINE t == [pending EXCEPT ![1] = @ \ {f}]
  <1>3. /\ pending' = t /\ f \in Head(pending) /\ version' = version /\ manifest' = manifest
        /\ command' = command /\ rendered' = rendered /\ unrecorded' = unrecorded
        /\ touched' = touched /\ settled' = settled /\ skipped' = skipped /\ deaths' = deaths
    BY DEF WriteArtifact
  <1>4. /\ t \in Seq(SUBSET DOMAIN rendered) /\ t # <<>> /\ Apart(t)
        /\ StillIn(t) = StillIn(pending) \ {f} /\ f \in StillIn(pending)
    <2>1. /\ pending \in Seq(SUBSET DOMAIN rendered) /\ pending # <<>> /\ Apart(pending)
      BY <1>2 DEF CommandFits
    <2>2. QED  BY <1>3, <2>1, LeftWithout
  <1> HIDE DEF t
  <1>5. f \in DOMAIN rendered /\ f \notin written
    <2>1. \A i \in DOMAIN pending : pending[i] \subseteq DOMAIN rendered
      BY <1>2 DEF CommandFits
    <2>3. StillIn(pending) \subseteq DOMAIN rendered
      BY <2>1 DEF StillIn
    <2>2. QED  BY <1>2, <1>4, <2>3 DEF CommandFits
  <1>6. ~Idle' /\ OnProject' = OnProject /\ HasManifest' = HasManifest
    BY <1>1, <1>3 DEF Idle, OnProject, HasManifest
  <1>7. CASE ~Writes(f)
    <2>1. disk' = disk /\ wrote' = wrote /\ baseline' = baseline /\ written' = written
      BY <1>7 DEF WriteArtifact
    <2>2. ~OnProject
      BY <1>7 DEF Writes, OnProject
    <2>3. Mending' = Mending
      BY <1>6, <2>2 DEF Mending
    <2>4. ManifestFits(manifest, version, disk, unrecorded \cup Mending)'
      BY <1>3, <2>1, <2>3 DEF ScaffoldInv
    <2>5. HonestSoFar'
      BY <1>3, <2>1, <2>3 DEF ScaffoldInv, HonestSoFar
    <2>6. CommandFits'
      BY <1>2, <1>3, <1>4, <1>6, <2>1, <2>2 DEF CommandFits, OnProject
    <2>7. QED  BY <1>2, <1>3, <1>6, <2>1, <2>4, <2>5, <2>6 DEF ScaffoldInv
  <1>8. CASE Writes(f)
    <2>1. /\ disk' = [disk EXCEPT ![f] = rendered[f]]
          /\ wrote' = IF OnProject THEN [wrote EXCEPT ![f] = rendered[f]] ELSE wrote
          /\ baseline' = [g \in DOMAIN baseline \cup {f} |->
                         IF g = f THEN rendered[f] ELSE baseline[g]]
          /\ written' = written \cup {f}
      BY <1>8 DEF WriteArtifact
    <2>2. DOMAIN disk' = ScaffoldFiles /\ disk'[f] = rendered[f]
          /\ \A g \in ScaffoldFiles : g # f => disk'[g] = disk[g]
      BY <2>1 DEF ScaffoldInv
    <2>3. DOMAIN wrote' = ScaffoldFiles /\ (OnProject => wrote'[f] = rendered[f])
          /\ \A g \in ScaffoldFiles : g # f => wrote'[g] = wrote[g]
      BY <2>1 DEF ScaffoldInv
    <2>4. DOMAIN baseline' = DOMAIN baseline \cup {f} /\ baseline'[f] = rendered[f]
          /\ \A g \in DOMAIN baseline : g # f => baseline'[g] = baseline[g]
      BY <2>1
    <2>5. Mending' = IF OnProject THEN Mending \cup {f} ELSE Mending
      BY <1>6, <2>1 DEF Mending
    <2>6. ManifestFits(manifest, version, disk, unrecorded \cup Mending)'
      <3>1. \/ f \in unrecorded \cup Mending' \/ f \notin ProjectFiles
            \/ rendered[f].text \in {"absent", "empty", "mine", "workspace"}
        <4>1. CASE OnProject
          BY <2>5, <4>1
        <4>2. CASE command.op = "harness"
          BY <1>2, <1>5, <4>2, ScaffoldAssumption DEF CommandFits, ProjectFiles
        <4>3. CASE command.op = "workspace"
          BY <1>2, <1>5, <4>3 DEF CommandFits
        <4>4. QED  BY <1>2, <4>1, <4>2, <4>3 DEF CommandFits, OnProject
      <3>2. ManifestFits(manifest, version, disk, unrecorded \cup Mending)
        BY DEF ScaffoldInv
      <3>3. unrecorded \cup Mending \subseteq unrecorded \cup Mending'
        BY <2>5
      <3>4. ManifestFits(manifest, version, disk', unrecorded \cup Mending')
        BY <2>1, <3>1, <3>2, <3>3, ManifestStays
      <3>5. QED  BY <1>3, <3>4
    <2>7. HonestSoFar'
      <3> SUFFICES ASSUME NEW g \in DOMAIN manifest.files, g \notin unrecorded \cup Mending'
                   PROVE  manifest.files[g] = wrote'[g]
        BY <1>3 DEF HonestSoFar
      <3>1. manifest.files[g] = wrote[g]
        BY <2>5 DEF ScaffoldInv, HonestSoFar
      <3>2. g \in ScaffoldFiles
        BY DEF ScaffoldInv, ManifestFits, NoManifest, BlankManifest, ProjectFiles, ScaffoldFiles
      <3>3. QED  BY <2>1, <2>3, <2>5, <3>1, <3>2
    <2>8. OnProject => OnFiles'
      <3> SUFFICES ASSUME OnProject PROVE OnFiles'
        OBVIOUS
      <3>1. OnFiles
        BY <1>2 DEF CommandFits
      <3>2. \A g \in written : g \in ScaffoldFiles /\ g # f
        BY <1>2, <1>5 DEF CommandFits
      <3>3. QED  BY <1>3, <2>1, <2>2, <2>3, <2>4, <3>1, <3>2 DEF OnFiles
    <2>9. command.op = "project" => NewProject'
      BY <1>2, <1>3, <1>4, <1>5, <2>1, <2>4 DEF CommandFits, NewProject
    <2>10. command.op = "update" => OnPlan'
      <3> SUFFICES ASSUME command.op = "update" PROVE OnPlan'
        OBVIOUS
      <3>1. OnPlan
        BY <1>2 DEF CommandFits
      <3>2. written' \cup StillIn(pending') = written \cup StillIn(pending)
        BY <1>3, <1>4, <2>1
      <3>3. DOMAIN baseline' = DOMAIN manifest.files \cup written'
        BY <2>1, <2>4, <3>1 DEF OnPlan
      <3>4. \A g \in DOMAIN manifest.files \ written' : baseline'[g] = manifest.files[g]
        BY <2>1, <2>4, <3>1 DEF OnPlan
      <3>5. \A g \in DOMAIN rendered \ (written \cup StillIn(pending)) : g \in ScaffoldFiles /\ g # f
        BY <1>2, <1>4 DEF CommandFits
      <3>6. StillIn(pending) \subseteq ScaffoldFiles
        BY <1>2 DEF CommandFits, StillIn
      <3>7. ~command.force =>
              \A g \in StillIn(pending') \ touched :
                \/ disk'[g] = Absent \/ g \notin DOMAIN manifest.files
                \/ disk'[g] = manifest.files[g]
        BY <1>3, <1>4, <2>2, <3>1, <3>6 DEF OnPlan
      <3>8. \A g \in DOMAIN rendered \ (written \cup StillIn(pending)) :
               /\ g \in DOMAIN manifest.files
               /\ rendered[g] = manifest.files[g] \/ disk'[g] # manifest.files[g]
               /\ g \notin touched => disk'[g] # Absent
               /\ g \in skipped <=> rendered[g] # manifest.files[g]
        BY <2>2, <3>1, <3>5 DEF OnPlan
      <3>9. QED  BY <1>3, <1>6, <3>1, <3>2, <3>3, <3>4, <3>7, <3>8 DEF OnPlan
    <2>11. CommandFits'
      BY <1>2, <1>3, <1>4, <1>5, <1>6, <2>1, <2>4, <2>8, <2>9, <2>10 DEF CommandFits
    <2>12. QED  BY <1>2, <1>3, <1>6, <2>2, <2>3, <2>6, <2>7, <2>11 DEF ScaffoldInv
  <1>9. QED  BY <1>7, <1>8

LEMMA GroupFits ==
    ASSUME ScaffoldInv, NextGroup
    PROVE  ScaffoldInv'
  <1>1. ~Idle
    BY DEF NextGroup, ScaffoldInv, NoneUnderway
  <1>2. CommandFits /\ ~settled
    BY <1>1 DEF ScaffoldInv
  <1>3. /\ Len(pending) > 1 /\ Head(pending) = {} /\ pending' = Tail(pending)
        /\ UNCHANGED <<version, disk, manifest, command, rendered, baseline, wrote, written,
                       unrecorded, touched, settled, skipped, deaths>>
    BY DEF NextGroup
  <1>4. /\ pending' \in Seq(SUBSET DOMAIN rendered) /\ pending' # <<>> /\ Apart(pending')
        /\ StillIn(pending') = StillIn(pending)
    BY <1>2, <1>3, LeftAfter DEF CommandFits
  <1>5. Mending' = Mending /\ OnProject' = OnProject /\ ~Idle'
    BY <1>1, <1>3 DEF Mending, OnProject, Idle
  <1>6. CommandFits'
    <2>1. OnProject => OnFiles'
      BY <1>2, <1>3 DEF CommandFits, OnFiles
    <2>2. command.op = "project" => NewProject'
      BY <1>2, <1>3, <1>4 DEF CommandFits, NewProject
    <2>3. command.op = "update" => OnPlan'
      BY <1>2, <1>3, <1>4 DEF CommandFits, OnPlan, HasManifest
    <2>4. QED  BY <1>2, <1>3, <1>4, <1>5, <2>1, <2>2, <2>3 DEF CommandFits
  <1>7. ManifestFits(manifest, version, disk, unrecorded \cup Mending)'
    BY <1>3, <1>5 DEF ScaffoldInv
  <1>8. HonestSoFar'
    BY <1>3, <1>5 DEF ScaffoldInv, HonestSoFar
  <1>9. QED  BY <1>2, <1>3, <1>5, <1>6, <1>7, <1>8 DEF ScaffoldInv

(* The manifest is written: everything rendered is written by then, or     *)
(* left alone.                                                             *)
LEMMA ManifestIsWritten ==
    ASSUME ScaffoldInv, writeManifest
    PROVE  ScaffoldInv'
  <1>1. ~Idle
    BY DEF writeManifest, ScaffoldInv, NoneUnderway
  <1>2. CommandFits /\ ~settled
    BY <1>1 DEF ScaffoldInv
  <1>3. /\ Len(pending) = 1 /\ Head(pending) = {}
        /\ command' = NoCommand /\ pending' = <<>> /\ baseline' = <<>>
        /\ skipped' = IF command.op = "update" THEN skipped ELSE {}
        /\ touched' = {} /\ written' = {}
        /\ UNCHANGED <<version, disk, wrote, deaths>>
    BY DEF writeManifest
  <1>4. Idle' /\ NoneUnderway'
    BY <1>3 DEF Idle, NoneUnderway
  <1>5. Mending' = {}
    BY <1>3 DEF Mending
  <1>6. StillIn(pending) = {}
    BY <1>2, <1>3, NothingLeft DEF CommandFits
  <1>7. CASE ~OnProject
    <2>1. UNCHANGED <<manifest, unrecorded, settled>>
      BY <1>7 DEF writeManifest
    <2>2. Mending = {}
      BY <1>7 DEF Mending
    <2>3. ManifestFits(manifest, version, disk, unrecorded \cup Mending)'
      BY <1>3, <1>5, <2>1, <2>2 DEF ScaffoldInv
    <2>4. HonestSoFar'
      BY <1>3, <1>5, <2>1, <2>2 DEF ScaffoldInv, HonestSoFar
    <2>5. QED  BY <1>2, <1>3, <1>4, <2>1, <2>3, <2>4 DEF ScaffoldInv
  <1>8. CASE OnProject
    <2> DEFINE r == RenderOf(version, command.options)
    <2>1. /\ manifest' = Recorded /\ unrecorded' = unrecorded \ written
          /\ settled' = (touched = {} /\ unrecorded' = {})
      BY <1>8 DEF writeManifest
    <2>2. /\ manifest'.version = version /\ manifest'.options = command.options
          /\ manifest'.files = baseline
      BY <2>1 DEF Recorded, TemplateVersion
    <2>3. OnFiles /\ rendered = r
      BY <1>2, <1>8 DEF CommandFits, OnFiles
    <2>4. DOMAIN r \subseteq ProjectFiles /\ \A f \in DOMAIN r : FromTemplate(r[f])
      BY RenderFits DEF ScaffoldInv
    <2>5. written \subseteq DOMAIN r
      BY <1>2, <2>3 DEF CommandFits
    <2>6. DOMAIN r = DOMAIN rendered
      BY <2>3
    <2> HIDE DEF r
    <2>7. \A f \in written : f \in DOMAIN baseline /\ baseline[f] = r[f] /\ wrote[f] = r[f]
      BY <2>3 DEF OnFiles
    <2>8. DOMAIN baseline \subseteq ProjectFiles /\ \A f \in DOMAIN baseline : FromTemplate(baseline[f])
      <3>1. CASE command.op = "project"
        <4>1. DOMAIN baseline = DOMAIN r /\ DOMAIN r = written
          BY <1>2, <1>6, <2>3, <3>1 DEF CommandFits, NewProject
        <4>2. QED  BY <2>4, <2>7, <4>1
      <3>2. CASE command.op = "update"
        <4>1. /\ HasManifest /\ DOMAIN baseline = DOMAIN manifest.files \cup written
              /\ \A f \in DOMAIN manifest.files \ written : baseline[f] = manifest.files[f]
          BY <1>2, <3>2 DEF CommandFits, OnPlan
        <4>2. /\ DOMAIN manifest.files \subseteq ProjectFiles
              /\ \A f \in DOMAIN manifest.files : FromTemplate(manifest.files[f])
          BY <4>1 DEF ScaffoldInv, ManifestFits, HasManifest, BlankManifest
        <4>3. QED  BY <2>4, <2>5, <2>7, <4>1, <4>2
      <3>3. QED  BY <1>8, <3>1, <3>2 DEF OnProject
    <2>9. \A f \in DOMAIN r \ written :
             /\ f \in DOMAIN baseline
             /\ baseline[f] = r[f] \/ disk[f] # baseline[f]
             /\ touched = {} => disk[f] # Absent
             /\ f \in skipped' <=> r[f] # baseline[f]
      <3>1. CASE command.op = "project"
        BY <1>2, <1>6, <2>6, <3>1 DEF CommandFits, NewProject
      <3>2. CASE command.op = "update"
        <4>1. OnPlan
          BY <1>2, <3>2 DEF CommandFits
        <4>2. \A f \in DOMAIN r \ written : f \in DOMAIN manifest.files /\ baseline[f] = manifest.files[f]
          BY <1>6, <2>6, <4>1 DEF OnPlan
        <4>3. QED  BY <1>3, <1>6, <2>3, <3>2, <4>1, <4>2 DEF OnPlan
      <3>3. QED  BY <1>8, <3>1, <3>2 DEF OnProject
    <2>10. skipped' \subseteq DOMAIN r \ written
      <3>1. CASE command.op = "project"
        BY <1>3, <3>1
      <3>2. CASE command.op = "update"
        BY <1>2, <1>3, <2>6, <3>2 DEF CommandFits, OnPlan
      <3>3. QED  BY <1>8, <3>1, <3>2 DEF OnProject
    <2>11. ManifestFits(manifest', version, disk, unrecorded')
      <3>1. manifest'.version \in Versions /\ manifest'.version <= version
        BY <2>2, ScaffoldAssumption DEF ScaffoldInv
      <3>2. \A f \in DOMAIN r : f \in DOMAIN manifest'.files
               /\ (manifest'.files[f] = r[f] \/ disk[f] # manifest'.files[f])
        BY <2>2, <2>7, <2>9
      <3>3. r = RenderOf(version, manifest'.options)
        BY <2>2 DEF r
      <3>4. DOMAIN manifest'.files \subseteq ProjectFiles
            /\ \A f \in DOMAIN manifest'.files : FromTemplate(manifest'.files[f])
        BY <2>2, <2>8
      <3>5. QED  BY <3>1, <3>2, <3>3, <3>4 DEF ManifestFits
    <2>12. ManifestFits(manifest, version, disk, unrecorded \cup Mending)'
      <3>1. (unrecorded \cup Mending)' = unrecorded'
        BY <1>5
      <3>2. QED  BY <1>3, <2>11, <3>1
    <2>13. HonestSoFar'
      <3> SUFFICES ASSUME NEW f \in DOMAIN baseline, f \notin unrecorded'
                   PROVE  baseline[f] = wrote[f]
        BY <1>3, <2>2 DEF HonestSoFar
      <3>1. CASE f \in written
        BY <2>7, <3>1
      <3>2. CASE f \notin written
        <4>1. f \notin unrecorded
          BY <2>1, <3>2
        <4>2. command.op = "update"
          BY <1>2, <1>6, <1>8, <3>2 DEF CommandFits, NewProject, OnProject
        <4>3. f \in DOMAIN manifest.files /\ baseline[f] = manifest.files[f]
          BY <1>2, <3>2, <4>2 DEF CommandFits, OnPlan
        <4>4. QED  BY <3>2, <4>1, <4>3 DEF ScaffoldInv, HonestSoFar, Mending
      <3>3. QED  BY <3>1, <3>2
    <2>14. settled' => SettledAs(RenderOf(version, manifest'.options), manifest', disk, skipped')
      <3> SUFFICES ASSUME settled'
                   PROVE  SettledAs(r, manifest', disk, skipped')
        BY <2>2 DEF r
      <3>1. touched = {}
        BY <2>1
      <3>2. \A f \in written : disk[f] = r[f]
        BY <2>3, <3>1 DEF OnFiles
      <3>3. \A f \in written : disk[f] # Absent
        BY <2>4, <2>5, <3>2, OtherTexts DEF FromTemplate
      <3>4. QED  BY <2>2, <2>5, <2>7, <2>9, <2>10, <3>1, <3>3 DEF SettledAs
    <2>15. QED  BY <1>3, <1>4, <2>12, <2>13, <2>14 DEF ScaffoldInv
  <1>9. QED  BY <1>7, <1>8

(* A command dies: what it wrote is not recorded.                          *)
LEMMA DeathFits ==
    ASSUME ScaffoldInv, Die
    PROVE  ScaffoldInv'
  <1>1. ~Idle /\ CommandFits
    BY DEF Die, ScaffoldInv
  <1>2. /\ deaths < ScaffoldDeaths /\ deaths' = deaths + 1
        /\ command' = NoCommand /\ pending' = <<>> /\ baseline' = <<>>
        /\ settled' = FALSE /\ touched' = {} /\ written' = {}
        /\ UNCHANGED <<version, wrote>>
    BY DEF Die
  <1>3. Idle' /\ NoneUnderway' /\ ~settled'
    BY <1>2 DEF Idle, NoneUnderway
  <1>4. Mending' = {} /\ Mending \subseteq written
    BY <1>2 DEF Mending
  <1>5. deaths' \in 0 .. ScaffoldDeaths
    BY <1>2, ScaffoldAssumption DEF ScaffoldInv
  <1>6. ManifestFits(manifest, version, disk, unrecorded \cup Mending)
    BY DEF ScaffoldInv
  <1>7. ManifestFits(manifest, version, disk, unrecorded \cup written)
    BY <1>4, <1>6 DEF ManifestFits
  <1>8. \A f \in DOMAIN manifest.files : f \in unrecorded \cup written \/ manifest.files[f] = wrote[f]
    BY <1>4 DEF ScaffoldInv, HonestSoFar
  <1>9. CASE UNCHANGED <<disk, manifest>> /\ unrecorded' = unrecorded \cup written
    <2>1. ManifestFits(manifest, version, disk, unrecorded \cup Mending)'
      BY <1>2, <1>4, <1>7, <1>9
    <2>2. HonestSoFar'
      BY <1>2, <1>8, <1>9 DEF HonestSoFar
    <2>3. QED  BY <1>2, <1>3, <1>5, <1>9, <2>1, <2>2 DEF ScaffoldInv
  <1>10. ASSUME NEW f \in Head(pending), Writes(f), disk' = [disk EXCEPT ![f] = Empty],
                unrecorded' = unrecorded \cup written \cup {f}, UNCHANGED manifest
         PROVE  ScaffoldInv'
    <2>1. unrecorded \cup written \subseteq unrecorded' /\ f \in unrecorded'
      BY <1>10
    <2>2. ManifestFits(manifest, version, disk', unrecorded')
      BY <1>7, <1>10, <2>1, ManifestStays
    <2>3. ManifestFits(manifest, version, disk, unrecorded \cup Mending)'
      BY <1>2, <1>4, <1>10, <2>2
    <2>4. HonestSoFar'
      BY <1>2, <1>8, <1>10 DEF HonestSoFar
    <2>5. DOMAIN disk' = ScaffoldFiles
      BY <1>10 DEF ScaffoldInv
    <2>6. QED  BY <1>2, <1>3, <1>5, <2>3, <2>4, <2>5 DEF ScaffoldInv
  <1>11. CASE manifest' = BlankManifest /\ unrecorded' = unrecorded \cup written /\ UNCHANGED disk
    <2>1. ManifestFits(manifest, version, disk, unrecorded \cup Mending)'
      BY <1>11 DEF ManifestFits
    <2>2. HonestSoFar'
      BY <1>11 DEF HonestSoFar, BlankManifest
    <2>3. QED  BY <1>2, <1>3, <1>5, <1>11, <2>1, <2>2 DEF ScaffoldInv
  <1>12. QED  BY <1>9, <1>10, <1>11 DEF Die

(* A user changes a file.                                                  *)
LEMMA TouchFits ==
    ASSUME ScaffoldInv, NEW f \in ScaffoldFiles, Touch(f)
    PROVE  ScaffoldInv'
  <1>1. PICK c \in {Mine, Absent} : disk' = [disk EXCEPT ![f] = c]
    BY DEF Touch
  <1>2. /\ touched' = IF Idle THEN {} ELSE touched \cup {f}
        /\ settled' = FALSE /\ skipped' = IF Idle THEN {} ELSE skipped
        /\ UNCHANGED <<version, manifest, command, pending, rendered, baseline,
                       wrote, written, unrecorded, deaths>>
    BY DEF Touch
  <1>3. Mending' = Mending /\ OnProject' = OnProject /\ Idle' = Idle /\ HasManifest' = HasManifest
    BY <1>2 DEF Mending, OnProject, Idle, HasManifest
  <1>4. c.text \in {"absent", "empty", "mine", "workspace"}
    BY <1>1, OtherTexts
  <1>5. DOMAIN disk' = ScaffoldFiles /\ disk'[f] = c
        /\ \A g \in ScaffoldFiles : g # f => disk'[g] = disk[g]
    BY <1>1 DEF ScaffoldInv
  <1>6. ManifestFits(manifest, version, disk, unrecorded \cup Mending)'
    <2>1. ManifestFits(manifest, version, disk, unrecorded \cup Mending)
      BY DEF ScaffoldInv
    <2>2. ManifestFits(manifest, version, disk', unrecorded \cup Mending)
      BY <1>1, <1>4, <2>1, ManifestStays
    <2>3. QED  BY <1>2, <1>3, <2>2
  <1>7. HonestSoFar'
    BY <1>2, <1>3 DEF ScaffoldInv, HonestSoFar
  <1>8. Idle => NoneUnderway'
    BY <1>2 DEF ScaffoldInv, NoneUnderway
  <1>9. ~Idle => CommandFits'
    <2> SUFFICES ASSUME ~Idle PROVE CommandFits'
      OBVIOUS
    <2>1. CommandFits /\ touched' = touched \cup {f} /\ skipped' = skipped
      BY <1>2 DEF ScaffoldInv
    <2>2. OnProject => OnFiles'
      <3>1. written \subseteq ScaffoldFiles
        BY <2>1 DEF CommandFits
      <3>2. QED  BY <1>2, <1>5, <2>1, <3>1 DEF CommandFits, OnFiles
    <2>3. command.op = "project" => NewProject'
      BY <1>2, <2>1 DEF CommandFits, NewProject
    <2>4. command.op = "update" => OnPlan'
      <3> SUFFICES ASSUME command.op = "update" PROVE OnPlan'
        OBVIOUS
      <3>1. OnPlan
        BY <2>1 DEF CommandFits
      <3>2. DOMAIN rendered \subseteq ScaffoldFiles /\ StillIn(pending) \subseteq ScaffoldFiles
        <4>1. \A i \in DOMAIN pending : pending[i] \subseteq DOMAIN rendered
          BY <2>1 DEF CommandFits
        <4>2. QED  BY <2>1, <4>1 DEF CommandFits, StillIn
      <3>3. \A g \in DOMAIN manifest.files : FromTemplate(manifest.files[g])
        BY <3>1 DEF OnPlan, HasManifest, ScaffoldInv, ManifestFits, BlankManifest
      <3>4. \A g \in DOMAIN manifest.files : manifest.files[g] # c
        BY <1>4, <3>3 DEF FromTemplate
      <3>5. \A g \in DOMAIN rendered \ (written \cup StillIn(pending)) :
             /\ g \in DOMAIN manifest.files
             /\ rendered[g] = manifest.files[g] \/ disk'[g] # manifest.files[g]
             /\ g \notin touched' => disk'[g] # Absent
             /\ g \in skipped <=> rendered[g] # manifest.files[g]
        BY <1>5, <2>1, <3>1, <3>2, <3>4 DEF OnPlan
      <3>6. ~command.force =>
              \A g \in StillIn(pending) \ touched' :
                \/ disk'[g] = Absent \/ g \notin DOMAIN manifest.files
                \/ disk'[g] = manifest.files[g]
        BY <1>5, <2>1, <3>1, <3>2 DEF OnPlan
      <3>7. QED  BY <1>2, <1>3, <2>1, <3>1, <3>5, <3>6 DEF OnPlan
    <2>5. QED  BY <1>2, <1>3, <2>1, <2>2, <2>3, <2>4 DEF CommandFits
  <1>10. QED  BY <1>2, <1>3, <1>5, <1>6, <1>7, <1>8, <1>9 DEF ScaffoldInv

LEMMA UpgradeFits ==
    ASSUME ScaffoldInv, Upgrade
    PROVE  ScaffoldInv'
  <1>1. /\ Idle /\ version + 1 \in Versions /\ version' = version + 1
        /\ settled' = FALSE
        /\ UNCHANGED <<disk, manifest, command, pending, rendered, baseline,
                       wrote, written, unrecorded, touched, deaths>>
    BY DEF Upgrade
  <1>2. Mending' = Mending /\ Idle' = Idle
    BY <1>1 DEF Mending, OnProject, Idle
  <1>3. version \in Nat /\ Versions \subseteq Nat
    BY ScaffoldAssumption DEF ScaffoldInv
  <1>4. ManifestFits(manifest, version', disk, unrecorded \cup Mending)
    <2>1. ManifestFits(manifest, version, disk, unrecorded \cup Mending)
      BY DEF ScaffoldInv
    <2>2. CASE manifest \in {NoManifest, BlankManifest}
      BY <2>2 DEF ManifestFits
    <2>3. CASE manifest \notin {NoManifest, BlankManifest}
      <3>1. manifest.version \in Versions /\ manifest.version <= version
            /\ DOMAIN manifest.files \subseteq ProjectFiles
            /\ \A f \in DOMAIN manifest.files : FromTemplate(manifest.files[f])
        BY <2>1, <2>3 DEF ManifestFits
      <3> DEFINE n == manifest.version
                 v == version
      <3>4. n \in Nat /\ v \in Nat /\ n <= v /\ version' = v + 1
        BY <1>1, <1>3, <3>1
      <3> HIDE DEF n, v
      <3>5. n <= version' /\ n # version'
        BY <3>4
      <3>2. manifest.version <= version' /\ manifest.version # version'
        BY <3>5 DEF n
      <3>3. QED  BY <3>1, <3>2 DEF ManifestFits
    <2>4. QED  BY <2>2, <2>3
  <1>5. ManifestFits(manifest, version, disk, unrecorded \cup Mending)'
    BY <1>1, <1>2, <1>4
  <1>6. HonestSoFar'
    BY <1>1, <1>2 DEF ScaffoldInv, HonestSoFar
  <1>7. NoneUnderway'
    BY <1>1 DEF ScaffoldInv, NoneUnderway
  <1>8. QED  BY <1>1, <1>2, <1>5, <1>6, <1>7 DEF ScaffoldInv

LEMMA ScaffoldIsInvariant == ScaffoldSpec => []ScaffoldInv
  <1>1. ASSUME ScaffoldInv, ScaffoldNext PROVE ScaffoldInv'
    <2>1. CASE newInitProjectCmd
      BY <1>1, <2>1, ProjectFits DEF newInitProjectCmd
    <2>2. CASE newInitUpdateCmd
      BY <1>1, <2>2, UpdateFits DEF newInitUpdateCmd
    <2>3. CASE installClaudeHarness
      BY <1>1, <2>3, HarnessFits DEF installClaudeHarness
    <2>4. CASE NewWorkspace \/ NextGroup \/ writeManifest \/ Die \/ Upgrade
      BY <1>1, <2>4, WorkspaceFits, GroupFits, ManifestIsWritten, DeathFits, UpgradeFits
    <2>5. ASSUME NEW f \in ScaffoldFiles, WriteArtifact(f) \/ Touch(f)
          PROVE  ScaffoldInv'
      BY <1>1, <2>5, WriteFits, TouchFits
    <2>6. QED  BY <1>1, <2>1, <2>2, <2>3, <2>4, <2>5 DEF ScaffoldNext
  <1>2. ASSUME ScaffoldInv, UNCHANGED scaffoldVars PROVE ScaffoldInv'
    <2>1. /\ version' = version /\ disk' = disk /\ manifest' = manifest /\ command' = command
          /\ pending' = pending /\ rendered' = rendered /\ baseline' = baseline /\ wrote' = wrote
          /\ written' = written /\ unrecorded' = unrecorded /\ touched' = touched
          /\ settled' = settled /\ skipped' = skipped /\ deaths' = deaths
      BY <1>2 DEF scaffoldVars
    <2>2. /\ Mending' = Mending /\ OnProject' = OnProject /\ Idle' = Idle
          /\ HonestSoFar' = HonestSoFar /\ NoneUnderway' = NoneUnderway
      BY <2>1 DEF Mending, OnProject, Idle, HonestSoFar, NoneUnderway
    <2>3. OnFiles' = OnFiles /\ NewProject' = NewProject /\ OnPlan' = OnPlan
      BY <2>1 DEF OnFiles, NewProject, OnPlan, HasManifest
    <2>4. CommandFits' = CommandFits
      BY <2>1, <2>2, <2>3 DEF CommandFits
    <2>5. QED  BY <1>2, <2>1, <2>2, <2>4 DEF ScaffoldInv
  <1>3. QED  BY <1>1, <1>2, InitFits, PTL DEF ScaffoldSpec

(* Manifest, drift check and update agree on what is on disk, for any      *)
(* templates, answers, edits and deaths.                                   *)
THEOREM UpdatesStayRight == ScaffoldSpec => []UpdatesAreRight
  BY ScaffoldIsInvariant, InvGivesUpdates, PTL

(* What a file of the user's is overwritten by.                            *)
LEMMA WritesKeepEdits ==
    ASSUME ScaffoldInv, ~Idle, NEW f \in Head(pending), Writes(f), disk[f] = Mine
    PROVE  \/ f \in touched \/ command.op = "project" \/ command.force
           \/ command.op = "update" /\ f \notin DOMAIN manifest.files
  <1>1. CommandFits
    BY DEF ScaffoldInv
  <1>2. f \in StillIn(pending)
    <2>1. 1 \in DOMAIN pending /\ f \in pending[1]
      BY <1>1 DEF CommandFits
    <2>2. QED  BY <2>1 DEF StillIn
  <1>3. Mine # Absent
    BY OtherTexts
  <1>4. CASE command.op = "update"
    <2>1. OnPlan
      BY <1>1, <1>4 DEF CommandFits
    <2>2. \A g \in DOMAIN manifest.files : manifest.files[g] # Mine
      <3>1. \A g \in DOMAIN manifest.files : FromTemplate(manifest.files[g])
        BY <2>1 DEF OnPlan, HasManifest, ScaffoldInv, ManifestFits, BlankManifest
      <3>2. QED  BY <3>1, OtherTexts DEF FromTemplate
    <2>3. QED  BY <1>2, <1>3, <1>4, <2>1, <2>2 DEF OnPlan
  <1>5. CASE command.op = "workspace"
    BY <1>3, <1>5 DEF Writes
  <1>6. CASE command.op = "harness"
    BY <1>3, <1>6 DEF Writes, installHarnessFile
  <1>7. QED  BY <1>1, <1>4, <1>5, <1>6 DEF CommandFits

(* What a user wrote stays through every command but a new init project or *)
(* one with --force, a file that is not in the manifest, and one edited    *)
(* after the plan.                                                         *)
THEOREM EditsStay == ScaffoldSpec => EditsKept
  <1> DEFINE Kept == \A f \in ScaffoldFiles : disk[f] = Mine /\ disk'[f] # Mine =>
                       \/ f \in touched \cup touched' \/ Idle
                       \/ command.op = "project" \/ command.force
                       \/ command.op = "update" /\ f \notin DOMAIN manifest.files
  <1>1. ASSUME ScaffoldInv, ScaffoldNext PROVE Kept
    <2> SUFFICES ASSUME NEW f \in ScaffoldFiles, disk[f] = Mine, disk'[f] # Mine, ~Idle
                 PROVE  \/ f \in touched \cup touched'
                        \/ command.op = "project" \/ command.force
                        \/ command.op = "update" /\ f \notin DOMAIN manifest.files
      OBVIOUS
    <2>1. disk' # disk /\ DOMAIN disk = ScaffoldFiles
      BY <1>1 DEF ScaffoldInv
    <2>2. CASE newInitProjectCmd \/ newInitUpdateCmd \/ installClaudeHarness \/ NewWorkspace
      BY <2>2 DEF newInitProjectCmd, newInitUpdateCmd, installClaudeHarness, NewWorkspace,
                  InitializeProject, ApplyUpdate, InstallHarness, Begin
    <2>3. CASE NextGroup \/ writeManifest \/ Upgrade
      BY <2>1, <2>3 DEF NextGroup, writeManifest, Upgrade
    <2>4. CASE Die
      <3>1. PICK g \in Head(pending) : Writes(g) /\ disk' = [disk EXCEPT ![g] = Empty]
        BY <2>1, <2>4 DEF Die
      <3>2. g = f
        BY <2>1, <3>1
      <3>3. QED  BY <1>1, <3>1, <3>2, WritesKeepEdits
    <2>5. ASSUME NEW g \in ScaffoldFiles, WriteArtifact(g)
          PROVE  \/ f \in touched \/ command.op = "project" \/ command.force
                 \/ command.op = "update" /\ f \notin DOMAIN manifest.files
      <3>1. g \in Head(pending) /\ Writes(g) /\ disk' = [disk EXCEPT ![g] = rendered[g]]
        BY <2>1, <2>5 DEF WriteArtifact
      <3>2. g = f
        BY <2>1, <3>1
      <3>3. QED  BY <1>1, <3>1, <3>2, WritesKeepEdits
    <2>6. ASSUME NEW g \in ScaffoldFiles, Touch(g)
          PROVE  f \in touched'
      <3>1. PICK c \in {Mine, Absent} : disk' = [disk EXCEPT ![g] = c]
        BY <2>6 DEF Touch
      <3>2. g = f
        BY <2>1, <3>1
      <3>3. touched' = touched \cup {g}
        BY <2>6 DEF Touch
      <3>4. QED  BY <3>2, <3>3
    <2>7. QED  BY <1>1, <2>2, <2>3, <2>4, <2>5, <2>6 DEF ScaffoldNext
  <1>2. UNCHANGED scaffoldVars => UNCHANGED scaffoldVars
    OBVIOUS
  <1>3. ScaffoldInv /\ [ScaffoldNext]_scaffoldVars => [Kept]_scaffoldVars
    BY <1>1
  <1>4. QED  BY <1>3, ScaffoldIsInvariant, PTL DEF ScaffoldSpec, EditsKept

-----------------------------------------------------------------------------

(***************************************************************************)
(* The wiki: a publish writes what leads to each page, and no link of the  *)
(* wiki ends nowhere but where a dead publish left a page out.             *)
(***************************************************************************)

Names == WikiTasks \cup Initiatives \cup {OrgOf(i) : i \in Initiatives} \cup {""}
PageTags == Tags \cup {<<"adb">>}
Metas == [path : Seq(Names), tags : SUBSET PageTags, initiative : Initiatives \cup {""}]

(* The pages of navigation to the pages ms.                                *)
NavPages(ms) ==
    {renderIndex(ms, TagsOf(ms), InitiativesOf(ms))}
    \cup {byTag(ms, t) : t \in TagsOf(ms)}
    \cup {byInitiative(ms, i) : i \in InitiativesOf(ms)}
    \cup {renderLLMsTxt(ms), renderAgentsMd}
PathsOf(pages) == {e.path : e \in pages}

IsWritten(e, w) == e.path \in DOMAIN w /\ w[e.path] = e.links

(* What navigation is written, or still to write.                          *)
NavFits(n, w, ms) ==
    /\ n \in Seq(NavPages(ms)) /\ n # <<>>
    /\ \A e \in NavPages(ms) : e \in ToSet(n) \/ IsWritten(e, w)

WikiInv ==
    /\ DOMAIN knowledge = WikiTasks /\ DOMAIN initiative = WikiTasks
    /\ \A t \in WikiTasks : /\ knowledge[t] \subseteq Tags /\ IsFiniteSet(knowledge[t])
                            /\ initiative[t] \in Initiatives \cup {""}
    /\ hasFile \subseteq WikiTasks /\ scan \subseteq WikiTasks
    /\ stage # "pages" => scan = {}
    /\ stage # "navigation" => nav = <<>>
    /\ stage \in {"none", "pages", "navigation"}
    /\ metas \subseteq Metas /\ IsFiniteSet(metas)
    /\ \A m \in metas : m.path \in DOMAIN wiki /\ IsFiniteSet(m.tags)
    /\ LinksResolve
    /\ stage = "navigation" => NavFits(nav, wiki, metas)
    /\ latest # {} => /\ stage = "none" /\ latest \subseteq Metas
                      /\ \A e \in NavPages(latest) : IsWritten(e, wiki)

-----------------------------------------------------------------------------

LEMMA ElementsOfConcat ==
    ASSUME NEW X, NEW s \in Seq(X), NEW t \in Seq(X)
    PROVE  s \o t \in Seq(X) /\ ToSet(s \o t) = ToSet(s) \cup ToSet(t)
  <1> DEFINE u == s \o t
             a == Len(s)
             b == Len(t)
  <1>1. /\ u \in Seq(X) /\ Len(u) = a + b
        /\ \A i \in 1 .. a + b : u[i] = IF i <= a THEN s[i] ELSE t[i - a]
    BY ConcatProperties
  <1>2. a \in Nat /\ b \in Nat /\ DOMAIN s = 1 .. a /\ DOMAIN t = 1 .. b
    OBVIOUS
  <1> HIDE DEF u, a, b
  <1>3. DOMAIN u = 1 .. a + b
    BY <1>1
  <1>4. \A i \in DOMAIN u : u[i] \in ToSet(s) \cup ToSet(t)
    <2> SUFFICES ASSUME NEW i \in DOMAIN u PROVE u[i] \in ToSet(s) \cup ToSet(t)
      OBVIOUS
    <2>1. CASE i <= a
      BY <1>1, <1>2, <1>3, <2>1 DEF ToSet
    <2>2. CASE ~(i <= a)
      <3>1. i - a \in 1 .. b /\ u[i] = t[i - a]
        BY <1>1, <1>2, <1>3, <2>2
      <3>2. QED  BY <1>2, <3>1 DEF ToSet
    <2>3. QED  BY <2>1, <2>2
  <1>5. \A i \in DOMAIN s : s[i] \in ToSet(u)
    <2> SUFFICES ASSUME NEW i \in DOMAIN s PROVE s[i] \in ToSet(u)
      OBVIOUS
    <2>1. i \in 1 .. a + b /\ u[i] = s[i]
      BY <1>1, <1>2
    <2>2. QED  BY <1>3, <2>1 DEF ToSet
  <1>6. \A i \in DOMAIN t : t[i] \in ToSet(u)
    <2> SUFFICES ASSUME NEW i \in DOMAIN t PROVE t[i] \in ToSet(u)
      OBVIOUS
    <2>1. i + a \in 1 .. a + b /\ ~(i + a <= a) /\ (i + a) - a = i
      BY <1>2
    <2>2. u[i + a] = t[i]
      BY <1>1, <2>1
    <2>3. QED  BY <1>3, <2>1, <2>2 DEF ToSet
  <1>7. ToSet(u) = ToSet(s) \cup ToSet(t)
    BY <1>4, <1>5, <1>6 DEF ToSet
  <1>8. QED  BY <1>1, <1>7 DEF u

(* The paths of the pages of navigation.                                   *)
LEMMA TagPath ==
    ASSUME NEW t \in PageTags
    PROVE  TagPage(t) = <<"tags", t[1]>> /\ t = <<t[1]>>
  <1>1. t = <<t[1]>>
    BY WikiAssumption DEF PageTags
  <1> DEFINE n == t[1]
  <1>2. t = <<n>>
    BY <1>1
  <1> HIDE DEF n
  <1>3. <<"tags">> \o <<n>> = <<"tags", n>>
    <2> DEFINE S == {"tags", n}
               u == <<"tags">> \o <<n>>
               a == <<"tags">>
               b == <<n>>
    <2>1. a \in Seq(S) /\ b \in Seq(S) /\ Len(a) = 1 /\ Len(b) = 1 /\ a[1] = "tags" /\ b[1] = n
      OBVIOUS
    <2>2. u = a \o b
      OBVIOUS
    <2> HIDE DEF S, u, a, b
    <2>3. u \in Seq(S) /\ Len(u) = Len(a) + Len(b)
          /\ \A i \in 1 .. Len(a) + Len(b) : u[i] = IF i <= Len(a) THEN a[i] ELSE b[i - Len(a)]
      BY <2>1, <2>2, ConcatProperties
    <2>4. u \in Seq(S) /\ Len(u) = 2 /\ u[1] = "tags" /\ u[2] = n
      BY <2>1, <2>3
    <2>5. u = <<"tags", n>>
      BY <2>4
    <2>6. QED  BY <2>5 DEF u
  <1>4. TagPage(t) = <<"tags", n>>
    BY <1>2, <1>3 DEF TagPage
  <1>5. QED  BY <1>1, <1>4 DEF n

(* Where the links of the top and of the lists lead.                       *)
LEMMA FromTop ==
    ASSUME NEW X, NEW name, NEW to \in Seq(X)
    PROVE  Resolve(<<name>>, FromRoot(to)) = to
  <1> DEFINE p == <<name>>
  <1>1. Len(p) - 1 - 0 = 0
    OBVIOUS
  <1>2. FromRoot(to).up = 0 /\ FromRoot(to).to = to
    BY DEF FromRoot
  <1>3. SubSeq(p, 1, 0) = <<>>
    BY SubSeqEmpty
  <1>4. <<>> \o to = to
    BY ConcatEmptySeq
  <1> HIDE DEF p
  <1>5. Resolve(p, FromRoot(to)) = to
    BY <1>1, <1>2, <1>3, <1>4 DEF Resolve
  <1>6. QED  BY <1>5 DEF p

LEMMA FromList ==
    ASSUME NEW X, NEW dir, NEW name, NEW to \in Seq(X)
    PROVE  Resolve(<<dir, name>>, relLink(<<dir>>, to)) = to
  <1> DEFINE p == <<dir, name>>
             l == relLink(<<dir>>, to)
  <1>1. Len(p) = 2 /\ Len(<<dir>>) = 1
    OBVIOUS
  <1>2. l.up = Len(<<dir>>) /\ l.to = to
    BY DEF relLink
  <1>3. SubSeq(p, 1, 0) = <<>>
    BY SubSeqEmpty
  <1>4. <<>> \o to = to
    BY ConcatEmptySeq
  <1> HIDE DEF p, l
  <1>5. Len(p) - 1 - l.up = 0
    BY <1>1, <1>2
  <1>6. Resolve(p, l) = to
    BY <1>2, <1>3, <1>4, <1>5 DEF Resolve
  <1>7. QED  BY <1>6 DEF p, l

LEMMA MetaTypes ==
    ASSUME NEW ms \in SUBSET Metas, NEW m \in ms
    PROVE  /\ m.path \in Seq(Names) /\ m.tags \subseteq PageTags /\ m.tags \subseteq TagsOf(ms)
           /\ m.initiative # "" => m.initiative \in InitiativesOf(ms)
  BY DEF Metas, TagsOf, InitiativesOf

LEMMA TagsFit ==
    ASSUME NEW ms \in SUBSET Metas
    PROVE  TagsOf(ms) \subseteq PageTags
  BY DEF Metas, TagsOf

(* Where a page of navigation leads.                                       *)
LeadsFrom(e) == {Resolve(e.path, l) : l \in e.links}

LEMMA ListLeads ==
    ASSUME NEW dir, NEW name, NEW ms \in SUBSET Metas, NEW from \in SUBSET ms
    PROVE  LeadsFrom(RenderListPage(<<dir, name>>, <<dir>>, from)) = {m.path : m \in from}
  <1> DEFINE e == RenderListPage(<<dir, name>>, <<dir>>, from)
  <1>1. e.path = <<dir, name>> /\ e.links = {relLink(<<dir>>, m.path) : m \in from}
    BY DEF RenderListPage
  <1>2. \A m \in from : Resolve(<<dir, name>>, relLink(<<dir>>, m.path)) = m.path
    <2> SUFFICES ASSUME NEW m \in from
                 PROVE  Resolve(<<dir, name>>, relLink(<<dir>>, m.path)) = m.path
      OBVIOUS
    <2>1. m.path \in Seq(Names)
      BY MetaTypes
    <2>2. QED  BY <2>1, FromList
  <1> HIDE DEF e
  <1>3. LeadsFrom(e) = {Resolve(<<dir, name>>, l) : l \in {relLink(<<dir>>, m.path) : m \in from}}
    BY <1>1 DEF LeadsFrom
  <1>4. LeadsFrom(e) = {m.path : m \in from}
    BY <1>2, <1>3
  <1>5. QED  BY <1>4 DEF e

LEMMA TagLeads ==
    ASSUME NEW ms \in SUBSET Metas, NEW t \in PageTags
    PROVE  byTag(ms, t).path = TagPage(t) /\ LeadsFrom(byTag(ms, t)) = {m.path : m \in {m \in ms : t \in m.tags}}
  <1> DEFINE from == {m \in ms : t \in m.tags}
  <1>1. TagPage(t) = <<"tags", t[1]>>
    BY TagPath
  <1>2. byTag(ms, t) = RenderListPage(<<"tags", t[1]>>, <<"tags">>, from)
    BY <1>1 DEF byTag
  <1>3. from \in SUBSET ms
    OBVIOUS
  <1> HIDE DEF from
  <1>4. LeadsFrom(RenderListPage(<<"tags", t[1]>>, <<"tags">>, from)) = {m.path : m \in from}
    BY <1>3, ListLeads
  <1>5. byTag(ms, t).path = TagPage(t)
    BY <1>1, <1>2 DEF RenderListPage
  <1>6. QED  BY <1>2, <1>4, <1>5 DEF from

LEMMA InitiativeLeads ==
    ASSUME NEW ms \in SUBSET Metas, NEW i
    PROVE  /\ byInitiative(ms, i).path = <<"initiatives", i>>
           /\ LeadsFrom(byInitiative(ms, i)) = {m.path : m \in {m \in ms : m.initiative = i}}
  <1> DEFINE from == {m \in ms : m.initiative = i}
  <1>2. byInitiative(ms, i) = RenderListPage(<<"initiatives", i>>, <<"initiatives">>, from)
    BY DEF byInitiative, InitiativePage
  <1>3. from \in SUBSET ms
    OBVIOUS
  <1> HIDE DEF from
  <1>4. LeadsFrom(RenderListPage(<<"initiatives", i>>, <<"initiatives">>, from)) = {m.path : m \in from}
    BY <1>3, ListLeads
  <1>5. byInitiative(ms, i).path = <<"initiatives", i>>
    BY <1>2 DEF RenderListPage
  <1>6. QED  BY <1>2, <1>4, <1>5 DEF from

LEMMA EndLeads ==
    ASSUME NEW ms \in SUBSET Metas
    PROVE  /\ LeadsFrom(renderLLMsTxt(ms)) = PathsOf(ms)
           /\ LeadsFrom(renderAgentsMd) = {<<"index">>}
  <1>1. LeadsFrom(renderLLMsTxt(ms)) = PathsOf(ms)
    <2> DEFINE e == renderLLMsTxt(ms)
    <2>1. e.path = <<"llms">> /\ e.links = {FromRoot(m.path) : m \in ms}
      BY DEF renderLLMsTxt
    <2>2. ASSUME NEW m \in ms PROVE Resolve(<<"llms">>, FromRoot(m.path)) = m.path
      <3>1. m.path \in Seq(Names)
        BY MetaTypes
      <3>2. QED  BY <3>1, FromTop
    <2> HIDE DEF e
    <2>3. LeadsFrom(e) = {m.path : m \in ms}
      BY <2>1, <2>2 DEF LeadsFrom
    <2>4. QED  BY <2>3 DEF e, PathsOf
  <1>2. LeadsFrom(renderAgentsMd) = {<<"index">>}
    <2> DEFINE e == renderAgentsMd
               top == <<"index">>
    <2>1. e.path = <<"AGENTS">> /\ e.links = {FromRoot(top)}
      BY DEF renderAgentsMd
    <2>2. top \in Seq({"index"})
      OBVIOUS
    <2> HIDE DEF e, top
    <2>3. Resolve(<<"AGENTS">>, FromRoot(top)) = top
      BY <2>2, FromTop
    <2>4. LeadsFrom(e) = {top}
      BY <2>1, <2>3 DEF LeadsFrom
    <2>5. QED  BY <2>4 DEF e, top
  <1>3. QED  BY <1>1, <1>2

LEMMA IndexLeads ==
    ASSUME NEW ms \in SUBSET Metas
    PROVE  LeadsFrom(renderIndex(ms, TagsOf(ms), InitiativesOf(ms))) =
             PathsOf(ms) \cup {TagPage(t) : t \in TagsOf(ms)}
                         \cup {InitiativePage(i) : i \in InitiativesOf(ms)}
  <1> DEFINE e == renderIndex(ms, TagsOf(ms), InitiativesOf(ms))
             top == <<"index">>
  <1>1. /\ e.path = top
        /\ e.links = {FromRoot(m.path) : m \in ms} \cup {FromRoot(TagPage(t)) : t \in TagsOf(ms)}
                     \cup {FromRoot(InitiativePage(i)) : i \in InitiativesOf(ms)}
    BY DEF renderIndex
  <1>2. ASSUME NEW m \in ms PROVE Resolve(top, FromRoot(m.path)) = m.path
    <2>1. m.path \in Seq(Names)
      BY MetaTypes
    <2>2. QED  BY <2>1, FromTop
  <1>3. ASSUME NEW t \in TagsOf(ms) PROVE Resolve(top, FromRoot(TagPage(t))) = TagPage(t)
    <2>1. TagPage(t) = <<"tags", t[1]>>
      BY TagsFit, TagPath
    <2>2. <<"tags", t[1]>> \in Seq({"tags", t[1]})
      OBVIOUS
    <2>3. QED  BY <2>1, <2>2, FromTop
  <1>4. ASSUME NEW i \in InitiativesOf(ms) PROVE Resolve(top, FromRoot(InitiativePage(i))) = InitiativePage(i)
    <2>1. InitiativePage(i) \in Seq({"initiatives", i})
      BY DEF InitiativePage
    <2>2. QED  BY <2>1, FromTop
  <1> HIDE DEF e, top
  <1>5. LeadsFrom(e) = {Resolve(top, l) : l \in e.links}
    BY <1>1 DEF LeadsFrom
  <1>6. {Resolve(top, l) : l \in e.links} =
           {m.path : m \in ms} \cup {TagPage(t) : t \in TagsOf(ms)}
             \cup {InitiativePage(i) : i \in InitiativesOf(ms)}
    BY <1>1, <1>2, <1>3, <1>4
  <1>7. QED  BY <1>5, <1>6 DEF e, PathsOf

(* Navigation leads to the pages and to itself.                            *)
LEMMA NavLeads ==
    ASSUME NEW ms \in SUBSET Metas, NEW e \in NavPages(ms)
    PROVE  LeadsFrom(e) \subseteq PathsOf(ms) \cup PathsOf(NavPages(ms))
  <1> DEFINE front == renderIndex(ms, TagsOf(ms), InitiativesOf(ms))
             N == NavPages(ms)
  <1>1. \A t \in TagsOf(ms) : TagPage(t) \in PathsOf(N)
    <2> SUFFICES ASSUME NEW t \in TagsOf(ms) PROVE TagPage(t) \in PathsOf(N)
      OBVIOUS
    <2>1. byTag(ms, t) \in N /\ byTag(ms, t).path = TagPage(t)
      BY TagsFit, TagLeads DEF NavPages
    <2>2. QED  BY <2>1 DEF PathsOf
  <1>2. \A i \in InitiativesOf(ms) : InitiativePage(i) \in PathsOf(N)
    <2> SUFFICES ASSUME NEW i \in InitiativesOf(ms) PROVE InitiativePage(i) \in PathsOf(N)
      OBVIOUS
    <2>1. byInitiative(ms, i) \in N /\ byInitiative(ms, i).path = InitiativePage(i)
      BY InitiativeLeads DEF NavPages, InitiativePage
    <2>2. QED  BY <2>1 DEF PathsOf
  <1>3. <<"index">> \in PathsOf(N)
    <2>1. front \in N /\ front.path = <<"index">>
      BY DEF NavPages, renderIndex
    <2>2. QED  BY <2>1 DEF PathsOf
  <1>4. CASE e = front
    BY <1>1, <1>2, <1>4, IndexLeads
  <1>5. ASSUME NEW t \in TagsOf(ms), e = byTag(ms, t)
        PROVE  LeadsFrom(e) \subseteq PathsOf(ms)
    <2>1. LeadsFrom(byTag(ms, t)) = {m.path : m \in {m \in ms : t \in m.tags}}
      BY TagsFit, TagLeads
    <2>2. QED  BY <1>5, <2>1 DEF PathsOf
  <1>6. ASSUME NEW i \in InitiativesOf(ms), e = byInitiative(ms, i)
        PROVE  LeadsFrom(e) \subseteq PathsOf(ms)
    <2>1. LeadsFrom(byInitiative(ms, i)) = {m.path : m \in {m \in ms : m.initiative = i}}
      BY InitiativeLeads
    <2>2. QED  BY <1>6, <2>1 DEF PathsOf
  <1>7. CASE e = renderLLMsTxt(ms) \/ e = renderAgentsMd
    BY <1>3, <1>7, EndLeads
  <1>8. QED  BY <1>4, <1>5, <1>6, <1>7 DEF NavPages

(* No two pages of navigation have one path.                               *)
LEMMA NavPathsDiffer ==
    ASSUME NEW ms \in SUBSET Metas, NEW d \in NavPages(ms), NEW e \in NavPages(ms), d.path = e.path
    PROVE  d = e
  <1> DEFINE front == renderIndex(ms, TagsOf(ms), InitiativesOf(ms))
             llms == renderLLMsTxt(ms)
             Kind(x) == \/ x = front /\ x.path = <<"index">>
                        \/ \E t \in TagsOf(ms) : x = byTag(ms, t) /\ x.path = <<"tags", t[1]>> /\ t = <<t[1]>>
                        \/ \E i \in InitiativesOf(ms) : x = byInitiative(ms, i) /\ x.path = <<"initiatives", i>>
                        \/ x = llms /\ x.path = <<"llms">>
                        \/ x = renderAgentsMd /\ x.path = <<"AGENTS">>
  <1>1. ASSUME NEW x \in NavPages(ms) PROVE Kind(x)
    <2>1. CASE x = front
      BY <2>1 DEF renderIndex
    <2>2. ASSUME NEW t \in TagsOf(ms), x = byTag(ms, t) PROVE Kind(x)
      <3>1. x.path = <<"tags", t[1]>> /\ t = <<t[1]>>
        BY <2>2, TagsFit, TagLeads, TagPath
      <3>2. QED  BY <2>2, <3>1
    <2>3. ASSUME NEW i \in InitiativesOf(ms), x = byInitiative(ms, i) PROVE Kind(x)
      BY <2>3, InitiativeLeads
    <2>4. CASE x = llms
      BY <2>4 DEF renderLLMsTxt
    <2>5. CASE x = renderAgentsMd
      BY <2>5 DEF renderAgentsMd
    <2>6. QED  BY <2>1, <2>2, <2>3, <2>4, <2>5 DEF NavPages
  <1>2. Kind(d) /\ Kind(e)
    BY <1>1
  <1> HIDE DEF front, llms
  <1>3. ASSUME NEW t \in TagsOf(ms), d = byTag(ms, t), d.path = <<"tags", t[1]>>, t = <<t[1]>>
        PROVE  d = e
    <2>1. PICK u \in TagsOf(ms) : e = byTag(ms, u) /\ e.path = <<"tags", u[1]>> /\ u = <<u[1]>>
      BY <1>2, <1>3
    <2>2. t[1] = u[1]
      BY <1>3, <2>1
    <2>3. t = u
      BY <1>3, <2>1, <2>2
    <2>4. QED  BY <1>3, <2>1, <2>3
  <1>4. ASSUME NEW i \in InitiativesOf(ms), d = byInitiative(ms, i), d.path = <<"initiatives", i>>
        PROVE  d = e
    <2>1. PICK j \in InitiativesOf(ms) : e = byInitiative(ms, j) /\ e.path = <<"initiatives", j>>
      BY <1>2, <1>4
    <2>2. i = j
      BY <1>4, <2>1
    <2>3. QED  BY <1>4, <2>1, <2>2
  <1>5. CASE d = front /\ d.path = <<"index">>
    BY <1>2, <1>5
  <1>6. CASE d = llms /\ d.path = <<"llms">>
    BY <1>2, <1>6
  <1>7. CASE d = renderAgentsMd /\ d.path = <<"AGENTS">>
    BY <1>2, <1>7
  <1>8. QED  BY <1>2, <1>3, <1>4, <1>5, <1>6, <1>7

(* The elements of a finite set as a sequence.                             *)
LEMMA SetAsSeq ==
    ASSUME NEW S, IsFiniteSet(S)
    PROVE  SetToSeq(S) \in Seq(S) /\ ToSet(SetToSeq(S)) = S
  <1> DEFINE n == Cardinality(S)
             F == {f \in [1 .. n -> S] : IsInjective(f)}
             s == SetToSeq(S)
  <1>1. n \in Nat /\ ExistsBijection(1 .. n, S)
    BY FS_CardinalityType
  <1>2. PICK b \in Bijection(1 .. n, S) : TRUE
    BY <1>1 DEF ExistsBijection
  <1>3. b \in [1 .. n -> S] /\ IsInjective(b)
    BY <1>2 DEF Bijection, Injection
  <1>4. s \in [1 .. n -> S] /\ IsInjective(s)
    BY <1>3 DEF SetToSeq
  <1>5. s \in Injection(1 .. n, S)
    BY <1>4 DEF Injection
  <1>6. IsFiniteSet(1 .. n) /\ Cardinality(1 .. n) = n
    BY <1>1, FS_Interval
  <1>7. s \in Surjection(1 .. n, S)
    BY <1>5, <1>6, FS_Injection
  <1>8. ToSet(s) = S
    BY <1>4, <1>7 DEF Surjection, ToSet
  <1>9. s \in Seq(S)
    BY <1>1, <1>4
  <1>10. QED  BY <1>8, <1>9

(* What is made of each of finitely many things is finitely many.          *)
LEMMA ImageIsFinite ==
    ASSUME NEW S, IsFiniteSet(S), NEW f, DOMAIN f = S, NEW B, \A b \in B : \E x \in S : b = f[x],
           \A x \in S : f[x] \in B, f = [x \in S |-> f[x]]
    PROVE  IsFiniteSet(B)
  <1>1. f \in [S -> B]
    OBVIOUS
  <1>2. f \in Surjection(S, B)
    BY <1>1 DEF Surjection
  <1>3. QED  BY <1>2, FS_Surjection

(* What three and then four sequences hold between them.                   *)
Holds(s, N, S) == s \in Seq(N) /\ ToSet(s) = S

LEMMA HoldsOfConcat ==
    ASSUME NEW N, NEW s, NEW S, NEW t, NEW T, Holds(s, N, S), Holds(t, N, T)
    PROVE  Holds(s \o t, N, S \cup T)
  <1>1. s \in Seq(N) /\ t \in Seq(N) /\ ToSet(s) = S /\ ToSet(t) = T
    BY DEF Holds
  <1>2. s \o t \in Seq(N) /\ ToSet(s \o t) = ToSet(s) \cup ToSet(t)
    BY <1>1, ElementsOfConcat
  <1>3. QED  BY <1>1, <1>2 DEF Holds

(* What a publish is to write of navigation.                               *)
LEMMA NavigationIs ==
    ASSUME NEW ms \in SUBSET Metas, IsFiniteSet(ms), \A m \in ms : IsFiniteSet(m.tags)
    PROVE  /\ writeNavigation(ms) \in Seq(NavPages(ms))
           /\ ToSet(writeNavigation(ms)) = NavPages(ms)
  <1> DEFINE N == NavPages(ms)
             T == {byTag(ms, t) : t \in TagsOf(ms)}
             I == {byInitiative(ms, i) : i \in InitiativesOf(ms)}
             front == renderIndex(ms, TagsOf(ms), InitiativesOf(ms))
             llms == renderLLMsTxt(ms)
             agents == renderAgentsMd
             a == <<front>>
             b == SetToSeq(T)
             c == SetToSeq(I)
             d == <<llms, agents>>
  <1>1. IsFiniteSet(TagsOf(ms))
    <2> DEFINE tags == {m.tags : m \in ms}
    <2>1. IsFiniteSet(tags)
      <3> DEFINE f == [m \in ms |-> m.tags]
      <3>1. DOMAIN f = ms /\ f = [m \in ms |-> f[m]]
        OBVIOUS
      <3>2. (\A y \in tags : \E m \in ms : y = f[m]) /\ \A m \in ms : f[m] \in tags
        OBVIOUS
      <3> HIDE DEF f, tags
      <3>3. QED  BY <3>1, <3>2, ImageIsFinite
    <2>2. \A S \in tags : IsFiniteSet(S)
      OBVIOUS
    <2> HIDE DEF tags
    <2>3. IsFiniteSet(UNION tags)
      BY <2>1, <2>2, FS_UNION
    <2>4. QED  BY <2>3 DEF tags, TagsOf
  <1>2. IsFiniteSet(InitiativesOf(ms))
    <2> DEFINE named == {m.initiative : m \in ms}
    <2>1. IsFiniteSet(named)
      <3> DEFINE f == [m \in ms |-> m.initiative]
      <3>1. DOMAIN f = ms /\ f = [m \in ms |-> f[m]]
        OBVIOUS
      <3>2. (\A y \in named : \E m \in ms : y = f[m]) /\ \A m \in ms : f[m] \in named
        OBVIOUS
      <3> HIDE DEF f, named
      <3>3. QED  BY <3>1, <3>2, ImageIsFinite
    <2>2. InitiativesOf(ms) \subseteq named
      BY DEF InitiativesOf
    <2> HIDE DEF named
    <2>3. QED  BY <2>1, <2>2, FS_Subset
  <1>3. IsFiniteSet(T)
    <2> DEFINE f == [t \in TagsOf(ms) |-> byTag(ms, t)]
    <2>1. DOMAIN f = TagsOf(ms) /\ f = [t \in TagsOf(ms) |-> f[t]]
      OBVIOUS
    <2>2. (\A y \in T : \E t \in TagsOf(ms) : y = f[t]) /\ \A t \in TagsOf(ms) : f[t] \in T
      OBVIOUS
    <2> HIDE DEF f, T
    <2>3. QED  BY <1>1, <2>1, <2>2, ImageIsFinite
  <1>4. IsFiniteSet(I)
    <2> DEFINE f == [i \in InitiativesOf(ms) |-> byInitiative(ms, i)]
    <2>1. DOMAIN f = InitiativesOf(ms) /\ f = [i \in InitiativesOf(ms) |-> f[i]]
      OBVIOUS
    <2>2. (\A y \in I : \E i \in InitiativesOf(ms) : y = f[i])
          /\ \A i \in InitiativesOf(ms) : f[i] \in I
      OBVIOUS
    <2> HIDE DEF f, I
    <2>3. QED  BY <1>2, <2>1, <2>2, ImageIsFinite
  <1>5. N = {front} \cup T \cup I \cup {llms, agents}
    BY DEF NavPages
  <1>6. writeNavigation(ms) = a \o b \o c \o d
    BY DEF writeNavigation
  <1> HIDE DEF T, I, N, front, llms, agents
  <1>7. T \subseteq N /\ I \subseteq N /\ front \in N /\ llms \in N /\ agents \in N
    BY <1>5
  <1>8. b \in Seq(N) /\ ToSet(b) = T /\ c \in Seq(N) /\ ToSet(c) = I
    <2>1. b \in Seq(T) /\ ToSet(b) = T /\ c \in Seq(I) /\ ToSet(c) = I
      BY <1>3, <1>4, SetAsSeq
    <2>2. QED  BY <1>7, <2>1
  <1>9. a \in Seq(N) /\ ToSet(a) = {front}
    BY <1>7 DEF ToSet
  <1>10. d \in Seq(N) /\ ToSet(d) = {llms, agents}
    <2>1. d \in Seq(N)
      BY <1>7
    <2>2. DOMAIN d = {1, 2} /\ d[1] = llms /\ d[2] = agents
      OBVIOUS
    <2> HIDE DEF d
    <2>3. QED  BY <2>1, <2>2 DEF ToSet
  <1> HIDE DEF a, b, c, d
  <1>11. Holds(a, N, {front}) /\ Holds(b, N, T) /\ Holds(c, N, I) /\ Holds(d, N, {llms, agents})
    BY <1>8, <1>9, <1>10 DEF Holds
  <1>12. Holds(a \o b, N, {front} \cup T)
    BY <1>11, HoldsOfConcat
  <1>13. Holds((a \o b) \o c, N, ({front} \cup T) \cup I)
    BY <1>11, <1>12, HoldsOfConcat
  <1>14. Holds(((a \o b) \o c) \o d, N, (({front} \cup T) \cup I) \cup {llms, agents})
    BY <1>11, <1>13, HoldsOfConcat
  <1>15. Holds(writeNavigation(ms), N, N)
    BY <1>5, <1>6, <1>14
  <1>16. QED  BY <1>15 DEF Holds, N

(* When all navigation is written, every page is reached.                  *)
LEMMA AllReached ==
    ASSUME latest \in SUBSET Metas, \A e \in NavPages(latest) : IsWritten(e, wiki)
    PROVE  PagesAreReached
  <1> DEFINE ms == latest
             front == renderIndex(ms, TagsOf(ms), InitiativesOf(ms))
  <1>1. \A e \in NavPages(ms) : Leads(e.path) = LeadsFrom(e)
    BY DEF IsWritten, Leads, LeadsFrom
  <1>2. front \in NavPages(ms) /\ front.path = <<"index">>
    BY DEF NavPages, renderIndex
  <1>3. renderLLMsTxt(ms) \in NavPages(ms) /\ renderLLMsTxt(ms).path = <<"llms">>
    BY DEF NavPages, renderLLMsTxt
  <1>4. \A t \in TagsOf(ms) : byTag(ms, t) \in NavPages(ms)
    BY DEF NavPages
  <1>5. \A i \in InitiativesOf(ms) : byInitiative(ms, i) \in NavPages(ms)
    BY DEF NavPages
  <1>6. Leads(<<"index">>) = LeadsFrom(front) /\ Leads(<<"llms">>) = LeadsFrom(renderLLMsTxt(ms))
    BY <1>1, <1>2, <1>3
  <1>7. /\ PathsOf(ms) \subseteq Leads(<<"index">>) \cap Leads(<<"llms">>)
        /\ \A t \in TagsOf(ms) : TagPage(t) \in Leads(<<"index">>)
    BY <1>6, IndexLeads, EndLeads
  <1> SUFFICES ASSUME NEW m \in ms
               PROVE  /\ m.path \in Leads(<<"index">>) \cap Leads(<<"llms">>)
                      /\ m.initiative # "" => m.path \in Leads(InitiativePage(m.initiative))
                      /\ \A t \in m.tags :
                           /\ TagPage(t) \in Leads(<<"index">>)
                           /\ Leads(TagPage(t)) = {n.path : n \in {n \in ms : t \in n.tags}}
    BY DEF PagesAreReached
  <1>8. m.path \in Leads(<<"index">>) \cap Leads(<<"llms">>)
    BY <1>7 DEF PathsOf
  <1>9. ASSUME m.initiative # "" PROVE m.path \in Leads(InitiativePage(m.initiative))
    <2> DEFINE i == m.initiative
    <2>1. i \in InitiativesOf(ms)
      BY <1>9, MetaTypes
    <2>2. Leads(byInitiative(ms, i).path) = LeadsFrom(byInitiative(ms, i))
      BY <1>1, <1>5, <2>1
    <2>3. byInitiative(ms, i).path = InitiativePage(i)
          /\ LeadsFrom(byInitiative(ms, i)) = {n.path : n \in {n \in ms : n.initiative = i}}
      BY InitiativeLeads DEF InitiativePage
    <2>4. m.path \in {n.path : n \in {n \in ms : n.initiative = i}}
      OBVIOUS
    <2>5. QED  BY <2>2, <2>3, <2>4
  <1>10. ASSUME NEW t \in m.tags
         PROVE  /\ TagPage(t) \in Leads(<<"index">>)
                /\ Leads(TagPage(t)) = {n.path : n \in {n \in ms : t \in n.tags}}
    <2>1. t \in TagsOf(ms) /\ t \in PageTags
      BY MetaTypes
    <2>2. Leads(byTag(ms, t).path) = LeadsFrom(byTag(ms, t))
      BY <1>1, <1>4, <2>1
    <2>3. byTag(ms, t).path = TagPage(t)
          /\ LeadsFrom(byTag(ms, t)) = {n.path : n \in {n \in ms : t \in n.tags}}
      BY <2>1, TagLeads
    <2>4. QED  BY <1>7, <2>1, <2>2, <2>3
  <1>11. QED  BY <1>8, <1>9, <1>10

LEMMA InvGivesConnected == WikiInv => WikiIsConnected
  <1> SUFFICES ASSUME WikiInv PROVE WikiIsConnected
    OBVIOUS
  <1>1. WikiTypeOK
    BY DEF WikiInv, WikiTypeOK
  <1>2. LinksResolve
    BY DEF WikiInv
  <1>3. PagesAreReached
    <2>1. CASE latest = {}
      BY <2>1 DEF PagesAreReached
    <2>2. CASE latest # {}
      BY <2>2, AllReached DEF WikiInv
    <2>3. QED  BY <2>1, <2>2
  <1>4. QED  BY <1>1, <1>2, <1>3 DEF WikiIsConnected

-----------------------------------------------------------------------------

LEMMA WikiStarts == WikiInit => WikiInv
  <1> SUFFICES ASSUME WikiInit PROVE WikiInv
    OBVIOUS
  <1>1. LinksResolve
    <2>1. DOMAIN wiki = {}
      <3>1. wiki = <<>>
        BY DEF WikiInit
      <3>2. QED  BY <3>1
    <2>2. QED  BY <2>1 DEF LinksResolve
  <1>2. IsFiniteSet({})
    BY FS_EmptySet
  <1>3. QED  BY <1>1, <1>2 DEF WikiInit, WikiInv

LEMMA LinksStay ==
    ASSUME LinksResolve, UNCHANGED <<wiki, nav, owed>>
    PROVE  LinksResolve'
  BY DEF LinksResolve, Leads

LEMMA ChangeFits ==
    ASSUME WikiInv, Changing, DOMAIN knowledge' = WikiTasks, DOMAIN initiative' = WikiTasks,
           \A t \in WikiTasks : /\ knowledge'[t] \subseteq Tags /\ IsFiniteSet(knowledge'[t])
                                /\ initiative'[t] \in Initiatives \cup {""},
           hasFile' \subseteq WikiTasks
    PROVE  WikiInv'
  <1>1. UNCHANGED <<wiki, stage, scan, metas, nav, owed, latest>>
    BY DEF Changing
  <1>2. LinksResolve'
    BY <1>1, LinksStay DEF WikiInv
  <1>3. QED  BY <1>1, <1>2 DEF WikiInv

LEMMA PeopleFit ==
    ASSUME WikiInv, NEW t \in WikiTasks,
           (\E tag \in Tags : AddDecision(t, tag)) \/ ExtractAndSave(t) \/ Reclassify(t) \/ ArchiveTicket(t)
    PROVE  WikiInv'
  <1>1. ASSUME NEW tag \in Tags, AddDecision(t, tag) PROVE WikiInv'
    <2> DEFINE k == LoadKnowledge(t) \cup {tag}
    <2>1. /\ Changing /\ knowledge' = [knowledge EXCEPT ![t] = k] /\ hasFile' = hasFile \cup {t}
          /\ initiative' = initiative
      BY <1>1 DEF AddDecision, SaveKnowledge
    <2>2. LoadKnowledge(t) \subseteq Tags /\ IsFiniteSet(LoadKnowledge(t))
      BY FS_EmptySet DEF LoadKnowledge, WikiInv
    <2>3. k \subseteq Tags /\ IsFiniteSet(k)
      BY <2>2, FS_AddElement
    <2> HIDE DEF k
    <2>4. QED  BY <2>1, <2>3, ChangeFits DEF WikiInv
  <1>2. CASE ExtractAndSave(t)
    <2>1. /\ Changing /\ knowledge' = [knowledge EXCEPT ![t] = {}] /\ hasFile' = hasFile \cup {t}
          /\ initiative' = initiative
      BY <1>2 DEF ExtractAndSave, SaveKnowledge, ExtractFromTask
    <2>2. QED  BY <2>1, FS_EmptySet, ChangeFits DEF WikiInv
  <1>3. CASE Reclassify(t)
    <2>1. PICK i \in Initiatives : initiative' = [initiative EXCEPT ![t] = i]
      BY <1>3 DEF Reclassify
    <2>2. Changing /\ knowledge' = knowledge /\ hasFile' = hasFile
      BY <1>3 DEF Reclassify
    <2>3. QED  BY <2>1, <2>2, ChangeFits DEF WikiInv
  <1>4. CASE ArchiveTicket(t)
    <2>1. Changing /\ knowledge' = knowledge /\ initiative' = initiative /\ hasFile' = hasFile \ {t}
      BY <1>4 DEF ArchiveTicket
    <2>2. QED  BY <2>1, ChangeFits DEF WikiInv
  <1>5. QED  BY <1>1, <1>2, <1>3, <1>4

LEMMA PublishFits ==
    ASSUME WikiInv, PublishAll
    PROVE  WikiInv'
  <1>1. /\ stage = "none" /\ stage' = "pages" /\ scan' = hasFile /\ metas' = {} /\ latest' = {}
        /\ UNCHANGED <<knowledge, hasFile, initiative, wiki, nav, owed>>
    BY DEF PublishAll, ListAllKnowledge
  <1>2. LinksResolve'
    BY <1>1, LinksStay DEF WikiInv
  <1>3. nav' = <<>>
    BY <1>1 DEF WikiInv
  <1>4. QED  BY <1>1, <1>2, <1>3, FS_EmptySet DEF WikiInv

(* The path of a page.                                                     *)
LEMMA PathType ==
    ASSUME WikiInv, NEW t \in WikiTasks
    PROVE  Append(namespaceDir(Classify(t)), t) \in Seq(Names)
  <1> DEFINE c == Classify(t)
             a == IF c[1] = "" THEN <<>> ELSE <<c[1]>>
             b == IF c[2] = "" THEN <<>> ELSE <<c[2]>>
  <1>1. initiative[t] \in Initiatives \cup {""}
    BY DEF WikiInv
  <1>2. c[1] \in Names /\ c[2] \in Names
    BY <1>1 DEF Classify, Names
  <1> HIDE DEF c
  <1>3. a \in Seq(Names) /\ b \in Seq(Names)
    <2>1. <<>> \in Seq(Names) /\ <<c[1]>> \in Seq(Names) /\ <<c[2]>> \in Seq(Names)
      BY <1>2
    <2>2. QED  BY <2>1
  <1>4. namespaceDir(c) = a \o b
    BY DEF namespaceDir
  <1> HIDE DEF a, b
  <1>5. a \o b \in Seq(Names) /\ t \in Names
    BY <1>3, ConcatProperties DEF Names
  <1>6. QED  BY <1>4, <1>5 DEF c

LEMMA PageFits ==
    ASSUME WikiInv, NEW t \in WikiTasks, renderPage(t)
    PROVE  WikiInv'
  <1> DEFINE k == LoadKnowledge(t)
             path == Append(namespaceDir(Classify(t)), t)
             m == [path |-> path, tags |-> pageTags(k), initiative |-> initiative[t]]
  <1>1. /\ stage = "pages" /\ scan' = scan \ {t}
        /\ UNCHANGED <<knowledge, hasFile, initiative, stage, nav, owed, latest>>
        /\ \/ UNCHANGED <<wiki, metas>>
           \/ PutPage(path, {}) /\ metas' = metas \cup {m}
    BY DEF renderPage
  <1>2. latest = {}
    BY <1>1 DEF WikiInv
  <1>3. CASE UNCHANGED <<wiki, metas>>
    <2>1. LinksResolve'
      BY <1>1, <1>3, LinksStay DEF WikiInv
    <2>2. QED  BY <1>1, <1>2, <1>3, <2>1 DEF WikiInv
  <1>4. CASE PutPage(path, {}) /\ metas' = metas \cup {m}
    <2>1. path \in Seq(Names)
      BY PathType
    <2>2. k \subseteq Tags /\ IsFiniteSet(k)
      BY FS_EmptySet DEF LoadKnowledge, WikiInv
    <2>3. pageTags(k) \subseteq PageTags /\ IsFiniteSet(pageTags(k))
      <3>1. pageTags(k) = k \cup {<<"adb">>}
        BY DEF pageTags
      <3>2. QED  BY <2>2, <3>1, FS_AddElement DEF PageTags
    <2>4. initiative[t] \in Initiatives \cup {""}
      BY DEF WikiInv
    <2>5. wiki' = [q \in DOMAIN wiki \cup {path} |-> IF q = path THEN {} ELSE wiki[q]]
      BY <1>4 DEF PutPage
    <2> HIDE DEF k, path
    <2>6. m \in Metas /\ m.path = path /\ m.tags = pageTags(k)
      BY <2>1, <2>3, <2>4 DEF Metas
    <2>7. DOMAIN wiki' = DOMAIN wiki \cup {path}
      BY <2>5
    <2> HIDE DEF m
    <2>8. metas' \subseteq Metas /\ IsFiniteSet(metas')
      BY <1>4, <2>6, FS_AddElement DEF WikiInv
    <2>9. \A n \in metas' : n.path \in DOMAIN wiki' /\ IsFiniteSet(n.tags)
      BY <1>4, <2>3, <2>6, <2>7 DEF WikiInv
    <2>10. LinksResolve'
      <3>1. \A q \in DOMAIN wiki' : q = path \/ (q \in DOMAIN wiki /\ wiki'[q] = wiki[q])
        BY <2>5, <2>7
      <3>2. wiki'[path] = {}
        BY <2>5
      <3>3. LinksResolve
        BY DEF WikiInv
      <3>4. QED  BY <1>1, <2>7, <3>1, <3>2, <3>3 DEF LinksResolve, Leads
    <2>11. QED  BY <1>1, <1>2, <2>8, <2>9, <2>10 DEF WikiInv
  <1>5. QED  BY <1>1, <1>3, <1>4

LEMMA NavigateFits ==
    ASSUME WikiInv, Navigate
    PROVE  WikiInv'
  <1>1. /\ stage = "pages" /\ scan = {}
        /\ UNCHANGED <<knowledge, hasFile, initiative, wiki, scan, metas, owed, latest>>
    BY DEF Navigate
  <1>2. latest = {} /\ nav = <<>>
    BY <1>1 DEF WikiInv
  <1>3. CASE metas = {}
    <2>1. stage' = "none" /\ nav' = nav
      BY <1>3 DEF Navigate
    <2>2. LinksResolve'
      BY <1>1, <2>1, LinksStay DEF WikiInv
    <2>3. QED  BY <1>1, <1>2, <2>1, <2>2 DEF WikiInv
  <1>4. CASE metas # {}
    <2> DEFINE n == writeNavigation(metas)
    <2>1. stage' = "navigation" /\ nav' = n
      BY <1>4 DEF Navigate
    <2>2. n \in Seq(NavPages(metas)) /\ ToSet(n) = NavPages(metas)
      BY NavigationIs DEF WikiInv
    <2> HIDE DEF n
    <2>3. n # <<>>
      <3>1. renderAgentsMd \in ToSet(n)
        BY <2>2 DEF NavPages
      <3>2. QED  BY <3>1 DEF ToSet
    <2>4. NavFits(nav', wiki', metas')
      BY <1>1, <2>1, <2>2, <2>3 DEF NavFits
    <2>5. LinksResolve'
      <3>1. {nav[i].path : i \in DOMAIN nav} = {}
        <4>1. DOMAIN nav = {}
          BY <1>2
        <4>2. QED  BY <4>1
      <3>2. \A p \in DOMAIN wiki : Leads(p) \subseteq DOMAIN wiki \cup owed
        BY <3>1 DEF WikiInv, LinksResolve
      <3>3. \A p \in DOMAIN wiki' : Leads(p)' = Leads(p)
        BY <1>1 DEF Leads
      <3>4. QED  BY <1>1, <3>2, <3>3 DEF LinksResolve
    <2>6. QED  BY <1>1, <1>2, <2>1, <2>4, <2>5 DEF WikiInv
  <1>5. QED  BY <1>3, <1>4

LEMMA WritePageFits ==
    ASSUME WikiInv, WritePage
    PROVE  WikiInv'
  <1> DEFINE h == Head(nav)
             N == NavPages(metas)
  <1>1. /\ stage = "navigation" /\ nav' = Tail(nav) /\ owed' = owed \ {h.path}
        /\ UNCHANGED <<knowledge, hasFile, initiative, scan, metas>>
    BY DEF WritePage
  <1>2. wiki' = [q \in DOMAIN wiki \cup {h.path} |-> IF q = h.path THEN h.links ELSE wiki[q]]
    BY DEF WritePage, PutPage
  <1>3. latest = {}
    BY <1>1 DEF WikiInv
  <1>4. /\ nav \in Seq(N) /\ nav # <<>>
        /\ \A e \in N : e \in ToSet(nav) \/ IsWritten(e, wiki)
    BY <1>1 DEF WikiInv, NavFits
  <1>5. metas \in SUBSET Metas
    BY DEF WikiInv
  <1>6. h \in N /\ Tail(nav) \in Seq(N) /\ ToSet(nav) = {h} \cup ToSet(Tail(nav))
    <2>1. h \in N /\ Tail(nav) \in Seq(N) /\ h = nav[1] /\ 1 \in DOMAIN nav
      BY <1>4
    <2>2. \A i \in DOMAIN nav : i = 1 \/ (i - 1 \in DOMAIN Tail(nav) /\ nav[i] = Tail(nav)[i - 1])
      BY <1>4
    <2>3. \A i \in DOMAIN Tail(nav) : i + 1 \in DOMAIN nav /\ Tail(nav)[i] = nav[i + 1]
      BY <1>4
    <2> DEFINE r == Tail(nav)
    <2> HIDE DEF h, r
    <2>4. ToSet(nav) \subseteq {h} \cup ToSet(r)
      BY <2>1, <2>2 DEF ToSet, r
    <2>5. {h} \cup ToSet(r) \subseteq ToSet(nav)
      BY <2>1, <2>3 DEF ToSet, r
    <2>6. QED  BY <2>1, <2>4, <2>5 DEF r
  <1>7. \A i \in DOMAIN nav : nav[i] \in N
    BY <1>4
  <1> HIDE DEF h
  <1>8. DOMAIN wiki' = DOMAIN wiki \cup {h.path} /\ wiki'[h.path] = h.links
        /\ \A q \in DOMAIN wiki : q # h.path => wiki'[q] = wiki[q]
    BY <1>2
  <1>9. \A e \in N : e \in ToSet(nav') \/ IsWritten(e, wiki')
    <2> SUFFICES ASSUME NEW e \in N, e \notin ToSet(nav') PROVE IsWritten(e, wiki')
      OBVIOUS
    <2>1. CASE e = h
      BY <1>8, <2>1 DEF IsWritten
    <2>2. CASE e # h
      <3>1. IsWritten(e, wiki)
        BY <1>1, <1>4, <1>6, <2>2
      <3>2. e.path # h.path
        BY <1>5, <1>6, <2>2, NavPathsDiffer
      <3>3. QED  BY <1>8, <3>1, <3>2 DEF IsWritten
    <2>3. QED  BY <2>1, <2>2
  <1>10. {nav[i].path : i \in DOMAIN nav} = PathsOf(ToSet(nav))
         /\ {nav'[i].path : i \in DOMAIN nav'} = PathsOf(ToSet(nav'))
    BY DEF PathsOf, ToSet
  <1>11. PathsOf(N) \subseteq DOMAIN wiki' \cup PathsOf(ToSet(nav'))
    BY <1>9 DEF PathsOf, IsWritten
  <1>12. PathsOf(metas) \subseteq DOMAIN wiki'
    BY <1>8 DEF PathsOf, WikiInv
  <1>13. LinksResolve'
    <2> SUFFICES ASSUME NEW q \in DOMAIN wiki'
                 PROVE  {Resolve(q, l) : l \in wiki'[q]} \subseteq
                          DOMAIN wiki' \cup owed' \cup PathsOf(ToSet(nav'))
      BY <1>10 DEF LinksResolve, Leads
    <2>1. CASE q = h.path
      <3>1. {Resolve(q, l) : l \in wiki'[q]} = LeadsFrom(h)
        BY <1>8, <2>1 DEF LeadsFrom
      <3>2. LeadsFrom(h) \subseteq PathsOf(metas) \cup PathsOf(N)
        BY <1>5, <1>6, NavLeads
      <3>3. QED  BY <1>11, <1>12, <3>1, <3>2
    <2>2. CASE q # h.path
      <3>1. q \in DOMAIN wiki /\ wiki'[q] = wiki[q]
        BY <1>8, <2>2
      <3>2. {Resolve(q, l) : l \in wiki[q]} \subseteq DOMAIN wiki \cup owed \cup PathsOf(ToSet(nav))
        BY <1>10, <3>1 DEF WikiInv, LinksResolve, Leads
      <3>3. PathsOf(ToSet(nav)) \subseteq {h.path} \cup PathsOf(ToSet(nav'))
        BY <1>1, <1>6 DEF PathsOf
      <3>4. QED  BY <1>1, <1>8, <3>1, <3>2, <3>3
    <2>3. QED  BY <2>1, <2>2
  <1>14. \A m \in metas : m.path \in DOMAIN wiki'
    BY <1>8 DEF WikiInv
  <1>15. CASE nav' = <<>>
    <2>1. stage' = "none" /\ latest' = metas
      BY <1>1, <1>15 DEF WritePage
    <2>2. ToSet(nav') = {}
      BY <1>15 DEF ToSet
    <2>3. \A e \in NavPages(latest') : IsWritten(e, wiki')
      BY <1>9, <2>1, <2>2
    <2>4. QED  BY <1>1, <1>5, <1>13, <1>14, <1>15, <2>1, <2>3 DEF WikiInv
  <1>16. CASE nav' # <<>>
    <2>1. stage' = stage /\ latest' = latest
      BY <1>1, <1>16 DEF WritePage
    <2>2. NavFits(nav', wiki', metas')
      BY <1>1, <1>6, <1>9, <1>16 DEF NavFits
    <2>3. QED  BY <1>1, <1>3, <1>13, <1>14, <2>1, <2>2 DEF WikiInv
  <1>17. QED  BY <1>15, <1>16

LEMMA PublishDeathFits ==
    ASSUME WikiInv, PublishDies
    PROVE  WikiInv'
  <1>1. /\ stage # "none" /\ stage' = "none" /\ scan' = {} /\ nav' = <<>>
        /\ owed' = owed \cup {nav[i].path : i \in DOMAIN nav}
        /\ UNCHANGED <<knowledge, hasFile, initiative, wiki, metas, latest>>
    BY DEF PublishDies
  <1>2. latest = {}
    BY <1>1 DEF WikiInv
  <1>3. LinksResolve'
    BY <1>1 DEF WikiInv, LinksResolve, Leads
  <1>4. QED  BY <1>1, <1>2, <1>3 DEF WikiInv

LEMMA WikiIsInvariant == WikiSpec => []WikiInv
  <1>1. ASSUME WikiInv, WikiNext PROVE WikiInv'
    BY <1>1, PeopleFit, PageFits, PublishFits, NavigateFits, WritePageFits, PublishDeathFits
       DEF WikiNext
  <1>2. ASSUME WikiInv, UNCHANGED wikiVars PROVE WikiInv'
    <2>1. /\ UNCHANGED <<knowledge, hasFile, initiative>>
          /\ UNCHANGED <<wiki, stage, scan, metas, nav, owed, latest>>
      BY <1>2 DEF wikiVars
    <2>2. LinksResolve'
      BY <1>2, <2>1, LinksStay DEF WikiInv
    <2>3. QED  BY <1>2, <2>1, <2>2 DEF WikiInv
  <1>3. QED  BY <1>1, <1>2, WikiStarts, PTL DEF WikiSpec

(* No reader of the wiki meets a dead end, and none of its pages is hidden, *)
(* for any tasks, tags without a slash, changes, publishes and deaths.      *)
THEOREM WikiStaysConnected == WikiSpec => []WikiIsConnected
  BY WikiIsInvariant, InvGivesConnected, PTL

-----------------------------------------------------------------------------

(***************************************************************************)
(* Context files: a rich CLAUDE.md tells what changed since the last one,  *)
(* and the notes of agents stay.                                           *)
(***************************************************************************)

(* The invariant.  A rich sync makes its sections in their order, and has
   all of them by the time it writes.                                      *)
RichSteps == {"sections", "write", "save"}
ContextSteps == {"idle", "append"} \cup RichSteps
FirstNames(k) == {SectionNames[i] : i \in 1 .. k}
AllNames == FirstNames(10)

MadeInOrder(p) ==
    /\ stepOf[p] = "sections" => \E k \in 0 .. 9 : DOMAIN sections[p] = FirstNames(k)
    /\ stepOf[p] \in {"write", "save"} => DOMAIN sections[p] = AllNames
    /\ stepOf[p] \notin RichSteps => sections[p] = <<>>

Progress ==
    /\ stepOf \in [Syncs -> ContextSteps] /\ DOMAIN sections = Syncs /\ DOMAIN prev = Syncs
    /\ \A p \in Syncs : MadeInOrder(p)
    /\ rich = <<>> \/ DOMAIN rich = AllNames

(* A sync that no other overlapped is the only one, and where there is
   another, the state may not be of the last rich CLAUDE.md.               *)
OneAlone ==
    /\ alone \subseteq Syncs /\ unsaved \in BOOLEAN
    /\ \A p \in alone : stepOf[p] \in RichSteps =>
         \A q \in Syncs : stepOf[q] \in RichSteps => q = p
    /\ \A q \in Syncs : stepOf[q] \in RichSteps /\ q \notin alone => unsaved

(* What it loaded are the hashes of the last rich CLAUDE.md, and what it
   saves are those of its own.                                             *)
HashesFit ==
    /\ \A p \in alone : stepOf[p] \in {"sections", "write"} /\ ~unsaved => prev[p] = rich
    /\ \A p \in alone : stepOf[p] = "save" => sections[p] = rich
    /\ ~unsaved /\ (\A p \in Syncs : stepOf[p] # "save") => state = rich

ContextInv == Progress /\ OneAlone /\ HashesFit

-----------------------------------------------------------------------------

LEMMA FirstCounted ==
    ASSUME NEW k \in 0 .. 9
    PROVE  Cardinality(FirstNames(k)) = k
  <1> DEFINE f == [i \in 1 .. k |-> SectionNames[i]]
  <1>1. f \in Surjection(1 .. k, FirstNames(k))
    BY DEF Surjection, FirstNames
  <1>2. f \in Injection(1 .. k, FirstNames(k))
    <2>1. \A i, j \in 1 .. 10 : SectionNames[i] = SectionNames[j] => i = j
      BY DEF SectionNames
    <2>2. f \in [1 .. k -> FirstNames(k)]
      BY DEF FirstNames
    <2>3. \A i, j \in 1 .. k : f[i] = f[j] => i = j
      BY <2>1
    <2> HIDE DEF f
    <2>4. QED  BY <2>2, <2>3 DEF Injection, IsInjective
  <1> HIDE DEF f
  <1>3. f \in Bijection(1 .. k, FirstNames(k))
    BY <1>1, <1>2 DEF Bijection
  <1>4. QED  BY <1>3, FS_CountingElements DEF ExistsBijection

LEMMA LastName == SectionNames[10] = Last(SectionNames) /\
                  \A i \in 1 .. 9 : SectionNames[i] # Last(SectionNames)
  <1>1. Last(SectionNames) = SectionNames[10]
    BY DEF Last, SectionNames
  <1>2. QED  BY <1>1 DEF SectionNames

LEMMA ContextStarts == ContextInit => ContextInv
  <1> SUFFICES ASSUME ContextInit PROVE ContextInv
    OBVIOUS
  <1>1. /\ stepOf = [p \in Syncs |-> "idle"] /\ sections = [p \in Syncs |-> <<>>]
        /\ prev = [p \in Syncs |-> <<>>] /\ rich = <<>> /\ alone = {} /\ unsaved = FALSE
        /\ state = <<>>
    BY DEF ContextInit, NoState
  <1>2. Progress
    BY <1>1 DEF Progress, MadeInOrder, ContextSteps, RichSteps
  <1>3. OneAlone
    BY <1>1 DEF OneAlone, RichSteps
  <1>4. HashesFit
    BY <1>1 DEF HashesFit
  <1>5. QED  BY <1>2, <1>3, <1>4 DEF ContextInv

LEMMA ContextStays ==
    ASSUME ContextInv, UNCHANGED <<state, stepOf, sections, prev, rich, alone, unsaved>>
    PROVE  ContextInv'
  BY DEF ContextInv, Progress, MadeInOrder, OneAlone, HashesFit

(* A command that is no rich sync.                                         *)
LEMMA TaskContextFits ==
    ASSUME ContextInv, NEW p \in Syncs, NEW to \in {"idle", "append"},
           stepOf[p] \in {"idle", "append"}, stepOf' = [stepOf EXCEPT ![p] = to],
           DOMAIN sections' = Syncs, sections'[p] = <<>>, DOMAIN prev' = Syncs,
           \A q \in Syncs : q # p => sections'[q] = sections[q] /\ prev'[q] = prev[q],
           UNCHANGED <<state, rich, alone, unsaved>>
    PROVE  ContextInv'
  <1>1. /\ stepOf' \in [Syncs -> ContextSteps] /\ stepOf'[p] = to
        /\ \A q \in Syncs : q # p => stepOf'[q] = stepOf[q]
    BY DEF ContextInv, Progress, ContextSteps
  <1>2. stepOf[p] \notin RichSteps /\ stepOf'[p] \notin RichSteps
    BY <1>1 DEF RichSteps
  <1>3. Progress'
    <2>1. ASSUME NEW q \in Syncs PROVE MadeInOrder(q)'
      BY <1>1, <1>2 DEF ContextInv, Progress, MadeInOrder, RichSteps
    <2>2. QED  BY <1>1, <2>1 DEF ContextInv, Progress
  <1>4. OneAlone'
    BY <1>1, <1>2 DEF ContextInv, OneAlone
  <1>5. HashesFit'
    BY <1>1, <1>2 DEF ContextInv, OneAlone, HashesFit, RichSteps
  <1>6. QED  BY <1>3, <1>4, <1>5 DEF ContextInv

LEMMA LoadFits ==
    ASSUME ContextInv, NEW p \in Syncs, loadContextState(p)
    PROVE  ContextInv'
  <1>1. /\ stepOf[p] = "idle" /\ stepOf' = [stepOf EXCEPT ![p] = "sections"]
        /\ prev' = [prev EXCEPT ![p] = state] /\ UNCHANGED <<state, sections, rich>>
        /\ alone' = (IF Running = {} THEN {p} ELSE {})
        /\ unsaved' = (unsaved \/ Running # {})
    BY DEF loadContextState, Free, SetStep, files
  <1>2. /\ stepOf' \in [Syncs -> ContextSteps] /\ stepOf'[p] = "sections"
        /\ \A q \in Syncs : q # p => stepOf'[q] = stepOf[q]
        /\ DOMAIN prev' = Syncs /\ prev'[p] = state
    BY <1>1 DEF ContextInv, Progress, ContextSteps, RichSteps
  <1>3. Progress'
    <2>1. sections[p] = <<>>
      BY <1>1 DEF ContextInv, Progress, MadeInOrder, RichSteps
    <2>2. DOMAIN sections'[p] = FirstNames(0)
      <3>1. DOMAIN sections'[p] = {}
        BY <1>1, <2>1
      <3>2. QED  BY <3>1 DEF FirstNames
    <2>3. MadeInOrder(p)'
      BY <1>2, <2>2 DEF MadeInOrder, RichSteps
    <2>4. ASSUME NEW q \in Syncs, q # p PROVE MadeInOrder(q)'
      BY <1>1, <1>2, <2>4 DEF ContextInv, Progress, MadeInOrder
    <2>5. QED  BY <1>1, <1>2, <2>3, <2>4 DEF ContextInv, Progress
  <1>4. CASE Running = {}
    <2>1. alone' = {p} /\ unsaved' = unsaved /\ unsaved \in BOOLEAN
      BY <1>1, <1>4 DEF ContextInv, OneAlone
    <2>2. \A q \in Syncs : stepOf[q] \notin RichSteps
      BY <1>4 DEF Running, RichSteps
    <2>3. OneAlone'
      BY <1>2, <2>1, <2>2 DEF OneAlone
    <2>4. ~unsaved => state = rich
      BY <2>2 DEF ContextInv, HashesFit, RichSteps
    <2>5. HashesFit'
      BY <1>1, <1>2, <2>1, <2>4 DEF HashesFit
    <2>6. QED  BY <1>3, <2>3, <2>5 DEF ContextInv
  <1>5. CASE Running # {}
    <2>1. alone' = {} /\ unsaved' = TRUE
      BY <1>1, <1>5 DEF ContextInv, OneAlone
    <2>2. QED  BY <1>3, <2>1 DEF ContextInv, OneAlone, HashesFit
  <1>6. QED  BY <1>4, <1>5

LEMMA SectionFits ==
    ASSUME ContextInv, NEW p \in Syncs, GenerateSection(p)
    PROVE  ContextInv'
  <1> DEFINE n == Cardinality(DOMAIN sections[p]) + 1
             name == SectionNames[n]
             to == IF name = Last(SectionNames) THEN "write" ELSE "sections"
  <1>1. /\ stepOf[p] = "sections" /\ stepOf' = [stepOf EXCEPT ![p] = to]
        /\ sections' = [sections EXCEPT ![p] = WithSection(@, name)]
        /\ UNCHANGED <<state, prev, rich, alone, unsaved>>
    BY DEF GenerateSection, SetStep, files
  <1>2. PICK k \in 0 .. 9 : DOMAIN sections[p] = FirstNames(k)
    BY <1>1 DEF ContextInv, Progress, MadeInOrder
  <1>3. n = k + 1
    BY <1>2, FirstCounted
  <1>4. DOMAIN sections'[p] = FirstNames(k + 1)
    <2>1. DOMAIN sections'[p] = DOMAIN sections[p] \cup {name}
      BY <1>1 DEF ContextInv, Progress, WithSection
    <2> HIDE DEF name, n
    <2>2. DOMAIN sections'[p] = FirstNames(k) \cup {SectionNames[k + 1]}
      BY <1>2, <1>3, <2>1 DEF name
    <2>3. \A i \in 1 .. k + 1 : i \in 1 .. k \/ i = k + 1
      OBVIOUS
    <2>4. QED  BY <2>2, <2>3 DEF FirstNames
  <1>5. to \in {"write", "sections"} /\ (to = "sections" => k < 9) /\ (to = "write" => k = 9)
    <2>1. name = SectionNames[k + 1]
      BY <1>3
    <2> HIDE DEF name
    <2>2. QED  BY <2>1, LastName
  <1> HIDE DEF to, name, n
  <1>6. /\ stepOf' \in [Syncs -> ContextSteps] /\ stepOf'[p] = to
        /\ \A q \in Syncs : q # p => stepOf'[q] = stepOf[q] /\ sections'[q] = sections[q]
        /\ DOMAIN sections' = Syncs
    BY <1>1, <1>5 DEF ContextInv, Progress, ContextSteps, RichSteps
  <1>7. MadeInOrder(p)'
    <2>1. CASE to = "sections"
      <3>1. k + 1 \in 0 .. 9
        BY <1>5, <2>1
      <3>2. QED  BY <1>4, <1>6, <2>1, <3>1 DEF MadeInOrder, RichSteps
    <2>2. CASE to = "write"
      BY <1>4, <1>5, <1>6, <2>2 DEF MadeInOrder, RichSteps, AllNames
    <2>3. QED  BY <1>5, <2>1, <2>2
  <1>8. Progress'
    <2>1. ASSUME NEW q \in Syncs, q # p PROVE MadeInOrder(q)'
      BY <1>6, <2>1 DEF ContextInv, Progress, MadeInOrder
    <2>2. QED  BY <1>1, <1>6, <1>7, <2>1 DEF ContextInv, Progress
  <1>9. \A q \in Syncs : stepOf'[q] \in RichSteps <=> stepOf[q] \in RichSteps
    BY <1>1, <1>5, <1>6 DEF RichSteps
  <1>10. OneAlone'
    BY <1>1, <1>9 DEF ContextInv, OneAlone
  <1>11. HashesFit'
    BY <1>1, <1>5, <1>6 DEF ContextInv, OneAlone, HashesFit
  <1>12. QED  BY <1>8, <1>10, <1>11 DEF ContextInv

LEMMA GenerateFits ==
    ASSUME ContextInv, NEW p \in Syncs, Generate(p)
    PROVE  ContextInv'
  <1>1. /\ stepOf[p] = "write" /\ stepOf' = [stepOf EXCEPT ![p] = "save"] /\ rich' = sections[p]
        /\ UNCHANGED <<state, sections, prev, alone, unsaved>>
    BY DEF Generate, SetStep
  <1>2. /\ stepOf' \in [Syncs -> ContextSteps] /\ stepOf'[p] = "save"
        /\ \A q \in Syncs : q # p => stepOf'[q] = stepOf[q]
    BY <1>1 DEF ContextInv, Progress, ContextSteps, RichSteps
  <1>3. DOMAIN sections[p] = AllNames
    BY <1>1 DEF ContextInv, Progress, MadeInOrder
  <1>4. Progress'
    <2>1. ASSUME NEW q \in Syncs PROVE MadeInOrder(q)'
      BY <1>1, <1>2, <1>3 DEF ContextInv, Progress, MadeInOrder, RichSteps
    <2>2. QED  BY <1>1, <1>2, <1>3, <2>1 DEF ContextInv, Progress
  <1>5. \A q \in Syncs : stepOf'[q] \in RichSteps <=> stepOf[q] \in RichSteps
    BY <1>1, <1>2 DEF RichSteps
  <1>6. OneAlone'
    BY <1>1, <1>5 DEF ContextInv, OneAlone
  <1>7. HashesFit'
    <2>1. \A q \in alone : q # p => stepOf[q] \notin RichSteps
      BY <1>1 DEF ContextInv, OneAlone, RichSteps
    <2>2. alone \subseteq Syncs
      BY DEF ContextInv, OneAlone
    <2>3. QED  BY <1>1, <1>2, <2>1, <2>2 DEF HashesFit, RichSteps
  <1>8. QED  BY <1>4, <1>6, <1>7 DEF ContextInv

(* A rich sync ends, having saved its hashes or not.                       *)
LEMMA EndFits ==
    ASSUME ContextInv, NEW p \in Syncs, stepOf[p] \in RichSteps, Finish(p), UNCHANGED <<rich, alone>>,
           unsaved' \in BOOLEAN,
           unsaved => unsaved' \/ p \in alone,
           ~unsaved' => state' = rich
    PROVE  ContextInv'
  <1>1. /\ stepOf' = [stepOf EXCEPT ![p] = "idle"] /\ sections' = [sections EXCEPT ![p] = <<>>]
        /\ prev' = [prev EXCEPT ![p] = <<>>]
    BY DEF Finish, SetStep
  <1>2. /\ stepOf' \in [Syncs -> ContextSteps] /\ stepOf'[p] = "idle" /\ sections'[p] = <<>>
        /\ DOMAIN sections' = Syncs /\ DOMAIN prev' = Syncs
        /\ \A q \in Syncs : q # p =>
             stepOf'[q] = stepOf[q] /\ sections'[q] = sections[q] /\ prev'[q] = prev[q]
    BY <1>1 DEF ContextInv, Progress, ContextSteps, RichSteps
  <1>3. Progress'
    <2>1. ASSUME NEW q \in Syncs PROVE MadeInOrder(q)'
      BY <1>2 DEF ContextInv, Progress, MadeInOrder, RichSteps
    <2>2. QED  BY <1>2, <2>1 DEF ContextInv, Progress
  <1>4. OneAlone'
    <2>1. ASSUME NEW q \in Syncs, q # p, stepOf[q] \in RichSteps, q \notin alone PROVE unsaved'
      BY <2>1 DEF ContextInv, OneAlone
    <2>2. stepOf'[p] \notin RichSteps
      BY <1>2 DEF RichSteps
    <2>3. QED  BY <1>2, <2>1, <2>2 DEF ContextInv, OneAlone
  <1>5. \A q \in alone : q # p => stepOf[q] \notin RichSteps
    BY DEF ContextInv, OneAlone
  <1>6. HashesFit'
    <2>1. ASSUME NEW q \in alone PROVE stepOf'[q] \notin RichSteps
      BY <1>2, <1>5 DEF ContextInv, OneAlone, RichSteps
    <2>2. QED  BY <2>1 DEF HashesFit, RichSteps
  <1>7. QED  BY <1>3, <1>4, <1>6 DEF ContextInv

LEMMA SaveFits ==
    ASSUME ContextInv, NEW p \in Syncs, saveContextState(p)
    PROVE  ContextInv'
  <1>1. /\ stepOf[p] = "save" /\ state' = sections[p] /\ Finish(p)
        /\ unsaved' = (unsaved /\ p \notin alone) /\ UNCHANGED <<rich, alone>>
    BY DEF saveContextState
  <1>2. stepOf[p] \in RichSteps
    BY <1>1 DEF RichSteps
  <1>3. unsaved' \in BOOLEAN /\ (unsaved => unsaved' \/ p \in alone)
    BY <1>1 DEF ContextInv, OneAlone
  <1>4. ASSUME ~unsaved' PROVE state' = rich
    <2>1. p \in alone
      BY <1>1, <1>2, <1>4 DEF ContextInv, OneAlone
    <2>2. QED  BY <1>1, <2>1 DEF ContextInv, HashesFit
  <1>5. QED  BY <1>1, <1>2, <1>3, <1>4, EndFits

LEMMA SyncDeathFits ==
    ASSUME ContextInv, NEW p \in Syncs, SyncDies(p)
    PROVE  ContextInv'
  <1>1. /\ stepOf[p] # "idle" /\ Finish(p) /\ UNCHANGED <<rich, alone>>
        /\ state' \in {state, IF stepOf[p] = "save" THEN NoState ELSE state}
        /\ unsaved' = (unsaved \/ stepOf[p] \in {"write", "save"})
    BY DEF SyncDies
  <1>2. stepOf[p] \in ContextSteps /\ unsaved \in BOOLEAN
    BY DEF ContextInv, Progress, OneAlone
  <1>3. CASE stepOf[p] = "append"
    <2>1. /\ stepOf' = [stepOf EXCEPT ![p] = "idle"] /\ sections' = [sections EXCEPT ![p] = <<>>]
          /\ prev' = [prev EXCEPT ![p] = <<>>]
      BY <1>1 DEF Finish, SetStep
    <2>2. state' = state /\ unsaved' = unsaved
      BY <1>1, <1>2, <1>3
    <2>3. /\ DOMAIN sections' = Syncs /\ sections'[p] = <<>> /\ DOMAIN prev' = Syncs
          /\ \A q \in Syncs : q # p => sections'[q] = sections[q] /\ prev'[q] = prev[q]
      BY <2>1 DEF ContextInv, Progress
    <2>4. QED  BY <1>1, <1>3, <2>1, <2>2, <2>3, TaskContextFits
  <1>4. CASE stepOf[p] \in RichSteps
    <2>1. unsaved' \in BOOLEAN /\ (unsaved => unsaved')
      BY <1>1, <1>2
    <2>2. ASSUME ~unsaved' PROVE state' = rich
      <3>1. ~unsaved /\ stepOf[p] = "sections" /\ state' = state
        BY <1>1, <1>2, <1>4, <2>2 DEF RichSteps
      <3>2. p \in alone
        BY <1>4, <3>1 DEF ContextInv, OneAlone
      <3>3. \A q \in Syncs : stepOf[q] # "save"
        BY <1>4, <3>1, <3>2 DEF ContextInv, OneAlone, RichSteps
      <3>4. QED  BY <3>1, <3>3 DEF ContextInv, HashesFit
    <2>3. QED  BY <1>1, <1>4, <2>1, <2>2, EndFits
  <1>5. QED  BY <1>1, <1>2, <1>3, <1>4 DEF ContextSteps

LEMMA AppendEndFits ==
    ASSUME ContextInv, NEW p \in Syncs, AppendTimestamp(p) \/ RenderTaskContext(p)
    PROVE  ContextInv'
  <1>1. /\ stepOf[p] = "append" /\ Finish(p) /\ UNCHANGED <<state, rich, alone, unsaved>>
    BY DEF AppendTimestamp, RenderTaskContext
  <1>2. /\ stepOf' = [stepOf EXCEPT ![p] = "idle"] /\ sections' = [sections EXCEPT ![p] = <<>>]
        /\ prev' = [prev EXCEPT ![p] = <<>>]
    BY <1>1 DEF Finish, SetStep
  <1>3. /\ DOMAIN sections' = Syncs /\ sections'[p] = <<>> /\ DOMAIN prev' = Syncs
        /\ \A q \in Syncs : q # p => sections'[q] = sections[q] /\ prev'[q] = prev[q]
    BY <1>2 DEF ContextInv, Progress
  <1>4. QED  BY <1>1, <1>2, <1>3, TaskContextFits

LEMMA AppendBeginFits ==
    ASSUME ContextInv, NEW p \in Syncs, GenerateTaskContext(p)
    PROVE  ContextInv'
  <1>1. /\ stepOf[p] = "idle" /\ stepOf' = [stepOf EXCEPT ![p] = "append"]
        /\ prev' = [prev EXCEPT ![p] = <<notes>>]
        /\ UNCHANGED <<sections, state, rich, alone, unsaved>>
    BY DEF GenerateTaskContext, Free, SetStep, files
  <1>2. /\ DOMAIN sections' = Syncs /\ sections'[p] = <<>> /\ DOMAIN prev' = Syncs
        /\ \A q \in Syncs : q # p => sections'[q] = sections[q] /\ prev'[q] = prev[q]
    BY <1>1 DEF ContextInv, Progress, MadeInOrder, RichSteps
  <1>3. QED  BY <1>1, <1>2, TaskContextFits

LEMMA ContextStepFits == ContextInv /\ [ContextNext]_contextVars => ContextInv'
  <1> SUFFICES ASSUME ContextInv, [ContextNext]_contextVars PROVE ContextInv'
    OBVIOUS
  <1>1. CASE Edit
    <2>1. UNCHANGED <<state, stepOf, sections, prev, rich, alone, unsaved>>
      BY <1>1 DEF Edit
    <2>2. QED  BY <2>1, ContextStays
  <1>2. ASSUME NEW p \in Syncs, NEW makes, Plain(p, makes) PROVE ContextInv'
    <2>1. UNCHANGED <<state, stepOf, sections, prev, rich, alone, unsaved>>
      BY <1>2 DEF Plain
    <2>2. QED  BY <2>1, ContextStays
  <1>3. ASSUME NEW p \in Syncs, InitClaude(p) PROVE ContextInv'
    <2>1. UNCHANGED <<state, stepOf, sections, prev, rich, alone, unsaved>>
      BY <1>3 DEF InitClaude
    <2>2. QED  BY <2>1, ContextStays
  <1>4. CASE UNCHANGED contextVars
    <2>1. UNCHANGED <<state, stepOf, sections, prev, rich, alone, unsaved>>
      BY <1>4 DEF contextVars
    <2>2. QED  BY <2>1, ContextStays
  <1>5. QED
    BY <1>1, <1>2, <1>3, <1>4, LoadFits, SectionFits, GenerateFits, SaveFits, SyncDeathFits,
       AppendBeginFits, AppendEndFits
    DEF ContextNext, GenerateContext, GenerateClaudeUserContext, GenerateAll

-----------------------------------------------------------------------------

(* Only the step that writes CLAUDE.md goes on to save.                    *)
LEMMA OnlyGenerate ==
    ASSUME ContextInv, [ContextNext]_contextVars, NEW p \in Syncs,
           stepOf[p] = "write", stepOf'[p] = "save"
    PROVE  Generate(p)
  <1>1. stepOf \in [Syncs -> ContextSteps]
    BY DEF ContextInv, Progress
  <1>2. \A q \in Syncs : \A to : SetStep(q, to) => stepOf'[q] = to /\ (q # p => stepOf'[p] = stepOf[p])
    BY <1>1 DEF SetStep
  <1>3. stepOf' # stepOf
    OBVIOUS
  <1>4. ~Edit /\ ~UNCHANGED contextVars
    BY <1>3 DEF Edit, contextVars
  <1>5. ASSUME NEW q \in Syncs
        PROVE  /\ ~loadContextState(q) /\ ~saveContextState(q) /\ ~GenerateTaskContext(q)
               /\ ~AppendTimestamp(q) /\ ~RenderTaskContext(q) /\ ~SyncDies(q)
    BY <1>2 DEF loadContextState, saveContextState, GenerateTaskContext, AppendTimestamp,
                RenderTaskContext, SyncDies, Finish
  <1>6. ASSUME NEW q \in Syncs
        PROVE  ~GenerateContext(q) /\ ~GenerateClaudeUserContext(q) /\ ~GenerateAll(q)
               /\ ~InitClaude(q)
    BY <1>3 DEF GenerateContext, GenerateClaudeUserContext, GenerateAll, Plain, InitClaude
  <1>7. ASSUME NEW q \in Syncs PROVE ~GenerateSection(q)
    <2> SUFFICES ASSUME GenerateSection(q) PROVE FALSE
      OBVIOUS
    <2>1. stepOf[q] = "sections" /\ \E to \in {"write", "sections"} : SetStep(q, to)
      BY DEF GenerateSection
    <2>2. QED  BY <1>2, <2>1
  <1>8. ASSUME NEW q \in Syncs, q # p PROVE ~Generate(q)
    BY <1>2, <1>8 DEF Generate
  <1>9. QED  BY <1>4, <1>5, <1>6, <1>7, <1>8 DEF ContextNext

LEMMA ChangesAreThose == ContextInv /\ [ContextNext]_contextVars => ReportsChanges
  <1> SUFFICES ASSUME ContextInv, [ContextNext]_contextVars, NEW p \in alone,
                      stepOf[p] = "write", stepOf'[p] = "save", ~unsaved
               PROVE  LET now == claude'.sections
                      IN claude'.changed =
                           {s \in DOMAIN now : rich = <<>> \/ rich[s] # now[s]}
    BY DEF ReportsChanges
  <1> DEFINE now == sections[p]
  <1>1. p \in Syncs
    BY DEF ContextInv, OneAlone
  <1>2. claude' = [made |-> "rich", sections |-> now,
                   changed |-> generateWhatsChanged(prev[p], now)]
    BY <1>1, OnlyGenerate DEF Generate, assembleCLAUDEmd
  <1>3. prev[p] = rich
    BY DEF ContextInv, HashesFit
  <1>4. DOMAIN now = AllNames /\ (rich = <<>> \/ DOMAIN rich = AllNames)
    BY <1>1 DEF ContextInv, Progress, MadeInOrder
  <1>5. claude'.sections = now
        /\ claude'.changed = {s \in DOMAIN now : s \notin DOMAIN rich \/ rich[s] # now[s]}
    BY <1>2, <1>3 DEF generateWhatsChanged
  <1> HIDE DEF now
  <1>6. CASE rich = <<>>
    <2>1. DOMAIN rich = {}
      BY <1>6
    <2>2. QED  BY <1>5, <1>6, <2>1
  <1>7. CASE rich # <<>>
    BY <1>4, <1>5, <1>7
  <1>8. QED  BY <1>6, <1>7

LEMMA NotesAreKept == ContextInv /\ [ContextNext]_contextVars => KeepsNotes
  <1> SUFFICES ASSUME ContextInv, [ContextNext]_contextVars, NEW n \in notes, n \notin notes'
               PROVE  \E p \in Syncs : stepOf[p] = "append" /\ stepOf'[p] = "idle"
                                        /\ (notes' = {} \/ n \notin prev[p][1])
    BY DEF KeepsNotes
  <1>1. stepOf \in [Syncs -> ContextSteps]
    BY DEF ContextInv, Progress
  <1>2. ~Edit /\ ~UNCHANGED contextVars
    BY DEF Edit, contextVars
  <1>3. notes' # notes
    OBVIOUS
  <1>4. ASSUME NEW q \in Syncs
        PROVE  /\ ~loadContextState(q) /\ ~GenerateSection(q) /\ ~Generate(q)
               /\ ~saveContextState(q) /\ ~GenerateContext(q) /\ ~GenerateClaudeUserContext(q)
               /\ ~GenerateAll(q) /\ ~InitClaude(q) /\ ~GenerateTaskContext(q) /\ ~SyncDies(q)
    BY <1>3 DEF loadContextState, GenerateSection, Generate, saveContextState, GenerateContext,
                GenerateClaudeUserContext, GenerateAll, Plain, InitClaude, GenerateTaskContext,
                SyncDies, files
  <1>5. PICK p \in Syncs : AppendTimestamp(p) \/ RenderTaskContext(p)
    BY <1>2, <1>4 DEF ContextNext
  <1>6. /\ stepOf[p] = "append" /\ stepOf' = [stepOf EXCEPT ![p] = "idle"]
        /\ notes' = prev[p][1] \/ notes' = {}
    BY <1>5 DEF AppendTimestamp, RenderTaskContext, Finish, SetStep
  <1>7. stepOf'[p] = "idle"
    BY <1>1, <1>6
  <1>8. QED  BY <1>6, <1>7

(* CLAUDE.md tells what changed since the last rich one, and the notes of
   agents are kept, whatever overlaps and dies.                            *)
THEOREM ChangesAreReported == ContextSpec => ChangesReported
  <1>1. ContextInv /\ [ContextNext]_contextVars =>
          [ReportsChanges /\ KeepsNotes /\ StateIsLast']_contextVars
    <2>1. ContextInv' => StateIsLast'
      BY DEF ContextInv, HashesFit, StateIsLast, Running
    <2>2. QED  BY <2>1, ContextStepFits, ChangesAreThose, NotesAreKept
  <1>2. QED  BY <1>1, ContextStarts, ContextStepFits, PTL DEF ContextSpec, ChangesReported
=============================================================================
