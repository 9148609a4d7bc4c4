------------------------------- MODULE TaskIds -------------------------------
(***************************************************************************)
(* The task-id counter (core/taskid.go): processes lock the counter file   *)
(* itself, read it, truncate it, write the next number and unlock.  An     *)
(* empty file reads as 0.  The write is in place: a process that dies, or  *)
(* whose write fails, between Truncate and WriteString leaves the file     *)
(* empty.                                                                  *)
(*                                                                         *)
(* Goroutines of one process also take a mutex first.  Every call opens a  *)
(* descriptor of its own, so flock alone already keeps them apart, and a   *)
(* caller here is a call rather than a process.                            *)
(***************************************************************************)
EXTENDS Naturals, Sequences

CONSTANTS Callers,
          None,
          TornWrites,   \* whether a call may stop between Truncate and WriteString
          MaxId         \* bound: no call starts once this id was generated

ASSUME TaskIdsAssumption ==
    /\ None \notin Callers
    /\ TornWrites \in BOOLEAN
    /\ MaxId \in Nat

VARIABLES counter,  \* what the file reads as
          flock,    \* the call that holds the lock on the counter file
          pc, val,
          issued,   \* history: the ids handed out, in order of return
          floor     \* history: ids were handed out up to here when a call started

vars == <<counter, flock, pc, val, issued, floor>>

Locked == {"read", "truncate", "write", "unlock", "giveup"}

Ids == {issued[k] : k \in DOMAIN issued}

TypeOK ==
    /\ counter \in Nat
    /\ flock \in Callers \cup {None}
    /\ pc \in [Callers -> {"idle", "lock", "return"} \cup Locked]
    /\ val \in [Callers -> Nat]
    /\ issued \in Seq(Nat)
    /\ floor \in [Callers -> SUBSET Nat]

Init ==
    /\ counter = 0
    /\ flock = None
    /\ pc = [c \in Callers |-> "idle"]
    /\ val = [c \in Callers |-> 0]
    /\ issued = <<>>
    /\ floor = [c \in Callers |-> {}]

Goto(c, from, to) == pc[c] = from /\ pc' = [pc EXCEPT ![c] = to]

(* The call is over and its variables are gone.                            *)
Forget(c) ==
    /\ val' = [val EXCEPT ![c] = 0]
    /\ floor' = [floor EXCEPT ![c] = {}]

(* GenerateTaskID opens the file, creating it empty when it is missing.    *)
Open(c) ==
    /\ counter < MaxId /\ \A d \in Callers : val[d] < MaxId
    /\ Goto(c, "idle", "lock")
    /\ floor' = [floor EXCEPT ![c] = Ids]
    /\ UNCHANGED <<counter, flock, val, issued>>

\* Mutant: the open descriptor is not locked against others.
LockShared(c) ==
    /\ Goto(c, "lock", "read")
    /\ flock' = c
    /\ UNCHANGED <<counter, val, issued, floor>>

Lock(c) ==
    /\ flock = None
    /\ Goto(c, "lock", "read")
    /\ flock' = c
    /\ UNCHANGED <<counter, val, issued, floor>>

\* Mutant: the number read is handed out as it is.
ReadCounterAsIs(c) ==
    /\ Goto(c, "read", "truncate")
    /\ val' = [val EXCEPT ![c] = counter]
    /\ UNCHANGED <<counter, flock, issued, floor>>

ReadCounter(c) ==
    /\ Goto(c, "read", "truncate")
    /\ val' = [val EXCEPT ![c] = counter + 1]
    /\ UNCHANGED <<counter, flock, issued, floor>>

Truncate(c) ==
    /\ Goto(c, "truncate", "write")
    /\ counter' = 0
    /\ UNCHANGED <<flock, val, issued, floor>>

WriteCounter(c) ==
    /\ Goto(c, "write", "unlock")
    /\ counter' = val[c]
    /\ UNCHANGED <<flock, val, issued, floor>>

(* Sync reports an error after the number reached the file: the call       *)
(* returns no id and the number is skipped.                                *)
SyncFails(c) ==
    /\ Goto(c, "write", "giveup")
    /\ counter' = val[c]
    /\ UNCHANGED <<flock, val, issued, floor>>

(* Reading or truncating fails and the file is as it was; or writing fails *)
(* and it is empty.                                                        *)
FileFails(c) ==
    /\ \/ \E from \in {"read", "truncate"} : Goto(c, from, "giveup")
       \/ TornWrites /\ Goto(c, "write", "giveup")
    /\ UNCHANGED <<counter, flock, val, issued, floor>>

Unlock(c) ==
    /\ Goto(c, "unlock", "return")
    /\ flock' = None
    /\ UNCHANGED <<counter, val, issued, floor>>

(* The call returns an error.                                              *)
GiveUp(c) ==
    /\ Goto(c, "giveup", "idle")
    /\ flock' = None
    /\ Forget(c)
    /\ UNCHANGED <<counter, issued>>

Return(c) ==
    /\ Goto(c, "return", "idle")
    /\ issued' = Append(issued, val[c])
    /\ Forget(c)
    /\ UNCHANGED <<counter, flock>>

(* The process dies; its descriptor closes and the lock with it.           *)
Crash(c) ==
    /\ pc[c] # "idle"
    /\ pc[c] = "write" => TornWrites
    /\ pc' = [pc EXCEPT ![c] = "idle"]
    /\ flock' = IF flock = c THEN None ELSE flock
    /\ Forget(c)
    /\ UNCHANGED <<counter, issued>>

Next == \E c \in Callers :
    \/ Open(c) \/ Lock(c) \/ ReadCounter(c) \/ Truncate(c) \/ WriteCounter(c)
    \/ SyncFails(c) \/ FileFails(c) \/ Unlock(c) \/ GiveUp(c)
    \/ Return(c) \/ Crash(c)

Spec == Init /\ [][Next]_vars

-----------------------------------------------------------------------------

(* No id is ever handed out twice: the "(globally unique) task id" that    *)
(* Create relies on to tell two branches apart (taskmanager.go:425).       *)
UniqueIds == \A j, k \in DOMAIN issued : issued[j] = issued[k] => j = k

(* A call that starts after others returned gets a larger id than all of   *)
(* theirs: ids are sequential in the order a user sees them.               *)
LaterIsLarger ==
    \A c \in Callers : pc[c] \in {"unlock", "return"} => \A n \in floor[c] : n < val[c]

=============================================================================
