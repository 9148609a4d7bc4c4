------------------------------ MODULE Registry ------------------------------
(***************************************************************************)
(* What a YAML registry of the workspace promises its callers: every call  *)
(* of storage/backlog.go takes effect at one instant between its start and *)
(* its return, or fails and changes nothing.  The same promise is made by  *)
(* the other registries that pair acquireRegistryLock with atomicWriteFile.*)
(* FileRegistry is the code; it is shown to implement this module.         *)
(***************************************************************************)

CONSTANTS Clients,  \* the threads that call the registry
          Ids,      \* task ids
          Records,  \* task records
          Absent,   \* an id without a record
          Kinds,    \* the calls made: add, update, remove, get, load, save
          Migrated  \* what a bulk migration makes of a record

VARIABLES table,    \* the contents of the registry
          call,     \* what each client is asking for
          outcome,  \* the answer to that call, "none" until it took effect
          loaded    \* the table a client's last Load returned, as {} or {table}

rvars == <<table, call, outcome, loaded>>

Tables == [Ids -> Records \cup {Absent}]
Empty == [i \in Ids |-> Absent]

Idle == [kind |-> "idle"]

Calls == [kind : {"add", "update"}, id : Ids, rec : Records]
    \cup [kind : {"remove", "get"}, id : Ids]
    \cup [kind : {"load"}]
    \cup [kind : {"save"}, all : Tables]

Answers == {"none", "ok", "exists", "missing", "failed"} \cup Records

(* A bulk command (task migrate-types, normalize, migrate-blocked-by) loads *)
(* the backlog, rewrites it in memory and saves all of it, when it has      *)
(* something to change.                                                     *)
Rewrite(tbl) == [i \in Ids |-> IF tbl[i] = Absent THEN Absent ELSE Migrated[tbl[i]]]

Requests(c) ==
    {o \in [kind : {"add", "update"}, id : Ids, rec : Records]
           \cup [kind : {"remove", "get"}, id : Ids]
           \cup [kind : {"load"}]
           \cup [kind : {"save"}, all : {Rewrite(tbl) : tbl \in loaded[c]} \ loaded[c]]
       : o.kind \in Kinds}

(* Why a call is refused without a write; "ok" when it is not.              *)
Verdict(o, tbl) ==
    CASE o.kind = "add" /\ tbl[o.id] # Absent                -> "exists"
      [] o.kind \in {"update", "remove"} /\ tbl[o.id] = Absent -> "missing"
      [] OTHER                                                 -> "ok"

(* The table a writing call leaves behind.                                  *)
Effect(o, tbl) ==
    CASE o.kind \in {"add", "update"} -> [tbl EXCEPT ![o.id] = o.rec]
      [] o.kind = "remove"            -> [tbl EXCEPT ![o.id] = Absent]
      [] o.kind = "save"              -> o.all
      [] OTHER                        -> tbl

(* What a reading call answers.                                             *)
Reading(o, tbl) ==
    IF o.kind = "load" THEN "ok"
    ELSE IF tbl[o.id] = Absent THEN "missing" ELSE tbl[o.id]

IsRead(o) == o.kind \in {"get", "load"}

Init ==
    /\ table = Empty
    /\ call = [c \in Clients |-> Idle]
    /\ outcome = [c \in Clients |-> "none"]
    /\ loaded = [c \in Clients |-> {}]

Invoke(c) ==
    /\ call[c] = Idle
    /\ \E o \in Requests(c) : call' = [call EXCEPT ![c] = o]
    /\ loaded' = [loaded EXCEPT ![c] = {}]
    /\ UNCHANGED <<table, outcome>>

Pending(c) == call[c] # Idle /\ outcome[c] = "none"

Write(c) ==
    /\ Pending(c) /\ ~IsRead(call[c])
    /\ outcome' = [outcome EXCEPT ![c] = Verdict(call[c], table)]
    /\ table' = IF Verdict(call[c], table) = "ok" THEN Effect(call[c], table) ELSE table
    /\ UNCHANGED <<call, loaded>>

Read(c) ==
    /\ Pending(c) /\ IsRead(call[c])
    /\ outcome' = [outcome EXCEPT ![c] = Reading(call[c], table)]
    /\ loaded' = [loaded EXCEPT ![c] = IF call[c].kind = "load" THEN {table} ELSE {}]
    /\ UNCHANGED <<table, call>>

Fail(c) ==
    /\ Pending(c)
    /\ outcome' = [outcome EXCEPT ![c] = "failed"]
    /\ UNCHANGED <<table, call, loaded>>

Return(c) ==
    /\ outcome[c] # "none"
    /\ call' = [call EXCEPT ![c] = Idle]
    /\ outcome' = [outcome EXCEPT ![c] = "none"]
    /\ UNCHANGED <<table, loaded>>

(* A process dies with every call of its threads: each one either took     *)
(* effect already or never will.                                           *)
Die(S) ==
    /\ call' = [c \in Clients |-> IF c \in S THEN Idle ELSE call[c]]
    /\ outcome' = [c \in Clients |-> IF c \in S THEN "none" ELSE outcome[c]]
    /\ loaded' = [c \in Clients |-> IF c \in S THEN {} ELSE loaded[c]]
    /\ UNCHANGED table

Next ==
    \/ \E c \in Clients : Invoke(c) \/ Write(c) \/ Read(c) \/ Fail(c) \/ Return(c)
    \/ \E S \in SUBSET Clients : Die(S)

Spec == Init /\ [][Next]_rvars

=============================================================================
