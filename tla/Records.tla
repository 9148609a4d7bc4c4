------------------------------- MODULE Records ------------------------------
(***************************************************************************)
(* The registries of architecture decisions, technical debt, deals and     *)
(* automation rules: storage/adrstore.go, debtstore.go, crmstore.go and    *)
(* rulestore.go under core/adr.go, debt.go, crm.go and cli/schedule.go.    *)
(* Each is a file that is replaced whole by a rename.  Decisions change    *)
(* under a lock between processes, the others under a mutex that other     *)
(* processes do not see.                                                   *)
(*                                                                         *)
(* A behaviour is of one registry.  A command is a process of a few steps; *)
(* commands overlap and die at any step, which frees the lock.  A record   *)
(* holds the command that made it and the one that gave it its status.     *)
(***************************************************************************)
EXTENDS Naturals, Sequences, FiniteSets, FiniteSetsExt

CONSTANTS Registries,   \* those of "adr", "debt", "crm" and "rules"
          Clerks,       \* the processes
          RuleNames,    \* names of rules, numbers here
          MaxCommands, MaxClerkDeaths   \* bounds: commands, and those that die

ASSUME RecordsAssumption ==
    /\ Registries \subseteq {"adr", "debt", "crm", "rules"}
    /\ IsFiniteSet(Clerks) /\ "free" \notin Clerks /\ MaxCommands \in Nat

VARIABLES registry,   \* the registry of this behaviour
          records,    \* the records in its file
          bodies,     \* decisions whose text is in docs/adr: number and command
          lock,       \* the process that holds the lock, or "free"
          clerk,      \* the command of each process
          commands, clerkDeaths,
          booked,     \* history: the records as the commands that succeeded left them
          overlapped  \* history: a command stored while another was between its load and its store

recordVars == <<registry, records, bodies, lock, clerk, commands, clerkDeaths, booked, overlapped>>

-----------------------------------------------------------------------------

Record(i, m, s) == [id |-> i, made |-> m, status |-> s]
NoRecord == Record(0, 0, 0)
RecordIds(R) == {r.id : r \in R}
Of(R, i) == {r \in R : r.id = i}

NextNumber(R) == 1 + Max(RecordIds(R) \cup {0})
NextID(R) == NextNumber(R)

AtRest == [op |-> "none", todo |-> <<>>, read |-> {}, record |-> NoRecord, by |-> 0]
At(p) == IF clerk[p].todo = <<>> THEN "none" ELSE Head(clerk[p].todo)

\* Mutant: the record of a decision is stored before its text is written.
StepsOfStoreFirst(op) ==
    CASE registry = "adr" /\ op = "add" -> <<"lock", "load", "store", "body">>
      [] registry \in {"debt", "crm"} /\ op = "add" -> <<"draw", "load", "store">>
      [] op = "set" -> <<"get", "load", "store">>
      [] OTHER -> <<"load", "store">>

\* The steps of each command.  Only a decision takes the lock, and its text
\* is written before the record.
StepsOf(op) ==
    CASE registry = "adr" /\ op = "add" -> <<"lock", "load", "body", "store">>
      [] registry = "adr" /\ op = "set" -> <<"get", "lock", "load", "store">>
      [] registry \in {"debt", "crm"} /\ op = "add" -> <<"draw", "load", "store">>
      [] registry \in {"debt", "crm"} /\ op = "set" -> <<"get", "load", "store">>
      [] OTHER -> <<"load", "store">>

Operations == IF registry = "rules" THEN {"add", "remove"} ELSE {"add", "set"}

\* What a command makes of the records it has loaded.  An Add checks for the
\* id in what it loads, and so does a rule's add; CreateNext draws the number.
AddTo(R, r) == R \cup {r}
UpdateIn(R, r) == (R \ Of(R, r.id)) \cup {r}
RemoveFrom(R, r) == R \ Of(R, r.id)

Refused(op, R, i) == IF op = "add" THEN i \in RecordIds(R) ELSE i \notin RecordIds(R)

-----------------------------------------------------------------------------

Numbers == IF registry = "rules" THEN RuleNames ELSE 1 .. MaxCommands

RecordsTypeOK ==
    /\ registry \in Registries /\ RecordIds(records) \subseteq Numbers
    /\ \A p \in Clerks : At(p) = "none" <=> clerk[p] = AtRest
    /\ lock # "free" => registry = "adr" /\ At(lock) \in {"load", "body", "store"}

RecordsInit ==
    /\ registry \in Registries /\ records = {} /\ bodies = {} /\ lock = "free"
    /\ clerk = [p \in Clerks |-> AtRest] /\ commands = 0 /\ clerkDeaths = 0
    /\ booked = {} /\ overlapped = FALSE

\* adr new, adr set-status; debt add, debt resolve; crm add, crm stage;
\* schedule add, schedule remove.
Issue(p, op, i) ==
    /\ At(p) = "none" /\ op \in Operations /\ commands < MaxCommands /\ commands' = commands + 1
    /\ clerk' = [clerk EXCEPT ![p] =
                   [op |-> op, todo |-> StepsOf(op), read |-> {},
                    record |-> Record(i, commands + 1, commands + 1), by |-> commands + 1]]
    /\ UNCHANGED <<registry, records, bodies, lock, clerkDeaths, booked, overlapped>>

\* Rules have names; the number of a new record is drawn later.
IssueAny(p) ==
    \E op \in Operations :
      \E i \in IF registry = "rules" THEN RuleNames
               ELSE IF op = "add" THEN {0} ELSE RecordIds(records) : Issue(p, op, i)

NextStep(p) == [clerk[p] EXCEPT !.todo = Tail(@)]

\* SetStatus, SetStage and Resolve read the record without the lock; an item
\* that is resolved is left so.
Get(p) ==
    LET c == clerk[p]
        found == Of(records, c.record.id)
        r == CHOOSE r \in found : TRUE
    IN /\ At(p) = "get"
       /\ clerk' = [clerk EXCEPT ![p] =
            IF found = {} \/ (registry = "debt" /\ r.status # r.made) THEN AtRest
            ELSE [NextStep(p) EXCEPT !.record = [r EXCEPT !.status = c.by]]]
       /\ UNCHANGED <<registry, records, bodies, lock, commands, clerkDeaths, booked, overlapped>>

Draw(p) ==
    /\ At(p) = "draw"
    /\ clerk' = [clerk EXCEPT ![p] = [NextStep(p) EXCEPT !.record.id = NextID(records)]]
    /\ UNCHANGED <<registry, records, bodies, lock, commands, clerkDeaths, booked, overlapped>>

acquireRegistryLock(p) ==
    /\ At(p) = "lock" /\ lock = "free" /\ lock' = p
    /\ clerk' = [clerk EXCEPT ![p] = NextStep(p)]
    /\ UNCHANGED <<registry, records, bodies, commands, clerkDeaths, booked, overlapped>>

Release(p) == IF lock = p THEN "free" ELSE lock

Load(p) ==
    LET c == clerk[p]
        i == IF registry = "adr" /\ c.op = "add" THEN NextNumber(records) ELSE c.record.id
    IN /\ At(p) = "load"
       /\ IF Refused(c.op, records, i)
          THEN clerk' = [clerk EXCEPT ![p] = AtRest] /\ lock' = Release(p)
          ELSE /\ clerk' = [clerk EXCEPT ![p] =
                    [NextStep(p) EXCEPT !.record.id = i, !.read = records]]
               /\ UNCHANGED lock
       /\ UNCHANGED <<registry, records, bodies, commands, clerkDeaths, booked, overlapped>>

WriteBody(p) ==
    /\ At(p) = "body" /\ bodies' = bodies \cup {<<clerk[p].record.id, clerk[p].by>>}
    /\ clerk' = [clerk EXCEPT ![p] = NextStep(p)]
    /\ UNCHANGED <<registry, records, lock, commands, clerkDeaths, booked, overlapped>>

Changed(op, R, r) ==
    CASE op = "add" -> AddTo(R, r)
      [] op = "set" -> UpdateIn(R, r)
      [] OTHER -> RemoveFrom(R, r)

\* The file is replaced, and the command has succeeded.
writeYAML(p) ==
    LET c == clerk[p]
    IN /\ At(p) = "store" /\ records' = Changed(c.op, c.read, c.record)
       /\ clerk' = [clerk EXCEPT ![p] = AtRest] /\ lock' = Release(p)
       /\ booked' = Changed(c.op, booked, c.record)
       /\ overlapped' = (overlapped \/ \E q \in Clerks \ {p} : At(q) = "store")
       /\ UNCHANGED <<registry, bodies, commands, clerkDeaths>>

ClerkDies(p) ==
    /\ At(p) # "none" /\ clerkDeaths < MaxClerkDeaths /\ clerkDeaths' = clerkDeaths + 1
    /\ clerk' = [clerk EXCEPT ![p] = AtRest] /\ lock' = Release(p)
    /\ UNCHANGED <<registry, records, bodies, commands, booked, overlapped>>

RecordsNext ==
    \E p \in Clerks :
      \/ IssueAny(p) \/ Get(p) \/ Draw(p) \/ acquireRegistryLock(p) \/ Load(p)
      \/ WriteBody(p) \/ writeYAML(p) \/ ClerkDies(p)

RecordsSpec == RecordsInit /\ [][RecordsNext]_recordVars

-----------------------------------------------------------------------------

(* No two records of a registry have one number, id or name, however the
   commands overlap and although the number is drawn before it is used. *)
IdsUnique == \A r, s \in records : r.id = s.id => r = s

(* What a command reported is in the registry until another command changes
   it: for decisions whatever overlaps or dies, for the others as long as no
   command stores between the load and the store of another. *)
RecordsKept == registry = "adr" \/ ~overlapped => records = booked

(* A decision in the registry has the text that was written for it. *)
DecisionsHaveText == registry = "adr" => \A r \in records : <<r.id, r.made>> \in bodies

(* The registries hold what commands reported, under numbers of its own. *)
RegistryIsHonest == RecordsTypeOK /\ IdsUnique /\ RecordsKept /\ DecisionsHaveText
=============================================================================
