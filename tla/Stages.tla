------------------------------- MODULE Stages -------------------------------
(***************************************************************************)
(* Organizations, initiatives and their stage gates (core/stagemanager.go, *)
(* core/stagegate.go, storage/stagestore.go, storage/metricstore.go).      *)
(* Each process runs one command.  A change of a registry of initiatives   *)
(* or organizations holds that registry's file lock from its load to its   *)
(* rename and is one step here (FileRegistry shows that it may be); the    *)
(* read that decides about the change is a step of its own, before it.     *)
(* The metric registry has no file lock: its load and its write are two    *)
(* steps.  A gate's evidence is read in one step.                          *)
(***************************************************************************)
EXTENDS Naturals, Sequences, FiniteSets, SequencesExt

CONSTANTS Procs, Orgs, Ids,
          Links,        \* targets of the graph edges that are added
          Watched,      \* the evidence items that change; the others are met
          Commands,     \* the commands that run
          Faults,       \* which of "index", "log" and "crash" may fail
          MaxCommands   \* bound: commands started

ASSUME StagesAssumption == MaxCommands \in Nat

VARIABLES orgs,      \* the ids in orgs/index.yaml
          index,     \* the records in initiatives/index.yaml
          metrics,   \* metrics/index.yaml: the value kept for each metric
          files,     \* the artifacts and verdicts in the evidence directories
          logs,      \* the events in the dev and the governance log
          pc, job,   \* each process's step and command
          mem,       \* the initiative or the metric index it read
          gate,      \* the gate it evaluated
          todo,      \* the events it has to log
          started,   \* how many commands were started
          decided,   \* history: the advances that were stored
          unlogged,  \* history: the events that a failure kept out of a log
          recorded,  \* history: the last value recorded for each metric
          clashed    \* history: metrics undone by a write of an older index

stores == <<orgs, index, metrics, files, logs>>
own == <<pc, job, mem, gate, todo, started>>
history == <<decided, unlogged, recorded, clashed>>
vars == <<stores, own, history>>

-----------------------------------------------------------------------------
(* The evidence bundles.                                                   *)

Stages == <<"Idea", "MVP", "Launch", "Scale">>

stageGates ==
  [s \in {"Idea", "MVP", "Launch"} |->
     CASE s = "Idea"   -> [from |-> s, to |-> "MVP", humanOnly |-> FALSE,
                           artifacts |-> {"problem-statement", "target-customer"},
                           metrics |-> {}, judgment |-> "problem-validation"]
       [] s = "MVP"    -> [from |-> s, to |-> "Launch", humanOnly |-> FALSE,
                           artifacts |-> {}, metrics |-> {"sean-ellis", "retention"},
                           judgment |-> "launch-readiness"]
       [] s = "Launch" -> [from |-> s, to |-> "Scale", humanOnly |-> TRUE,
                           artifacts |-> {}, metrics |-> {"nrr", "growth"},
                           judgment |-> "scale-readiness"]]

AllBundles == {stageGates[s] : s \in DOMAIN stageGates}
Artifacts == UNION {b.artifacts : b \in AllBundles}
Metrics == UNION {b.metrics : b \in AllBundles}
Judgments == {b.judgment : b \in AllBundles}

NoGate == [from |-> "none"]

(* A metric's value is told apart by the gate's threshold.                 *)
Values == {"none", "below", "reached"}

(* A file that is empty, missing or a directory does not count.            *)
artifactSatisfied(i, a) == files[i][a] = "filled"

(* A metric that is not recorded, or below its threshold, blocks.          *)
metricStatus(i, m) == IF metrics[<<i, m>>] = "reached" THEN "met" ELSE "missing"

(* The verdict file's first line that says pass or fail.                   *)
Verdict(i, q) == IF files[i][q] \in {"pass", "fail"} THEN files[i][q] ELSE "unavailable"

(* No verdict is "pending", and blocks no gate.                            *)
judgmentStatus(i, q) ==
    CASE Verdict(i, q) = "pass" -> "met"
      [] Verdict(i, q) = "fail" -> "failed"
      [] OTHER                  -> "pending"

evaluateGate(i, b) ==
    [from |-> b.from, to |-> b.to, overridden |-> FALSE,
     passed |-> /\ \A a \in b.artifacts : artifactSatisfied(i, a)
                /\ \A m \in b.metrics : metricStatus(i, m) = "met"
                /\ judgmentStatus(i, b.judgment) # "failed"]

-----------------------------------------------------------------------------
(* The commands.                                                           *)

Opts == {o \in [override : BOOLEAN, reason : BOOLEAN, automated : BOOLEAN] :
            o.reason => o.override}
NoOpts == [override |-> FALSE, reason |-> FALSE, automated |-> FALSE]

Request(c, ids, args, opts) == [cmd : {c}, id : ids, arg : args, opts : opts]
None == {"none"}

orgCreate == Request("org", Orgs, None, {NoOpts})
initiativeCreate == Request("create", Ids, Orgs, {NoOpts})
initiativeSetStage == Request("set", Ids, ToSet(Stages) \cup {"Seed"}, {NoOpts})
initiativeGate == Request("gate", Ids, None, {NoOpts})
scaffoldEvidence == Request("scaffold", Ids, None, {NoOpts})
stageAdvance == Request("advance", Ids, None, Opts)
addLink == Request("link", Ids, Links, {NoOpts})
pmfRecord == Request("metric", Ids, (Metrics \cap Watched) \X {"below", "reached"}, {NoOpts})

Requests ==
    {j \in orgCreate \cup initiativeCreate \cup initiativeSetStage \cup initiativeGate
          \cup scaffoldEvidence \cup stageAdvance \cup addLink \cup pmfRecord :
        j.cmd \in Commands}

NoJob == [cmd |-> "none"]

IdeaRecord(i, o) ==
    [id |-> i, org |-> o, stage |-> "Idea", gate |-> NoGate, links |-> {}, hand |-> "Idea"]

Find(i) == {k \in DOMAIN index : index[k].id = i}
At(x, step) == pc[x] = step

TypeOK ==
    /\ orgs \subseteq Orgs
    /\ \A k \in DOMAIN index : /\ index[k].id \in Ids /\ index[k].org \in Orgs
                               /\ index[k].stage \in ToSet(Stages)
                               /\ index[k].links \subseteq Links
    /\ metrics \in [Ids \X Metrics -> Values]
    /\ \A x \in Procs : todo[x] # <<>> <=> At(x, "emit")
    /\ \A x \in Procs : At(x, "idle") <=> job[x] = NoJob

(* An empty workspace, or one whose initiative was put to a stage by hand. *)
Init ==
    /\ \/ orgs = {} /\ index = <<>>
       \/ \E i \in Ids : \E o \in Orgs : \E s \in ToSet(Stages) :
            /\ orgs = {o}
            /\ index = <<[IdeaRecord(i, o) EXCEPT !.stage = s, !.hand = s]>>
    /\ metrics = [k \in Ids \X Metrics |-> IF k[2] \in Watched THEN "none" ELSE "reached"]
    /\ files = [i \in Ids |-> [a \in Artifacts \cup Judgments |->
                   IF a \in Artifacts \ Watched THEN "filled" ELSE "absent"]]
    /\ logs = {} /\ started = 0
    /\ pc = [x \in Procs |-> "idle"] /\ job = [x \in Procs |-> NoJob]
    /\ mem = [x \in Procs |-> <<>>] /\ gate = [x \in Procs |-> NoGate]
    /\ todo = [x \in Procs |-> <<>>]
    /\ decided = <<>> /\ unlogged = {} /\ recorded = metrics /\ clashed = {}

-----------------------------------------------------------------------------

Goto(x, step) ==
    /\ pc' = [pc EXCEPT ![x] = step]
    /\ UNCHANGED <<job, started>>

Stop(x) ==
    /\ pc' = [pc EXCEPT ![x] = "idle"]
    /\ job' = [job EXCEPT ![x] = NoJob]
    /\ mem' = [mem EXCEPT ![x] = <<>>]
    /\ gate' = [gate EXCEPT ![x] = NoGate]
    /\ todo' = [todo EXCEPT ![x] = <<>>]
    /\ UNCHANGED started

Begin(x) ==
    /\ At(x, "idle") /\ started < MaxCommands
    /\ \E j \in Requests :
         /\ job' = [job EXCEPT ![x] = j]
         /\ pc' = [pc EXCEPT ![x] = CASE j.cmd = "org"    -> "addorg"
                                      [] j.cmd = "create" -> "findorg"
                                      [] j.cmd = "metric" -> "load"
                                      [] OTHER            -> "read"]
    /\ started' = started + 1
    /\ UNCHANGED <<stores, mem, gate, todo, history>>

(* FileStageStore.CreateOrganization: an id that is there is refused.      *)
WithOrg(o) == orgs \cup {o}

CreateOrganization(x) ==
    /\ At(x, "addorg")
    /\ orgs' = WithOrg(job[x].id)
    /\ Stop(x)
    /\ UNCHANGED <<index, metrics, files, logs, history>>

(* CreateInitiative looks for the organization before it takes the lock.   *)
FindOrg(x) ==
    /\ At(x, "findorg")
    /\ IF job[x].arg \in orgs THEN Goto(x, "insert") /\ UNCHANGED <<mem, gate, todo>>
       ELSE Stop(x)
    /\ UNCHANGED <<stores, history>>

(* FileStageStore.CreateInitiative.                                        *)
Insert(x) ==
    /\ At(x, "insert")
    /\ index' = IF Find(job[x].id) # {} THEN index
                ELSE Append(index, IdeaRecord(job[x].id, job[x].arg))
    /\ Stop(x)
    /\ UNCHANGED <<orgs, metrics, files, logs, history>>

\* Mutant: an automation may take a human-only gate.
RefusedPlain(opts, stage) ==
    \/ opts.override /\ ~opts.reason
    \/ opts.automated /\ opts.override
    \/ stage \notin DOMAIN stageGates

(* What AdvanceStage refuses before it looks at the evidence.              *)
Refused(opts, stage) ==
    \/ opts.override /\ ~opts.reason
    \/ opts.automated /\ opts.override
    \/ stage \notin DOMAIN stageGates
    \/ opts.automated /\ stageGates[stage].humanOnly

IsValid(s) == s \in ToSet(Stages)

(* The conditions on which a command ends once it has read its initiative. *)
EndsAtRead(j, init) ==
    CASE j.cmd = "set"     -> ~IsValid(j.arg)
      [] j.cmd = "advance" -> Refused(j.opts, init.stage)
      [] j.cmd = "link"    -> j.arg \in init.links
      [] j.cmd = "gate"    -> init.stage \notin DOMAIN stageGates
      [] OTHER             -> FALSE

(* FileStageStore.GetInitiative, without the lock.                         *)
GetInitiative(x) ==
    /\ At(x, "read")
    /\ \/ /\ Find(job[x].id) = {}
          /\ Stop(x)
       \/ \E k \in Find(job[x].id) :
            IF EndsAtRead(job[x], index[k]) THEN Stop(x)
            ELSE /\ mem' = [mem EXCEPT ![x] = index[k]]
                 /\ Goto(x, CASE job[x].cmd \in {"advance", "gate"} -> "evaluate"
                              [] job[x].cmd = "scaffold"          -> "scaffold"
                              [] OTHER                            -> "store")
                 /\ UNCHANGED <<gate, todo>>
    /\ UNCHANGED <<stores, history>>

(* ScaffoldValidationTemplates writes what is absent and keeps the rest; a *)
(* worksheet nobody filled in satisfies the file check.                    *)
Scaffold(x) ==
    /\ At(x, "scaffold")
    /\ files' = [files EXCEPT ![job[x].id] =
                   [a \in DOMAIN @ |-> IF a \in Artifacts THEN "filled" ELSE @[a]]]
    /\ Stop(x)
    /\ UNCHANGED <<orgs, index, metrics, logs, history>>

(* A blocked gate ends the command; `adb initiative gate` only shows it.   *)
Evaluate(x) ==
    LET g == evaluateGate(mem[x].id, stageGates[mem[x].stage])
    IN  /\ At(x, "evaluate")
        /\ IF job[x].cmd = "gate" \/ (~g.passed /\ ~job[x].opts.override)
           THEN Stop(x)
           ELSE /\ gate' = [gate EXCEPT ![x] = [g EXCEPT !.overridden = ~g.passed]]
                /\ Goto(x, "store")
                /\ UNCHANGED <<mem, todo>>
        /\ UNCHANGED <<stores, history>>

(* The record a command stores: all it read, with its change.              *)
SetTo(init, s) == [init EXCEPT !.stage = s, !.hand = s]
Linked(init, l) == [init EXCEPT !.links = @ \cup {l}]
Advanced(init, g, n) == [init EXCEPT !.stage = g.to, !.gate = [g |-> g, evaluated |-> n]]

Changed(x, init, n) ==
    CASE job[x].cmd = "set"  -> SetTo(init, job[x].arg)
      [] job[x].cmd = "link" -> Linked(init, job[x].arg)
      [] OTHER               -> Advanced(init, gate[x], n)

\* Mutant: an advance leaves the gate that is stored by now.
UpdatedPart(x, k, n) ==
    [index EXCEPT ![k] = [Changed(x, mem[x], n) EXCEPT !.gate = index[k].gate]]

(* FileStageStore.UpdateInitiative replaces the record.                    *)
Updated(x, k, n) == [index EXCEPT ![k] = Changed(x, mem[x], n)]

\* Mutant: the governance log gets no override.
EventsPart(n, overridden) ==
    <<[log |-> "dev", kind |-> "stage.advanced", n |-> n]>>
    \o (IF overridden THEN <<[log |-> "dev", kind |-> "stage.override", n |-> n]>> ELSE <<>>)
    \o <<[log |-> "governance", kind |-> "stage.advanced", n |-> n]>>

Events(n, overridden) ==
    LET kinds == IF overridden THEN <<"stage.advanced", "stage.override">> ELSE <<"stage.advanced">>
    IN  [e \in 1 .. Len(kinds) |-> [log |-> "dev", kind |-> kinds[e], n |-> n]]
        \o [e \in 1 .. Len(kinds) |-> [log |-> "governance", kind |-> kinds[e], n |-> n]]

(* AdvanceStage and SetStage store, then an advance has its events to log.  *)
Store(x) ==
    /\ At(x, "store")
    /\ LET n == Len(decided) + 1
       IN  \/ /\ \E k \in Find(job[x].id) : index' = Updated(x, k, n)
              /\ IF job[x].cmd = "advance"
                 THEN /\ decided' = Append(decided, [id |-> job[x].id, g |-> gate[x],
                                                     opts |-> job[x].opts])
                      /\ todo' = [todo EXCEPT ![x] = Events(n, gate[x].overridden)]
                      /\ Goto(x, "emit")
                      /\ UNCHANGED <<mem, gate>>
                 ELSE Stop(x) /\ UNCHANGED decided
           \/ "index" \in Faults /\ Stop(x) /\ UNCHANGED <<index, decided>>
    /\ UNCHANGED <<orgs, metrics, files, logs, unlogged, recorded, clashed>>

(* emitAdvanceEvents: one event after the other, its error ignored.        *)
Emit(x) ==
    /\ At(x, "emit")
    /\ \/ logs' = logs \cup {Head(todo[x])} /\ UNCHANGED unlogged
       \/ "log" \in Faults /\ unlogged' = unlogged \cup {Head(todo[x])} /\ UNCHANGED logs
    /\ IF Len(todo[x]) = 1 THEN Stop(x)
       ELSE /\ todo' = [todo EXCEPT ![x] = Tail(@)]
            /\ UNCHANGED <<pc, job, mem, gate, started>>
    /\ UNCHANGED <<orgs, index, metrics, files, decided, recorded, clashed>>

(* FileMetricStore.Record: the index is loaded and, later, replaced.       *)
LoadMetrics(x) ==
    /\ At(x, "load")
    /\ mem' = [mem EXCEPT ![x] = metrics]
    /\ Goto(x, "record")
    /\ UNCHANGED <<stores, gate, todo, history>>

WithMetric(old, k, v) == [old EXCEPT ![k] = v]

RecordMetric(x) ==
    LET k == <<job[x].id, job[x].arg[1]>>
    IN  /\ At(x, "record")
        /\ metrics' = WithMetric(mem[x], k, job[x].arg[2])
        /\ recorded' = [recorded EXCEPT ![k] = job[x].arg[2]]
        /\ clashed' = (clashed \cup {l \in DOMAIN metrics : mem[x][l] # metrics[l]}) \ {k}
        /\ Stop(x)
        /\ UNCHANGED <<orgs, index, files, logs, decided, unlogged>>

(* Users and agents write and remove artifacts and verdicts.               *)
WriteEvidence ==
    \E i \in Ids : \E a \in (Artifacts \cup Judgments) \cap Watched :
      \E v \in IF a \in Artifacts THEN {"filled", "absent"} ELSE {"absent", "pass", "fail"} :
        /\ files[i][a] # v
        /\ files' = [files EXCEPT ![i][a] = v]
        /\ UNCHANGED <<orgs, index, metrics, logs, own, history>>

Crash(x) ==
    /\ "crash" \in Faults /\ pc[x] # "idle"
    /\ unlogged' = unlogged \cup ToSet(todo[x])
    /\ Stop(x)
    /\ UNCHANGED <<stores, decided, recorded, clashed>>

AllDone == /\ \A x \in Procs : At(x, "idle")
           /\ started = MaxCommands
           /\ UNCHANGED vars

Next == \/ \E x \in Procs : \/ Begin(x) \/ CreateOrganization(x) \/ FindOrg(x) \/ Insert(x)
                            \/ GetInitiative(x) \/ Scaffold(x) \/ Evaluate(x) \/ Store(x) \/ Emit(x)
                            \/ LoadMetrics(x) \/ RecordMetric(x) \/ Crash(x)
        \/ WriteEvidence
        \/ AllDone

Spec == Init /\ [][Next]_vars

-----------------------------------------------------------------------------

(* Whoever stores a stale record: a stage nobody set by hand is the one    *)
(* the initiative's own stored gate leads to (stagemanager.go:394-397      *)
(* writes the two together, stagestore.go:217 replaces them together).     *)
StageHasItsGate ==
    \A k \in DOMAIN index :
      LET init == index[k]
      IN  init.stage # init.hand =>
            /\ init.gate # NoGate
            /\ init.gate.g.to = init.stage
            /\ decided[init.gate.evaluated].id = init.id
            /\ decided[init.gate.evaluated].g = init.gate.g

(* No automation overrides a gate, and none takes an initiative to Scale,  *)
(* however its commands interleave with a human's (stagemanager.go:343,    *)
(* stagemanager.go:361).                                                   *)
HumansDecide ==
    /\ \A n \in DOMAIN decided :
         decided[n].g.overridden => ~decided[n].opts.automated /\ decided[n].opts.reason
    /\ \A k \in DOMAIN index :
         index[k].stage = "Scale" /\ index[k].hand # "Scale" =>
            ~decided[index[k].gate.evaluated].opts.automated

(* Each stored advance is in the dev log and the governance log, with its  *)
(* override, unless its command is still logging, died or could not log    *)
(* (stagemanager.go:397-405): no event without an advance, none missing.   *)
AdvancesAreAudited ==
    LET due == {e \in [log : {"dev", "governance"}, kind : {"stage.advanced", "stage.override"},
                        n : DOMAIN decided] :
                  e.kind = "stage.override" => decided[e.n].g.overridden}
        waiting == UNION {ToSet(todo[x]) : x \in Procs}
    IN  /\ logs = (due \ waiting) \ unlogged
        /\ \A n \in DOMAIN decided : decided[n].g.passed # decided[n].g.overridden

(* No two initiatives share an id, and each belongs to an organization,    *)
(* whatever creates overlap (stagemanager.go:271, stagestore.go:157).      *)
IdsAreUnique ==
    /\ \A k, l \in DOMAIN index : index[k].id = index[l].id => k = l
    /\ \A k \in DOMAIN index : index[k].org \in orgs

(* A recorded metric is undone only by a record that overlaps it           *)
(* (metricstore.go:71-88): the upsert keeps every other metric.            *)
MetricsAreKept ==
    \A k \in DOMAIN metrics : k \notin clashed => metrics[k] = recorded[k]

=============================================================================
