---------------------------- MODULE StagesProofs ----------------------------
(***************************************************************************)
(* Proofs about Stages, for any number of processes, organizations and     *)
(* initiatives: a stage has the gate that led to it, humans decide what is *)
(* theirs, advances are audited, ids are unique, and a metric is undone    *)
(* only by an overlap.                                                     *)
(***************************************************************************)
EXTENDS Stages, TLAPS

StageNames == {"Idea", "MVP", "Launch", "Scale"}

Gate == [from : StageNames, to : StageNames, overridden : BOOLEAN, passed : BOOLEAN]
GateRef == [g : Gate, evaluated : Nat]
Initiative == [id : Ids, org : Orgs, stage : StageNames, gate : GateRef \cup {NoGate},
               links : SUBSET Links, hand : StageNames]
Decision == [id : Ids, g : Gate, opts : Opts]

PcSteps == {"idle", "addorg", "findorg", "insert", "read", "scaffold", "evaluate", "store",
            "emit", "load", "record"}

(* The steps at which a command holds an initiative it has read.           *)
Holding == {"evaluate", "store"}

(* What a process holds at each of its steps.                              *)
Fits(x) ==
    /\ pc[x] # "idle" => job[x] \in Requests
    /\ pc[x] = "addorg" => job[x].cmd = "org"
    /\ pc[x] \in {"findorg", "insert"} => job[x].cmd = "create"
    /\ pc[x] = "read" => job[x].cmd \notin {"org", "create", "metric"}
    /\ pc[x] \in Holding =>
         /\ mem[x] \in Initiative /\ mem[x].id = job[x].id
         /\ job[x].cmd \in {"set", "link", "advance", "gate"}
         /\ job[x].cmd = "set" => job[x].arg \in StageNames
         /\ job[x].cmd \in {"advance", "gate"} => mem[x].stage \in DOMAIN stageGates
    /\ pc[x] = "evaluate" => job[x].cmd \in {"advance", "gate"}
    /\ pc[x] = "store" => job[x].cmd # "gate"
    /\ pc[x] = "store" /\ job[x].cmd = "advance" => gate[x] \in Gate

Shape ==
    /\ orgs \subseteq Orgs
    /\ index \in Seq(Initiative)
    /\ decided \in Seq(Decision)
    /\ pc \in [Procs -> PcSteps]
    /\ DOMAIN mem = Procs /\ DOMAIN gate = Procs
    /\ DOMAIN job = Procs /\ DOMAIN todo = Procs
    /\ \A x \in Procs : Fits(x)

(* What an initiative that is stored or held says of the advances ds: its  *)
(* stage has its gate, and a human took it to Scale.                       *)
Backed(init, ds) ==
    init.stage # init.hand =>
      /\ init.gate # NoGate
      /\ init.gate.g.to = init.stage
      /\ init.gate.evaluated \in DOMAIN ds
      /\ ds[init.gate.evaluated].id = init.id
      /\ ds[init.gate.evaluated].g = init.gate.g
      /\ init.stage = "Scale" => ~ds[init.gate.evaluated].opts.automated

RecordInv ==
    /\ \A k \in DOMAIN index : Backed(index[k], decided)
    /\ \A x \in Procs : pc[x] \in Holding => Backed(mem[x], decided)

(* What an advance has been allowed.                                       *)
AdvanceInv ==
    /\ \A n \in DOMAIN decided :
         decided[n].g.overridden => ~decided[n].opts.automated /\ decided[n].opts.reason
    /\ \A x \in Procs : pc[x] \in Holding /\ job[x].cmd = "advance" =>
         /\ ~Refused(job[x].opts, mem[x].stage)
         /\ pc[x] = "store" =>
              /\ gate[x].overridden => job[x].opts.override
              /\ gate[x].to = stageGates[mem[x].stage].to

(* Where the organization of an initiative comes from.                     *)
OwnerInv ==
    /\ IdsAreUnique
    /\ \A x \in Procs : pc[x] = "insert" => job[x].arg \in orgs
    /\ \A x \in Procs : pc[x] \in Holding => mem[x].org \in orgs

IInv == Shape /\ RecordInv /\ AdvanceInv /\ OwnerInv

-----------------------------------------------------------------------------

LEMMA StageNamesAre == ToSet(Stages) = StageNames
  BY DEF ToSet, Stages, StageNames

(* The three gates.                                                        *)
LEMMA GatesAre ==
    /\ DOMAIN stageGates = {"Idea", "MVP", "Launch"}
    /\ \A s \in {"Idea", "MVP", "Launch"} :
         /\ stageGates[s].from = s /\ stageGates[s].to \in StageNames
         /\ stageGates[s].to = "Scale" => stageGates[s].humanOnly
  <1>1. DOMAIN stageGates = {"Idea", "MVP", "Launch"}
    BY DEF stageGates
  <1>2. stageGates["Idea"].from = "Idea" /\ stageGates["Idea"].to = "MVP"
    BY DEF stageGates
  <1>3. stageGates["MVP"].from = "MVP" /\ stageGates["MVP"].to = "Launch"
    BY DEF stageGates
  <1>4. /\ stageGates["Launch"].from = "Launch" /\ stageGates["Launch"].to = "Scale"
        /\ stageGates["Launch"].humanOnly
    BY DEF stageGates
  <1>5. QED
    BY <1>1, <1>2, <1>3, <1>4 DEF StageNames

(* What the commands' arguments are.                                       *)
LEMMA RequestsAre ==
    ASSUME NEW j \in Requests
    PROVE  /\ j.cmd \in {"org", "create", "set", "gate", "scaffold", "advance", "link", "metric"}
           /\ j.cmd = "org" => j.id \in Orgs
           /\ j.cmd # "org" => j.id \in Ids
           /\ j.cmd = "create" => j.arg \in Orgs
           /\ j.cmd = "link" => j.arg \in Links
           /\ j.cmd = "advance" => j.opts \in Opts
  BY DEF Requests, orgCreate, initiativeCreate, initiativeSetStage, initiativeGate,
         scaffoldEvidence, stageAdvance, addLink, pmfRecord, Request

(* A gate's evaluation says which stage it leads to.                       *)
LEMMA EvaluationIs ==
    ASSUME NEW i, NEW s \in DOMAIN stageGates
    PROVE  LET e == evaluateGate(i, stageGates[s])
               g == [e EXCEPT !.overridden = ~e.passed]
           IN  /\ e.passed \in BOOLEAN
               /\ g \in Gate /\ g.to = stageGates[s].to /\ g.overridden = ~e.passed
  <1> DEFINE p == /\ \A a \in stageGates[s].artifacts : artifactSatisfied(i, a)
                  /\ \A m \in stageGates[s].metrics : metricStatus(i, m) = "met"
                  /\ judgmentStatus(i, stageGates[s].judgment) # "failed"
  <1>1. p \in BOOLEAN
    OBVIOUS
  <1>2. evaluateGate(i, stageGates[s])
          = [from |-> stageGates[s].from, to |-> stageGates[s].to, overridden |-> FALSE, passed |-> p]
    BY DEF evaluateGate
  <1>3. s \in StageNames /\ stageGates[s].from \in StageNames /\ stageGates[s].to \in StageNames
    BY GatesAre DEF StageNames
  <1> HIDE DEF p
  <1> DEFINE e == evaluateGate(i, stageGates[s])
             g == [e EXCEPT !.overridden = ~e.passed]
  <1>4. e.passed \in BOOLEAN
    BY <1>1, <1>2
  <1>5. g = [from |-> stageGates[s].from, to |-> stageGates[s].to, overridden |-> ~p, passed |-> p]
    BY <1>1, <1>2
  <1>6. g.overridden = ~e.passed
    BY <1>2, <1>5
  <1> HIDE DEF e, g
  <1>7. g \in Gate /\ g.to = stageGates[s].to
    BY <1>1, <1>3, <1>5 DEF Gate
  <1>8. QED
    BY <1>4, <1>6, <1>7 DEF e, g

(* A step of a process leaves what the others hold.                        *)
Others(x) ==
    /\ pc' \in [Procs -> PcSteps]
    /\ DOMAIN mem' = Procs /\ DOMAIN gate' = Procs
    /\ DOMAIN job' = Procs /\ DOMAIN todo' = Procs
    /\ \A y \in Procs \ {x} : /\ pc'[y] = pc[y] /\ job'[y] = job[y]
                             /\ mem'[y] = mem[y] /\ gate'[y] = gate[y]

LEMMA OthersFit ==
    ASSUME Shape, NEW x \in Procs, Others(x), NEW y \in Procs \ {x}
    PROVE  Fits(y)'
  BY DEF Shape, Fits, Others

LEMMA StopDoes ==
    ASSUME Shape, NEW x \in Procs, Stop(x)
    PROVE  Others(x) /\ pc'[x] = "idle"
  BY DEF Shape, Fits, Stop, Others, PcSteps

LEMMA GotoDoes ==
    ASSUME Shape, NEW x \in Procs, NEW s \in PcSteps, Goto(x, s)
    PROVE  /\ pc' \in [Procs -> PcSteps] /\ pc'[x] = s /\ job' = job
           /\ \A y \in Procs \ {x} : pc'[y] = pc[y]
  BY DEF Shape, Fits, Goto

(* An advance that is stored later takes nothing from what is held.        *)
LEMMA BackedStays ==
    ASSUME NEW ds \in Seq(Decision), NEW d \in Decision, NEW init, Backed(init, ds)
    PROVE  Backed(init, Append(ds, d))
  <1>1. \A n \in DOMAIN ds : n \in DOMAIN Append(ds, d) /\ Append(ds, d)[n] = ds[n]
    OBVIOUS
  <1>2. QED
    BY <1>1 DEF Backed

(* A step after which a process holds nothing, and that leaves the records *)
(* and the decisions, keeps the invariant.                                 *)
LEMMA LettingGo ==
    ASSUME IInv, NEW x \in Procs, Others(x), UNCHANGED <<index, decided>>,
           orgs' \subseteq Orgs, orgs \subseteq orgs',
           pc'[x] \notin Holding \cup {"insert", "findorg", "addorg", "read"},
           pc'[x] # "idle" => job'[x] \in Requests
    PROVE  IInv'
  <1>1. Shape'
    BY DEF IInv, Shape, Fits, Others, Holding
  <1>2. RecordInv'
    BY DEF IInv, RecordInv, Others
  <1>3. AdvanceInv'
    BY DEF IInv, AdvanceInv, Others, Refused
  <1>4. OwnerInv'
    BY DEF IInv, OwnerInv, IdsAreUnique, Others
  <1>5. QED
    BY <1>1, <1>2, <1>3, <1>4 DEF IInv

-----------------------------------------------------------------------------
(* One lemma for each action that does more than let go.                   *)

LEMMA BeginKeeps ==
    ASSUME IInv, NEW x \in Procs, Begin(x)
    PROVE  IInv'
  <1>1. PICK j \in Requests :
          /\ job' = [job EXCEPT ![x] = j]
          /\ pc' = [pc EXCEPT ![x] = CASE j.cmd = "org"    -> "addorg"
                                       [] j.cmd = "create" -> "findorg"
                                       [] j.cmd = "metric" -> "load"
                                       [] OTHER            -> "read"]
    BY DEF Begin
  <1>2. /\ pc'[x] \in {"addorg", "findorg", "load", "read"}
        /\ pc'[x] = "addorg" => j.cmd = "org"
        /\ pc'[x] = "findorg" => j.cmd = "create"
        /\ pc'[x] = "read" => j.cmd \notin {"org", "create", "metric"}
    BY <1>1 DEF IInv, Shape, Fits
  <1>3. Others(x) /\ job'[x] = j
    BY <1>1, <1>2 DEF IInv, Shape, Fits, Others, Begin, PcSteps
  <1>4. UNCHANGED <<orgs, index, decided>>
    BY DEF Begin, stores, history
  <1>5. Shape'
    BY <1>2, <1>3, <1>4 DEF IInv, Shape, Fits, Others, Holding
  <1>6. RecordInv' /\ AdvanceInv' /\ OwnerInv'
    BY <1>2, <1>3, <1>4
       DEF IInv, RecordInv, AdvanceInv, OwnerInv, IdsAreUnique, Others, Holding, Refused
  <1>7. QED
    BY <1>5, <1>6 DEF IInv

LEMMA FindOrgKeeps ==
    ASSUME IInv, NEW x \in Procs, FindOrg(x)
    PROVE  IInv'
  <1>1. UNCHANGED <<orgs, index, decided>>
    BY DEF FindOrg, stores, history
  <1>2. CASE job[x].arg \in orgs
    <2>1. Goto(x, "insert") /\ UNCHANGED <<mem, gate, todo>>
      BY <1>2 DEF FindOrg
    <2>2. Others(x) /\ pc'[x] = "insert" /\ job' = job
      BY <2>1, GotoDoes DEF IInv, Shape, Fits, Others, PcSteps
    <2>3. Shape'
      BY <1>1, <2>2 DEF IInv, Shape, Fits, Others, Holding, FindOrg, At
    <2>4. RecordInv' /\ AdvanceInv' /\ OwnerInv'
      BY <1>1, <1>2, <2>2
         DEF IInv, RecordInv, AdvanceInv, OwnerInv, IdsAreUnique, Others, Holding, Refused
    <2>5. QED
      BY <2>3, <2>4 DEF IInv
  <1>3. CASE job[x].arg \notin orgs
    <2>1. Stop(x)
      BY <1>3 DEF FindOrg
    <2>2. QED
      BY <1>1, <2>1, StopDoes, LettingGo DEF IInv, Shape, Fits, Holding
  <1>4. QED
    BY <1>2, <1>3

LEMMA InsertKeeps ==
    ASSUME IInv, NEW x \in Procs, Insert(x)
    PROVE  IInv'
  <1>1. Stop(x) /\ UNCHANGED <<orgs, decided>>
    BY DEF Insert, history
  <1>2. Others(x) /\ pc'[x] = "idle"
    BY <1>1, StopDoes DEF IInv
  <1>3. CASE Find(job[x].id) # {}
    <2>1. index' = index
      BY <1>3 DEF Insert
    <2>2. QED
      BY <1>1, <1>2, <2>1, LettingGo DEF IInv, Shape, Fits, Holding
  <1>4. CASE Find(job[x].id) = {}
    <2> DEFINE r == IdeaRecord(job[x].id, job[x].arg)
    <2>1. index' = Append(index, r)
      BY <1>4 DEF Insert
    <2>2. job[x] \in Requests /\ job[x].cmd = "create" /\ job[x].arg \in orgs
      BY DEF IInv, Shape, Fits, OwnerInv, Insert, At
    <2>3. job[x].id \in Ids /\ job[x].arg \in Orgs
      BY <2>2, RequestsAre
    <2>4. r \in Initiative /\ r.stage = r.hand /\ r.id = job[x].id /\ r.org = job[x].arg
      BY <2>3 DEF IdeaRecord, Initiative, StageNames
    <2> HIDE DEF r
    <2>5. /\ index' \in Seq(Initiative) /\ DOMAIN index' = 1 .. Len(index) + 1
          /\ DOMAIN index = 1 .. Len(index) /\ Len(index) \in Nat
          /\ \A k \in 1 .. Len(index) : index'[k] = index[k]
          /\ index'[Len(index) + 1] = r
      BY <2>1, <2>4 DEF IInv, Shape, Fits
    <2>6. Shape'
      <3>1. Fits(x)'
        BY <1>2 DEF Fits, Holding
      <3>2. \A y \in Procs : Fits(y)'
        BY <1>2, <3>1, OthersFit DEF IInv
      <3>3. QED
        BY <1>1, <1>2, <2>5, <3>2 DEF IInv, Shape, Others
    <2>7. RecordInv'
      BY <1>1, <1>2, <2>4, <2>5 DEF IInv, RecordInv, Others, Holding, Backed
    <2>8. AdvanceInv'
      BY <1>1, <1>2 DEF IInv, AdvanceInv, Others, Holding, Refused
    <2>9. OwnerInv'
      <3>1. \A k \in 1 .. Len(index) : index[k].id # job[x].id
        BY <1>4, <2>5 DEF Find
      <3>2. IdsAreUnique'
        BY <1>1, <2>2, <2>4, <2>5, <3>1 DEF IInv, OwnerInv, IdsAreUnique
      <3>3. QED
        BY <1>1, <1>2, <3>2 DEF IInv, OwnerInv, Others, Holding
    <2>10. QED
      BY <2>6, <2>7, <2>8, <2>9 DEF IInv
  <1>5. QED
    BY <1>3, <1>4

LEMMA ReadKeeps ==
    ASSUME IInv, NEW x \in Procs, GetInitiative(x)
    PROVE  IInv'
  <1>1. UNCHANGED <<orgs, index, decided>>
    BY DEF GetInitiative, stores, history
  <1>2. CASE Stop(x)
    BY <1>1, <1>2, StopDoes, LettingGo DEF IInv, Shape, Fits, Holding
  <1>3. CASE ~Stop(x)
    <2> DEFINE j == job[x]
    <2>1. PICK k \in Find(j.id) :
            /\ ~EndsAtRead(j, index[k])
            /\ mem' = [mem EXCEPT ![x] = index[k]]
            /\ Goto(x, CASE j.cmd \in {"advance", "gate"} -> "evaluate"
                         [] j.cmd = "scaffold"          -> "scaffold"
                         [] OTHER                       -> "store")
            /\ UNCHANGED <<gate, todo>>
      BY <1>3 DEF GetInitiative
    <2> DEFINE s == CASE j.cmd \in {"advance", "gate"} -> "evaluate"
                      [] j.cmd = "scaffold"          -> "scaffold"
                      [] OTHER                       -> "store"
    <2>2. /\ s \in {"evaluate", "scaffold", "store"}
          /\ s = "evaluate" <=> j.cmd \in {"advance", "gate"}
          /\ s = "scaffold" <=> j.cmd = "scaffold"
      OBVIOUS
    <2>3. s \in PcSteps
      BY <2>2 DEF PcSteps
    <2>4. /\ pc' \in [Procs -> PcSteps] /\ pc'[x] = s /\ job' = job
          /\ \A y \in Procs \ {x} : pc'[y] = pc[y]
      BY <2>1, <2>3, GotoDoes DEF IInv
    <2> HIDE DEF s
    <2>5. Others(x) /\ mem'[x] = index[k]
      BY <2>1, <2>4 DEF IInv, Shape, Fits, Others
    <2>6. k \in DOMAIN index /\ index[k] \in Initiative /\ index[k].id = j.id
      BY <2>1 DEF Find, IInv, Shape, Fits
    <2>7. j \in Requests /\ pc[x] = "read"
      BY DEF GetInitiative, At, IInv, Shape, Fits
    <2>8. /\ j.cmd \in {"set", "gate", "scaffold", "advance", "link"}
          /\ j.cmd = "advance" => j.opts \in Opts
      BY <2>7, RequestsAre DEF IInv, Shape, Fits
    <2>9. /\ j.cmd = "set" => j.arg \in StageNames
          /\ j.cmd \in {"advance", "gate"} => index[k].stage \in DOMAIN stageGates
          /\ j.cmd = "advance" => ~Refused(j.opts, index[k].stage)
      BY <2>1, StageNamesAre DEF EndsAtRead, IsValid, Refused
    <2>10. Shape'
      BY <1>1, <2>2, <2>4, <2>5, <2>6, <2>7, <2>8, <2>9 DEF IInv, Shape, Fits, Others, Holding
    <2>11. RecordInv'
      BY <1>1, <2>5, <2>6 DEF IInv, RecordInv, Others
    <2>12. AdvanceInv'
      BY <1>1, <2>2, <2>4, <2>5, <2>9 DEF IInv, AdvanceInv, Others, Holding, Refused
    <2>13. OwnerInv'
      BY <1>1, <2>2, <2>4, <2>5, <2>6 DEF IInv, OwnerInv, IdsAreUnique, Others
    <2>14. QED
      BY <2>10, <2>11, <2>12, <2>13 DEF IInv
  <1>4. QED
    BY <1>2, <1>3

LEMMA EvaluateKeeps ==
    ASSUME IInv, NEW x \in Procs, Evaluate(x)
    PROVE  IInv'
  <1> DEFINE e == evaluateGate(mem[x].id, stageGates[mem[x].stage])
             g == [e EXCEPT !.overridden = ~e.passed]
  <1>1. UNCHANGED <<orgs, index, decided>> /\ pc[x] = "evaluate"
    BY DEF Evaluate, stores, history, At
  <1>2. CASE job[x].cmd = "gate" \/ (~e.passed /\ ~job[x].opts.override)
    <2>1. Stop(x)
      BY <1>2 DEF Evaluate
    <2>2. QED
      BY <1>1, <2>1, StopDoes, LettingGo DEF IInv, Shape, Fits, Holding
  <1>3. CASE ~(job[x].cmd = "gate" \/ (~e.passed /\ ~job[x].opts.override))
    <2>1. gate' = [gate EXCEPT ![x] = g] /\ Goto(x, "store") /\ UNCHANGED <<mem, todo>>
      BY <1>3 DEF Evaluate
    <2>2. mem[x].stage \in DOMAIN stageGates /\ job[x].cmd = "advance"
      BY <1>1, <1>3 DEF IInv, Shape, Fits, Holding
    <2>3. /\ e.passed \in BOOLEAN /\ g \in Gate
          /\ g.to = stageGates[mem[x].stage].to /\ g.overridden = ~e.passed
      BY <2>2, EvaluationIs
    <2>4. g.overridden => job[x].opts.override
      BY <1>3, <2>2, <2>3
    <2> HIDE DEF e, g
    <2>5. Others(x) /\ pc'[x] = "store" /\ job' = job /\ gate'[x] = g /\ mem' = mem
      BY <2>1, GotoDoes DEF IInv, Shape, Fits, Others, PcSteps
    <2>6. Shape'
      BY <1>1, <2>2, <2>3, <2>5 DEF IInv, Shape, Fits, Others, Holding
    <2>7. RecordInv'
      BY <1>1, <2>5 DEF IInv, RecordInv, Others, Holding
    <2>8. AdvanceInv'
      BY <1>1, <2>2, <2>3, <2>4, <2>5 DEF IInv, AdvanceInv, Others, Holding, Refused
    <2>9. OwnerInv'
      BY <1>1, <2>5 DEF IInv, OwnerInv, IdsAreUnique, Others, Holding
    <2>10. QED
      BY <2>6, <2>7, <2>8, <2>9 DEF IInv
  <1>4. QED
    BY <1>2, <1>3

(* What it takes to replace a record by one with its id and organization.  *)
LEMMA ReplacingFits ==
    ASSUME IInv, NEW x \in Procs, Others(x), orgs' = orgs,
           pc[x] = "store", pc'[x] \in {"idle", "emit"}, pc'[x] # "idle" => job' = job,
           NEW k \in Find(job[x].id), NEW r \in Initiative,
           r.id = job[x].id, r.org = mem[x].org, index' = [index EXCEPT ![k] = r],
           decided' \in Seq(Decision)
    PROVE  /\ Shape' /\ OwnerInv'
           /\ DOMAIN index' = DOMAIN index /\ index'[k] = r
           /\ \A l \in DOMAIN index : l # k => index'[l] = index[l]
  <1>1. k \in DOMAIN index /\ index[k].id = job[x].id
    BY DEF Find
  <1>2. /\ index' \in Seq(Initiative) /\ DOMAIN index' = DOMAIN index
        /\ index'[k] = r /\ \A l \in DOMAIN index : l # k => index'[l] = index[l]
    BY <1>1 DEF IInv, Shape, Fits
  <1>3. Shape'
    <2>1. Fits(x)'
      BY DEF IInv, Shape, Fits, Holding
    <2>2. \A y \in Procs : Fits(y)'
      BY <2>1, OthersFit DEF IInv
    <2>3. QED
      BY <1>2, <2>2 DEF IInv, Shape, Others
  <1>4. r.org \in orgs
    BY DEF IInv, OwnerInv, Holding
  <1>5. IdsAreUnique'
    <2>1. \A l \in DOMAIN index : index'[l].id = index[l].id
      BY <1>1, <1>2
    <2>2. \A l \in DOMAIN index : index'[l].org \in orgs
      BY <1>2, <1>4 DEF IInv, OwnerInv, IdsAreUnique
    <2>3. QED
      BY <1>2, <2>1, <2>2 DEF IInv, OwnerInv, IdsAreUnique
  <1>6. OwnerInv'
    BY <1>5 DEF IInv, OwnerInv, Others, Holding
  <1>7. QED
    BY <1>2, <1>3, <1>6

(* Replacing it by what its process may store keeps the invariant.         *)
LEMMA Replacing ==
    ASSUME IInv, NEW x \in Procs, Others(x), orgs' = orgs,
           pc[x] = "store", pc'[x] \in {"idle", "emit"}, pc'[x] # "idle" => job' = job,
           NEW k \in Find(job[x].id), NEW r \in Initiative,
           r.id = job[x].id, r.org = mem[x].org, index' = [index EXCEPT ![k] = r],
           Backed(r, decided'), decided' \in Seq(Decision),
           \A init : Backed(init, decided) => Backed(init, decided'),
           \A n \in DOMAIN decided' :
             decided'[n].g.overridden => ~decided'[n].opts.automated /\ decided'[n].opts.reason
    PROVE  IInv'
  <1>1. /\ Shape' /\ OwnerInv'
        /\ DOMAIN index' = DOMAIN index /\ index'[k] = r
        /\ \A l \in DOMAIN index : l # k => index'[l] = index[l]
    BY ReplacingFits
  <1>2. \A l \in DOMAIN index' : Backed(index'[l], decided')
    BY <1>1 DEF IInv, RecordInv
  <1>3. \A y \in Procs : pc'[y] \in Holding => Backed(mem'[y], decided')
    BY DEF IInv, RecordInv, Others, Holding
  <1>4. RecordInv'
    BY <1>2, <1>3 DEF RecordInv
  <1>5. AdvanceInv'
    BY DEF IInv, AdvanceInv, Others, Holding, Refused
  <1>6. QED
    BY <1>1, <1>4, <1>5 DEF IInv

LEMMA AdvancedIs ==
    ASSUME NEW init \in Initiative, NEW g, NEW n
    PROVE  Advanced(init, g, n)
             = [id |-> init.id, org |-> init.org, stage |-> g.to,
                gate |-> [g |-> g, evaluated |-> n], links |-> init.links, hand |-> init.hand]
  <1> DEFINE a == [init EXCEPT !.stage = g.to]
  <1>1. a = [id |-> init.id, org |-> init.org, stage |-> g.to,
             gate |-> init.gate, links |-> init.links, hand |-> init.hand]
    BY DEF Initiative
  <1>2. Advanced(init, g, n) = [a EXCEPT !.gate = [g |-> g, evaluated |-> n]]
    BY DEF Advanced
  <1> HIDE DEF a
  <1>3. QED
    BY <1>1, <1>2

LEMMA AdvanceKeeps ==
    ASSUME IInv, NEW x \in Procs, Store(x), job[x].cmd = "advance", ~Stop(x)
    PROVE  IInv'
  <1> DEFINE n == Len(decided) + 1
             d == [id |-> job[x].id, g |-> gate[x], opts |-> job[x].opts]
             r == Advanced(mem[x], gate[x], n)
  <1>1. PICK k \in Find(job[x].id) : index' = Updated(x, k, n)
    BY DEF Store
  <1>2. /\ decided' = Append(decided, d) /\ Goto(x, "emit") /\ UNCHANGED <<mem, gate, orgs>>
        /\ todo' = [todo EXCEPT ![x] = Events(n, gate[x].overridden)] /\ pc[x] = "store"
    BY DEF Store, At
  <1>3. Others(x) /\ pc'[x] = "emit" /\ job' = job
    BY <1>2, GotoDoes DEF IInv, Shape, Fits, Others, PcSteps
  <1>4. index' = [index EXCEPT ![k] = r]
    BY <1>1 DEF Updated, Changed
  <1>5. /\ job[x].opts \in Opts /\ job[x].id \in Ids
        /\ gate[x] \in Gate /\ mem[x] \in Initiative /\ mem[x].id = job[x].id
        /\ mem[x].stage \in DOMAIN stageGates
    BY <1>2, RequestsAre DEF IInv, Shape, Fits, Holding
  <1>6. /\ gate[x].overridden => job[x].opts.override
        /\ gate[x].to = stageGates[mem[x].stage].to
        /\ ~Refused(job[x].opts, mem[x].stage)
    BY <1>2 DEF IInv, AdvanceInv, Holding
  <1>7. /\ gate[x].overridden => ~job[x].opts.automated /\ job[x].opts.reason
        /\ gate[x].to = "Scale" => ~job[x].opts.automated
    BY <1>5, <1>6, GatesAre DEF Refused
  <1>8. d \in Decision /\ n \in Nat \ {0}
    BY <1>5 DEF Decision, IInv, Shape, Fits
  <1>9. /\ decided' \in Seq(Decision) /\ n \in DOMAIN decided' /\ decided'[n] = d
        /\ \A l \in DOMAIN decided' : l # n => l \in DOMAIN decided /\ decided'[l] = decided[l]
    BY <1>2, <1>8 DEF IInv, Shape, Fits
  <1>10. r = [id |-> mem[x].id, org |-> mem[x].org, stage |-> gate[x].to,
              gate |-> [g |-> gate[x], evaluated |-> n], links |-> mem[x].links,
              hand |-> mem[x].hand]
    BY <1>5, AdvancedIs
  <1> HIDE DEF d, r
  <1>11. r \in Initiative
    BY <1>5, <1>8, <1>10 DEF Initiative, GateRef, Gate
  <1>12. r.gate # NoGate
    <2>1. DOMAIN r.gate = {"g", "evaluated"} /\ DOMAIN NoGate = {"from"}
      BY <1>10 DEF NoGate
    <2>2. QED
      BY <2>1
  <1>13. Backed(r, decided')
    BY <1>5, <1>7, <1>9, <1>10, <1>12 DEF Backed, d
  <1>14. \A init : Backed(init, decided) => Backed(init, decided')
    BY <1>2, <1>8, BackedStays DEF IInv, Shape, Fits
  <1>15. \A l \in DOMAIN decided' :
           decided'[l].g.overridden => ~decided'[l].opts.automated /\ decided'[l].opts.reason
    BY <1>7, <1>9 DEF IInv, AdvanceInv, d
  <1>16. r.id = job[x].id /\ r.org = mem[x].org
    BY <1>5, <1>10
  <1>17. QED
    BY <1>2, <1>3, <1>4, <1>9, <1>11, <1>13, <1>14, <1>15, <1>16, Replacing

LEMMA ByHandKeeps ==
    ASSUME IInv, NEW x \in Procs, Stop(x), pc[x] = "store", job[x].cmd # "advance",
           NEW n, NEW k \in Find(job[x].id), UNCHANGED <<orgs, decided>>,
           index' = [index EXCEPT ![k] = Changed(x, mem[x], n)]
    PROVE  IInv'
  <1> DEFINE r == Changed(x, mem[x], n)
  <1>1. Others(x) /\ pc'[x] = "idle"
    BY StopDoes DEF IInv
  <1>2. /\ mem[x] \in Initiative /\ mem[x].id = job[x].id /\ Backed(mem[x], decided)
        /\ job[x] \in Requests /\ job[x].cmd \in {"set", "link"}
        /\ job[x].cmd = "set" => job[x].arg \in StageNames
    BY DEF IInv, Shape, Fits, Holding, RecordInv
  <1>3. /\ r \in Initiative /\ r.id = job[x].id /\ r.org = mem[x].org
        /\ Backed(r, decided)
    <2>1. CASE job[x].cmd = "set"
      BY <1>2, <2>1 DEF Changed, SetTo, Initiative, Backed
    <2>2. CASE job[x].cmd = "link"
      <3>1. job[x].arg \in Links
        BY <1>2, <2>2, RequestsAre
      <3>2. r = [mem[x] EXCEPT !.links = @ \cup {job[x].arg}]
        BY <2>2 DEF Changed, Linked
      <3>3. QED
        BY <1>2, <3>1, <3>2 DEF Initiative, Backed
    <2>3. QED
      BY <1>2, <2>1, <2>2
  <1>4. index' = [index EXCEPT ![k] = r]
    OBVIOUS
  <1> HIDE DEF r
  <1>5. /\ decided' \in Seq(Decision)
        /\ \A l \in DOMAIN decided' :
             decided'[l].g.overridden => ~decided'[l].opts.automated /\ decided'[l].opts.reason
    BY DEF IInv, Shape, Fits, AdvanceInv
  <1>6. QED
    BY <1>1, <1>3, <1>4, <1>5, Replacing

LEMMA StoreKeeps ==
    ASSUME IInv, NEW x \in Procs, Store(x)
    PROVE  IInv'
  <1>1. pc[x] = "store" /\ orgs' = orgs
    BY DEF Store, At
  <1>2. CASE Stop(x) /\ UNCHANGED <<index, decided>>
    BY <1>1, <1>2, StopDoes, LettingGo DEF IInv, Shape, Fits, Holding
  <1>3. CASE job[x].cmd = "advance" /\ ~Stop(x)
    BY <1>3, AdvanceKeeps
  <1>4. CASE job[x].cmd # "advance" /\ ~(Stop(x) /\ UNCHANGED <<index, decided>>)
    <2>1. PICK k \in Find(job[x].id) : index' = Updated(x, k, Len(decided) + 1)
      BY <1>4 DEF Store
    <2>2. Stop(x) /\ UNCHANGED decided
      BY <1>4 DEF Store
    <2>3. index' = [index EXCEPT ![k] = Changed(x, mem[x], Len(decided) + 1)]
      BY <2>1 DEF Updated
    <2>4. QED
      BY <1>1, <1>4, <2>2, <2>3, ByHandKeeps
  <1>5. CASE job[x].cmd = "advance" /\ Stop(x) /\ ~UNCHANGED <<index, decided>>
    <2>1. Goto(x, "emit")
      BY <1>5 DEF Store
    <2>2. pc'[x] = "emit" /\ pc'[x] = "idle"
      BY <1>5, <2>1, GotoDoes, StopDoes DEF IInv, PcSteps
    <2>3. QED
      BY <2>2
  <1>6. QED
    BY <1>2, <1>3, <1>4, <1>5

-----------------------------------------------------------------------------

LEMMA InitHolds == Init => IInv
  <1> SUFFICES ASSUME Init PROVE IInv
    OBVIOUS
  <1>1. /\ orgs \subseteq Orgs /\ index \in Seq(Initiative) /\ IdsAreUnique
        /\ \A k \in DOMAIN index : index[k].stage = index[k].hand
    <2>1. CASE orgs = {} /\ index = <<>>
      BY <2>1 DEF IdsAreUnique
    <2>2. CASE ~(orgs = {} /\ index = <<>>)
      <3>1. PICK i \in Ids, o \in Orgs, s \in ToSet(Stages) :
              /\ orgs = {o}
              /\ index = <<[IdeaRecord(i, o) EXCEPT !.stage = s, !.hand = s]>>
        BY <2>2 DEF Init
      <3> DEFINE r == [IdeaRecord(i, o) EXCEPT !.stage = s, !.hand = s]
      <3>2. r = [id |-> i, org |-> o, stage |-> s, gate |-> NoGate, links |-> {}, hand |-> s]
        <4> DEFINE d == IdeaRecord(i, o)
                   a == [d EXCEPT !.stage = s]
        <4>1. d = [id |-> i, org |-> o, stage |-> "Idea", gate |-> NoGate, links |-> {}, hand |-> "Idea"]
          BY DEF IdeaRecord
        <4>2. r = [a EXCEPT !.hand = s]
          OBVIOUS
        <4> HIDE DEF d
        <4>3. a = [id |-> i, org |-> o, stage |-> s, gate |-> NoGate, links |-> {}, hand |-> "Idea"]
          BY <4>1
        <4> HIDE DEF a
        <4>4. QED
          BY <4>2, <4>3
      <3>3. r \in Initiative
        BY <3>2, StageNamesAre DEF Initiative
      <3>4. r.stage = r.hand /\ r.org \in orgs
        BY <3>1, <3>2
      <3>5. index = <<r>>
        BY <3>1
      <3> HIDE DEF r
      <3>6. DOMAIN index = {1} /\ index[1] = r /\ index \in Seq(Initiative)
        BY <3>3, <3>5
      <3>7. QED
        BY <3>1, <3>4, <3>6 DEF IdsAreUnique
    <2>3. QED
      BY <2>1, <2>2
  <1>2. /\ pc = [x \in Procs |-> "idle"] /\ decided = <<>>
        /\ DOMAIN mem = Procs /\ DOMAIN gate = Procs /\ DOMAIN job = Procs /\ DOMAIN todo = Procs
    BY DEF Init
  <1>3. Shape
    BY <1>1, <1>2 DEF Shape, Fits, PcSteps, Holding
  <1>4. RecordInv /\ AdvanceInv /\ OwnerInv
    BY <1>1, <1>2 DEF RecordInv, AdvanceInv, OwnerInv, Holding, Backed
  <1>5. QED
    BY <1>3, <1>4 DEF IInv

LEMMA NextKeeps == IInv /\ [Next]_vars => IInv'
  <1> SUFFICES ASSUME IInv, [Next]_vars PROVE IInv'
    OBVIOUS
  <1>1. CASE UNCHANGED <<orgs, index, decided, own>>
    BY <1>1 DEF IInv, Shape, Fits, RecordInv, AdvanceInv, OwnerInv, IdsAreUnique, Backed, Refused, own
  <1>2. ASSUME NEW x \in Procs, CreateOrganization(x) PROVE IInv'
    <2>1. Stop(x) /\ UNCHANGED <<index, decided>> /\ orgs' = orgs \cup {job[x].id}
      BY <1>2 DEF CreateOrganization, WithOrg, history
    <2>2. job[x].id \in Orgs
      BY <1>2, RequestsAre DEF CreateOrganization, At, IInv, Shape, Fits
    <2>3. QED
      BY <2>1, <2>2, StopDoes, LettingGo DEF IInv, Shape, Fits, Holding
  <1>3. ASSUME NEW x \in Procs, Scaffold(x) \/ RecordMetric(x) \/ Crash(x) PROVE IInv'
    <2>1. Stop(x) /\ UNCHANGED <<orgs, index, decided>>
      BY <1>3 DEF Scaffold, RecordMetric, Crash, history, stores
    <2>2. QED
      BY <2>1, StopDoes, LettingGo DEF IInv, Shape, Fits, Holding
  <1>4. ASSUME NEW x \in Procs, Emit(x) PROVE IInv'
    <2>1. UNCHANGED <<orgs, index, decided>>
      BY <1>4 DEF Emit
    <2>2. CASE Stop(x)
      BY <2>1, <2>2, StopDoes, LettingGo DEF IInv, Shape, Fits, Holding
    <2>3. CASE ~Stop(x)
      <3>1. UNCHANGED <<pc, job, mem, gate>> /\ DOMAIN todo' = Procs /\ pc[x] = "emit"
        BY <1>4, <2>3 DEF Emit, At, IInv, Shape, Fits
      <3>2. Others(x) /\ pc'[x] = "emit" /\ job'[x] \in Requests
        BY <3>1 DEF Others, IInv, Shape, Fits
      <3>3. QED
        BY <2>1, <3>2, LettingGo DEF IInv, Shape, Fits, Holding
    <2>4. QED
      BY <2>2, <2>3
  <1>5. ASSUME NEW x \in Procs, LoadMetrics(x) PROVE IInv'
    <2>1. /\ UNCHANGED <<orgs, index, decided>> /\ Goto(x, "record") /\ pc[x] = "load"
          /\ mem' = [mem EXCEPT ![x] = metrics] /\ UNCHANGED <<gate, todo>>
      BY <1>5 DEF LoadMetrics, stores, history, At
    <2>2. Others(x) /\ pc'[x] = "record" /\ job'[x] \in Requests
      BY <2>1, GotoDoes DEF IInv, Shape, Fits, Others, PcSteps
    <2>3. QED
      BY <2>1, <2>2, LettingGo DEF IInv, Shape, Fits, Holding
  <1>6. QED
    BY <1>1, <1>2, <1>3, <1>4, <1>5, BeginKeeps, FindOrgKeeps, InsertKeeps, ReadKeeps,
       EvaluateKeeps, StoreKeeps DEF Next, vars, stores, history, AllDone, WriteEvidence

LEMMA Invariance == Spec => []IInv
  BY InitHolds, NextKeeps, PTL DEF Spec

-----------------------------------------------------------------------------
(* The audit of advances.  A command that logs holds events of its own     *)
(* advance, none of which is logged or given up.                           *)

Entry == [log : {"dev", "governance"}, kind : {"stage.advanced", "stage.override"}, n : Nat]

Due(ds) == {e \in [log : {"dev", "governance"}, kind : {"stage.advanced", "stage.override"},
                   n : DOMAIN ds] : e.kind = "stage.override" => ds[e.n].g.overridden}

Waiting == UNION {ToSet(todo[x]) : x \in Procs}

Decisive(g) == g.passed # g.overridden

TodoAt(x) ==
    /\ todo[x] \in Seq(Entry) /\ IsInjective(todo[x])
    /\ todo[x] # <<>> <=> pc[x] = "emit"
    /\ ToSet(todo[x]) \subseteq Due(decided) \ unlogged

AuditInv ==
    /\ \A n \in DOMAIN decided : Decisive(decided[n].g)
    /\ \A x \in Procs : pc[x] = "store" /\ job[x].cmd = "advance" => Decisive(gate[x])
    /\ \A x \in Procs : TodoAt(x)
    /\ \A x, y \in Procs : x # y => ToSet(todo[x]) \cap ToSet(todo[y]) = {}
    /\ unlogged \subseteq Due(decided)
    /\ logs = (Due(decided) \ Waiting) \ unlogged

LEMMA EmptyQueue ==
    /\ ToSet(<<>>) = {} /\ IsInjective(<<>>) /\ \A T : <<>> \in Seq(T)
  BY DEF ToSet, IsInjective

LEMMA QueueTail ==
    ASSUME NEW T, NEW q \in Seq(T), q # <<>>, IsInjective(q)
    PROVE  /\ Tail(q) \in Seq(T) /\ IsInjective(Tail(q))
           /\ ToSet(q) = {Head(q)} \cup ToSet(Tail(q)) /\ Head(q) \notin ToSet(Tail(q))
           /\ Len(q) = 1 => ToSet(Tail(q)) = {}
           /\ Len(q) # 1 => Tail(q) # <<>>
  <1>1. Len(q) \in Nat \ {0} /\ DOMAIN q = 1 .. Len(q) /\ Head(q) = q[1]
    OBVIOUS
  <1>2. /\ Tail(q) \in Seq(T) /\ Len(Tail(q)) = Len(q) - 1 /\ DOMAIN Tail(q) = 1 .. Len(q) - 1
        /\ \A i \in 1 .. Len(q) - 1 : Tail(q)[i] = q[i + 1]
    OBVIOUS
  <1>3. \A i, j \in DOMAIN q : q[i] = q[j] => i = j
    BY DEF IsInjective
  <1>4. \A i \in DOMAIN Tail(q) : i \in Nat /\ i + 1 \in DOMAIN q /\ i + 1 # 1 /\ Tail(q)[i] = q[i + 1]
    BY <1>1, <1>2
  <1>5. IsInjective(Tail(q))
    <2>1. ASSUME NEW i \in DOMAIN Tail(q), NEW j \in DOMAIN Tail(q), Tail(q)[i] = Tail(q)[j]
          PROVE  i = j
      <3>1. i + 1 = j + 1
        BY <1>3, <1>4, <2>1
      <3>2. QED
        BY <1>4, <3>1
    <2>2. QED
      BY <2>1 DEF IsInjective
  <1>6. Head(q) \notin ToSet(Tail(q))
    <2>1. 1 \in DOMAIN q
      BY <1>1
    <2>2. QED
      BY <1>1, <1>3, <1>4, <2>1 DEF ToSet
  <1>7. ToSet(q) \subseteq {Head(q)} \cup ToSet(Tail(q))
    <2>1. ASSUME NEW i \in DOMAIN q
          PROVE  q[i] \in {Head(q)} \cup ToSet(Tail(q))
      <3>1. CASE i = 1
        BY <1>1, <3>1
      <3>2. CASE i # 1
        <4>1. i - 1 \in 1 .. Len(q) - 1 /\ (i - 1) + 1 = i
          BY <1>1, <3>2
        <4>2. QED
          BY <1>2, <4>1 DEF ToSet
      <3>3. QED
        BY <3>1, <3>2
    <2>2. QED
      BY <2>1 DEF ToSet
  <1>8. {Head(q)} \cup ToSet(Tail(q)) \subseteq ToSet(q)
    BY <1>1, <1>4 DEF ToSet
  <1>9. Len(q) = 1 => ToSet(Tail(q)) = {}
    BY <1>2 DEF ToSet
  <1>10. Len(q) # 1 => Tail(q) # <<>>
    <2>1. Len(<<>>) = 0
      OBVIOUS
    <2>2. Len(q) # 1 => Len(Tail(q)) # 0
      BY <1>1, <1>2
    <2>3. QED
      BY <2>1, <2>2, Zenon
  <1>11. QED
    BY <1>2, <1>5, <1>6, <1>7, <1>8, <1>9, <1>10

LEMMA PairIs ==
    ASSUME NEW a, NEW c, a # c
    PROVE  /\ <<a>> \o <<c>> = <<a, c>>
           /\ ToSet(<<a, c>>) = {a, c} /\ IsInjective(<<a, c>>)
  <1> DEFINE s == <<a>> \o <<c>>
             q == <<a, c>>
  <1>1. DOMAIN q = {1, 2} /\ q[1] = a /\ q[2] = c
    OBVIOUS
  <1>2. /\ s \in Seq({a, c}) /\ q \in Seq({a, c}) /\ Len(s) = 2 /\ Len(q) = 2
        /\ s[1] = a /\ s[2] = c
    OBVIOUS
  <1> HIDE DEF s, q
  <1>3. s = q
    BY <1>1, <1>2
  <1>4. ToSet(q) = {a, c} /\ IsInjective(q)
    BY <1>1 DEF ToSet, IsInjective
  <1>5. QED
    BY <1>3, <1>4 DEF s, q

(* The events of an advance are all there is to log of it, once each.      *)
LEMMA EventsAre ==
    ASSUME NEW n \in Nat, NEW o \in BOOLEAN
    PROVE  /\ Events(n, o) \in Seq(Entry) /\ IsInjective(Events(n, o)) /\ Events(n, o) # <<>>
           /\ ToSet(Events(n, o)) = {e \in Entry : e.n = n /\ (e.kind = "stage.override" => o)}
  <1> DEFINE a == [log |-> "dev", kind |-> "stage.advanced", n |-> n]
             b == [log |-> "dev", kind |-> "stage.override", n |-> n]
             c == [log |-> "governance", kind |-> "stage.advanced", n |-> n]
             d == [log |-> "governance", kind |-> "stage.override", n |-> n]
             all == {e \in Entry : e.n = n /\ (e.kind = "stage.override" => o)}
  <1>1. /\ {a, b, c, d} \subseteq Entry
        /\ \A e \in Entry : e.n = n => e \in {a, b, c, d}
    BY DEF Entry
  <1>6. a # b /\ a # c /\ a # d /\ b # c /\ b # d /\ c # d
    OBVIOUS
  <1>2. /\ {a.kind, c.kind} = {"stage.advanced"} /\ {b.kind, d.kind} = {"stage.override"}
        /\ a.n = n /\ b.n = n /\ c.n = n /\ d.n = n
    OBVIOUS
  <1>3. CASE o
    <2> DEFINE kinds == <<"stage.advanced", "stage.override">>
               dev == [e \in 1 .. Len(kinds) |-> [log |-> "dev", kind |-> kinds[e], n |-> n]]
               gov == [e \in 1 .. Len(kinds) |-> [log |-> "governance", kind |-> kinds[e], n |-> n]]
    <2>1. Events(n, o) = dev \o gov
      BY <1>3 DEF Events
    <2>2. dev = <<a, b>> /\ gov = <<c, d>>
      OBVIOUS
    <2> HIDE DEF a, b, c, d, dev, gov
    <2>3. ToSet(dev \o gov) = {a, b, c, d} /\ IsInjective(dev \o gov) /\ dev \o gov = <<a, b, c, d>>
      <3> DEFINE s == <<a, b>> \o <<c, d>>
                 q == <<a, b, c, d>>
      <3>1. DOMAIN q = {1, 2, 3, 4} /\ q[1] = a /\ q[2] = b /\ q[3] = c /\ q[4] = d
        OBVIOUS
      <3>2. /\ s \in Seq({a, b, c, d}) /\ q \in Seq({a, b, c, d}) /\ Len(s) = 4 /\ Len(q) = 4
            /\ s[1] = a /\ s[2] = b /\ s[3] = c /\ s[4] = d
        OBVIOUS
      <3> HIDE DEF s, q
      <3>3. \A i \in 1 .. 4 : s[i] = q[i]
        BY <3>1, <3>2
      <3>4. s = q
        BY <3>2, <3>3
      <3>5. ToSet(q) = {a, b, c, d}
        BY <3>1 DEF ToSet
      <3>6. IsInjective(q)
        BY <1>6, <3>1 DEF IsInjective
      <3>7. dev \o gov = s
        BY <2>2 DEF s
      <3>8. QED
        BY <3>4, <3>5, <3>6, <3>7 DEF q
    <2>4. ToSet(Events(n, o)) = {a, b, c, d} /\ IsInjective(Events(n, o)) /\ Events(n, o) # <<>>
      BY <2>1, <2>3
    <2>5. all = {a, b, c, d}
      BY <1>1, <1>2, <1>3
    <2>6. Events(n, o) \in Seq(Entry)
      BY <1>1, <2>1, <2>3
    <2>7. QED
      BY <2>4, <2>5, <2>6
  <1>4. CASE ~o
    <2> DEFINE kinds == <<"stage.advanced">>
               dev == [e \in 1 .. Len(kinds) |-> [log |-> "dev", kind |-> kinds[e], n |-> n]]
               gov == [e \in 1 .. Len(kinds) |-> [log |-> "governance", kind |-> kinds[e], n |-> n]]
    <2>1. Events(n, o) = dev \o gov
      BY <1>4 DEF Events
    <2>2. dev = <<a>> /\ gov = <<c>>
      OBVIOUS
    <2> HIDE DEF a, b, c, d, dev, gov
    <2>3. ToSet(dev \o gov) = {a, c} /\ IsInjective(dev \o gov) /\ dev \o gov = <<a, c>>
      BY <1>6, <2>2, PairIs
    <2>4. ToSet(Events(n, o)) = {a, c} /\ IsInjective(Events(n, o)) /\ Events(n, o) # <<>>
      BY <2>1, <2>3
    <2>5. all = {a, c}
      BY <1>1, <1>2, <1>4
    <2>6. Events(n, o) \in Seq(Entry)
      BY <1>1, <2>1, <2>3
    <2>7. QED
      BY <2>4, <2>5, <2>6
  <1>5. QED
    BY <1>3, <1>4

(* A step in which nobody gets, logs or drops an event.                    *)
LEMMA QuietStep ==
    ASSUME AuditInv, NEW x \in Procs, UNCHANGED <<decided, logs, unlogged>>,
           \A y \in Procs : todo'[y] = todo[y],
           \A y \in Procs \ {x} : pc'[y] = pc[y] /\ job'[y] = job[y] /\ gate'[y] = gate[y],
           pc[x] # "emit", pc'[x] # "emit",
           pc'[x] = "store" /\ job'[x].cmd = "advance" => Decisive(gate'[x])
    PROVE  AuditInv'
  <1>1. Waiting' = Waiting
    BY DEF Waiting
  <1>2. \A y \in Procs : TodoAt(y)'
    BY DEF AuditInv, TodoAt
  <1>3. \A y \in Procs : pc'[y] = "store" /\ job'[y].cmd = "advance" => Decisive(gate'[y])
    BY DEF AuditInv
  <1>4. /\ \A y, z \in Procs : y # z => ToSet(todo'[y]) \cap ToSet(todo'[z]) = {}
        /\ \A n \in DOMAIN decided' : Decisive(decided'[n].g)
        /\ unlogged' \subseteq Due(decided') /\ logs' = (Due(decided') \ Waiting') \ unlogged'
    BY <1>1 DEF AuditInv
  <1>5. QED
    BY <1>2, <1>3, <1>4 DEF AuditInv, Decisive

(* A command that ends where it holds no event is quiet.                   *)
LEMMA QuietStop ==
    ASSUME Shape, AuditInv, NEW x \in Procs, Stop(x), pc[x] # "emit",
           UNCHANGED <<decided, logs, unlogged>>
    PROVE  AuditInv'
  <1>1. Others(x) /\ pc'[x] = "idle"
    BY StopDoes
  <1>2. todo[x] = <<>>
    BY DEF AuditInv, TodoAt
  <1>3. \A y \in Procs : todo'[y] = todo[y]
    BY <1>2 DEF Stop, Shape
  <1>4. QED
    BY <1>1, <1>3, QuietStep DEF Others

(* What a command no longer holds nobody holds.                            *)
LEMMA Shrinking ==
    ASSUME AuditInv, NEW x \in Procs, NEW T,
           T \subseteq ToSet(todo[x]), ToSet(todo'[x]) = ToSet(todo[x]) \ T,
           \A y \in Procs \ {x} : todo'[y] = todo[y]
    PROVE  /\ Waiting' = Waiting \ T
           /\ T \subseteq Waiting /\ T \subseteq Due(decided) \ unlogged
           /\ \A y \in Procs \ {x} : T \cap ToSet(todo[y]) = {}
           /\ \A y, z \in Procs : y # z => ToSet(todo'[y]) \cap ToSet(todo'[z]) = {}
  <1>1. \A y \in Procs : y # x => T \cap ToSet(todo[y]) = {}
    BY DEF AuditInv
  <1>2. \A y \in Procs : ToSet(todo'[y]) = ToSet(todo[y]) \ T
    BY <1>1
  <1>3. Waiting' = Waiting \ T
    BY <1>2 DEF Waiting
  <1>4. T \subseteq Waiting /\ T \subseteq Due(decided) \ unlogged
    BY DEF Waiting, AuditInv, TodoAt
  <1>5. \A y, z \in Procs : y # z => ToSet(todo'[y]) \cap ToSet(todo'[z]) = {}
    BY <1>2 DEF AuditInv
  <1>6. QED
    BY <1>1, <1>3, <1>4, <1>5

(* An event is logged or given up.                                         *)
LEMMA EmitAudits ==
    ASSUME Shape, AuditInv, NEW x \in Procs, Emit(x)
    PROVE  AuditInv'
  <1> DEFINE h == Head(todo[x])
  <1>1. /\ pc[x] = "emit" /\ decided' = decided
        /\ \/ logs' = logs \cup {h} /\ UNCHANGED unlogged
           \/ unlogged' = unlogged \cup {h} /\ UNCHANGED logs
    BY DEF Emit, At
  <1>2. todo[x] \in Seq(Entry) /\ todo[x] # <<>> /\ IsInjective(todo[x])
    BY <1>1 DEF AuditInv, TodoAt
  <1>3. /\ Tail(todo[x]) \in Seq(Entry) /\ IsInjective(Tail(todo[x]))
        /\ ToSet(todo[x]) = {h} \cup ToSet(Tail(todo[x])) /\ h \notin ToSet(Tail(todo[x]))
        /\ Len(todo[x]) = 1 => ToSet(Tail(todo[x])) = {}
        /\ Len(todo[x]) # 1 => Tail(todo[x]) # <<>>
    BY <1>2, QueueTail
  <1>4. /\ \A y \in Procs \ {x} : todo'[y] = todo[y] /\ pc'[y] = pc[y] /\ job'[y] = job[y] /\ gate'[y] = gate[y]
        /\ todo'[x] \in Seq(Entry) /\ IsInjective(todo'[x]) /\ ToSet(todo'[x]) = ToSet(Tail(todo[x]))
        /\ todo'[x] # <<>> <=> pc'[x] = "emit"
        /\ pc'[x] \in {"emit", "idle"}
    <2>1. CASE Len(todo[x]) = 1
      <3>1. Stop(x)
        BY <2>1 DEF Emit
      <3>2. todo'[x] = <<>> /\ \A y \in Procs \ {x} : todo'[y] = todo[y]
        BY <3>1 DEF Stop, Shape
      <3>3. Others(x) /\ pc'[x] = "idle"
        BY <3>1, StopDoes
      <3>4. QED
        BY <1>3, <2>1, <3>2, <3>3, EmptyQueue DEF Others
    <2>2. CASE Len(todo[x]) # 1
      <3>1. todo' = [todo EXCEPT ![x] = Tail(@)] /\ UNCHANGED <<pc, job, mem, gate>>
        BY <2>2 DEF Emit
      <3>2. todo'[x] = Tail(todo[x]) /\ \A y \in Procs \ {x} : todo'[y] = todo[y]
        BY <3>1 DEF Shape
      <3>3. QED
        BY <1>1, <1>3, <2>2, <3>1, <3>2
    <2>3. QED
      BY <2>1, <2>2
  <1> HIDE DEF h
  <1>5. {h} \subseteq ToSet(todo[x]) /\ ToSet(todo'[x]) = ToSet(todo[x]) \ {h}
    BY <1>3, <1>4
  <1>6. /\ Waiting' = Waiting \ {h}
        /\ {h} \subseteq Waiting /\ {h} \subseteq Due(decided) \ unlogged
        /\ \A y \in Procs \ {x} : {h} \cap ToSet(todo[y]) = {}
        /\ \A y, z \in Procs : y # z => ToSet(todo'[y]) \cap ToSet(todo'[z]) = {}
    BY <1>4, <1>5, Shrinking
  <1>7. logs' = (Due(decided') \ Waiting') \ unlogged' /\ unlogged' \subseteq Due(decided')
    <2>1. logs = (Due(decided) \ Waiting) \ unlogged /\ unlogged \subseteq Due(decided)
      BY DEF AuditInv
    <2>2. QED
      BY <1>1, <1>6, <2>1
  <1>8. \A y \in Procs : TodoAt(y)'
    <2>1. TodoAt(x)'
      <3>1. ToSet(todo[x]) \subseteq Due(decided) \ unlogged
        BY DEF AuditInv, TodoAt
      <3>2. ToSet(todo'[x]) \subseteq Due(decided') \ unlogged'
        BY <1>1, <1>5, <3>1
      <3>3. QED
        BY <1>4, <3>2 DEF TodoAt
    <2>2. ASSUME NEW y \in Procs \ {x} PROVE TodoAt(y)'
      <3>1. ToSet(todo[y]) \subseteq Due(decided) \ unlogged /\ h \notin ToSet(todo[y])
        BY <1>6 DEF AuditInv, TodoAt
      <3>2. ToSet(todo'[y]) \subseteq Due(decided') \ unlogged'
        BY <1>1, <1>4, <3>1
      <3>3. QED
        BY <1>4, <3>2 DEF AuditInv, TodoAt
    <2>3. QED
      BY <2>1, <2>2
  <1>9. \A y \in Procs : pc'[y] = "store" /\ job'[y].cmd = "advance" => Decisive(gate'[y])
    BY <1>4 DEF AuditInv
  <1>10. \A n \in DOMAIN decided' : Decisive(decided'[n].g)
    BY <1>1 DEF AuditInv
  <1>11. QED
    BY <1>6, <1>7, <1>8, <1>9, <1>10 DEF AuditInv, Decisive

(* A command that dies leaves its events out.                              *)
LEMMA CrashAudits ==
    ASSUME Shape, AuditInv, NEW x \in Procs, Crash(x)
    PROVE  AuditInv'
  <1> DEFINE T == ToSet(todo[x])
  <1>1. unlogged' = unlogged \cup T /\ Stop(x) /\ UNCHANGED <<logs, decided>>
    BY DEF Crash, stores
  <1>2. Others(x) /\ pc'[x] = "idle"
    BY <1>1, StopDoes
  <1>3. todo'[x] = <<>> /\ \A y \in Procs \ {x} : todo'[y] = todo[y]
    BY <1>1 DEF Stop, Shape
  <1>4. T \subseteq ToSet(todo[x]) /\ ToSet(todo'[x]) = ToSet(todo[x]) \ T
    BY <1>3, EmptyQueue
  <1> HIDE DEF T
  <1>5. /\ Waiting' = Waiting \ T
        /\ T \subseteq Waiting /\ T \subseteq Due(decided) \ unlogged
        /\ \A y \in Procs \ {x} : T \cap ToSet(todo[y]) = {}
        /\ \A y, z \in Procs : y # z => ToSet(todo'[y]) \cap ToSet(todo'[z]) = {}
    BY <1>3, <1>4, Shrinking
  <1>6. logs' = (Due(decided') \ Waiting') \ unlogged' /\ unlogged' \subseteq Due(decided')
    <2>1. logs = (Due(decided) \ Waiting) \ unlogged /\ unlogged \subseteq Due(decided)
      BY DEF AuditInv
    <2>2. QED
      BY <1>1, <1>5, <2>1
  <1>7. \A y \in Procs : TodoAt(y)'
    <2>1. TodoAt(x)'
      BY <1>2, <1>3, EmptyQueue DEF TodoAt
    <2>2. ASSUME NEW y \in Procs \ {x} PROVE TodoAt(y)'
      <3>1. ToSet(todo[y]) \subseteq Due(decided) \ unlogged /\ T \cap ToSet(todo[y]) = {}
        BY <1>5 DEF AuditInv, TodoAt
      <3>2. ToSet(todo'[y]) \subseteq Due(decided') \ unlogged'
        BY <1>1, <1>3, <3>1
      <3>3. QED
        BY <1>2, <1>3, <3>2 DEF AuditInv, TodoAt, Others
    <2>3. QED
      BY <2>1, <2>2
  <1>8. \A y \in Procs : pc'[y] = "store" /\ job'[y].cmd = "advance" => Decisive(gate'[y])
    BY <1>2 DEF AuditInv, Others
  <1>9. \A n \in DOMAIN decided' : Decisive(decided'[n].g)
    BY <1>1 DEF AuditInv
  <1>10. QED
    BY <1>5, <1>6, <1>7, <1>8, <1>9 DEF AuditInv, Decisive

(* An advance that is stored is due in both logs, and its command has it   *)
(* to log.                                                                 *)
LEMMA AdvanceAudits ==
    ASSUME IInv, AuditInv, NEW x \in Procs, Store(x), job[x].cmd = "advance", ~Stop(x)
    PROVE  AuditInv'
  <1> DEFINE n == Len(decided) + 1
             d == [id |-> job[x].id, g |-> gate[x], opts |-> job[x].opts]
             new == ToSet(Events(n, gate[x].overridden))
  <1>1. /\ decided' = Append(decided, d) /\ Goto(x, "emit") /\ UNCHANGED gate
        /\ todo' = [todo EXCEPT ![x] = Events(n, gate[x].overridden)]
        /\ pc[x] = "store" /\ UNCHANGED <<logs, unlogged>>
    BY DEF Store, At
  <1>2. /\ pc'[x] = "emit" /\ job' = job /\ \A y \in Procs \ {x} : pc'[y] = pc[y]
        /\ \A y \in Procs \ {x} : todo'[y] = todo[y]
        /\ todo'[x] = Events(n, gate[x].overridden)
    BY <1>1, GotoDoes DEF IInv, Shape, PcSteps
  <1>3. gate[x] \in Gate /\ Decisive(gate[x]) /\ gate[x].overridden \in BOOLEAN
    BY <1>1 DEF IInv, Shape, Fits, AuditInv, Gate
  <1>4. /\ n \in Nat /\ d.g = gate[x]
        /\ DOMAIN decided = 1 .. Len(decided) /\ Len(decided) \in Nat
        /\ DOMAIN decided' = DOMAIN decided \cup {n} /\ n \notin DOMAIN decided
        /\ decided'[n] = d /\ \A l \in DOMAIN decided : decided'[l] = decided[l]
    BY <1>1 DEF IInv, Shape
  <1>5. /\ Events(n, gate[x].overridden) \in Seq(Entry) /\ IsInjective(Events(n, gate[x].overridden))
        /\ Events(n, gate[x].overridden) # <<>>
        /\ new = {e \in Entry : e.n = n /\ (e.kind = "stage.override" => gate[x].overridden)}
    BY <1>3, <1>4, EventsAre
  <1> HIDE DEF n, d, new
  <1>6. Due(decided') = Due(decided) \cup new /\ new \cap Due(decided) = {}
    <2>1. \A e \in Due(decided') : e \in Due(decided) \cup new
      BY <1>4, <1>5 DEF Due, Entry
    <2>2. \A e \in Due(decided) : e \in Due(decided')
      BY <1>4 DEF Due
    <2>3. \A e \in new : e \in Due(decided') /\ e \notin Due(decided)
      BY <1>4, <1>5 DEF Due, Entry
    <2>4. QED
      BY <2>1, <2>2, <2>3
  <1>7. \A y \in Procs : ToSet(todo[y]) \subseteq Due(decided) \ unlogged
    BY DEF AuditInv, TodoAt
  <1>8. ToSet(todo[x]) = {}
    BY <1>1, EmptyQueue DEF AuditInv, TodoAt
  <1>9. ToSet(todo'[x]) = new
    BY <1>2 DEF new
  <1>10. Waiting' = Waiting \cup new /\ Waiting \subseteq Due(decided)
    BY <1>2, <1>7, <1>8, <1>9 DEF Waiting
  <1>11. logs = (Due(decided) \ Waiting) \ unlogged /\ unlogged \subseteq Due(decided)
    BY DEF AuditInv
  <1>12. logs' = (Due(decided') \ Waiting') \ unlogged' /\ unlogged' \subseteq Due(decided')
    BY <1>1, <1>6, <1>10, <1>11
  <1>13. \A y \in Procs : TodoAt(y)'
    <2>1. TodoAt(x)'
      BY <1>1, <1>2, <1>5, <1>6, <1>9, <1>11 DEF TodoAt
    <2>2. ASSUME NEW y \in Procs \ {x} PROVE TodoAt(y)'
      <3>1. ToSet(todo'[y]) \subseteq Due(decided') \ unlogged'
        BY <1>1, <1>2, <1>6, <1>7
      <3>2. QED
        BY <1>2, <3>1 DEF AuditInv, TodoAt
    <2>3. QED
      BY <2>1, <2>2
  <1>14. \A y, z \in Procs : y # z => ToSet(todo'[y]) \cap ToSet(todo'[z]) = {}
    <2>1. \A y \in Procs : y # x => new \cap ToSet(todo'[y]) = {}
      BY <1>2, <1>6, <1>7
    <2>2. \A y, z \in Procs : y # z /\ y # x /\ z # x => ToSet(todo'[y]) \cap ToSet(todo'[z]) = {}
      BY <1>2 DEF AuditInv
    <2>3. QED
      BY <1>9, <2>1, <2>2
  <1>15. \A y \in Procs : pc'[y] = "store" /\ job'[y].cmd = "advance" => Decisive(gate'[y])
    BY <1>1, <1>2 DEF AuditInv
  <1>16. \A l \in DOMAIN decided' : Decisive(decided'[l].g)
    BY <1>3, <1>4 DEF AuditInv
  <1>17. QED
    BY <1>12, <1>13, <1>14, <1>15, <1>16 DEF AuditInv, Decisive

LEMMA StoreAudits ==
    ASSUME IInv, AuditInv, NEW x \in Procs, Store(x)
    PROVE  AuditInv'
  <1>1. pc[x] = "store" /\ UNCHANGED <<logs, unlogged>>
    BY DEF Store, At
  <1>2. CASE Stop(x) /\ UNCHANGED decided
    BY <1>1, <1>2, QuietStop DEF IInv
  <1>3. CASE job[x].cmd = "advance" /\ ~Stop(x)
    BY <1>3, AdvanceAudits
  <1>4. CASE job[x].cmd = "advance" /\ Stop(x) /\ ~UNCHANGED decided
    <2>1. Goto(x, "emit")
      BY <1>4 DEF Store
    <2>2. pc'[x] = "emit" /\ pc'[x] = "idle"
      BY <1>4, <2>1, GotoDoes, StopDoes DEF IInv, PcSteps
    <2>3. QED
      BY <2>2
  <1>5. job[x].cmd # "advance" => Stop(x) /\ UNCHANGED decided
    BY DEF Store
  <1>6. QED
    BY <1>2, <1>3, <1>4, <1>5

(* An advance goes on to its store with a gate that passed or that it      *)
(* overrides.                                                              *)
LEMMA EvaluateAudits ==
    ASSUME IInv, AuditInv, NEW x \in Procs, Evaluate(x)
    PROVE  AuditInv'
  <1> DEFINE e == evaluateGate(mem[x].id, stageGates[mem[x].stage])
             g == [e EXCEPT !.overridden = ~e.passed]
  <1>1. UNCHANGED <<decided, logs, unlogged>> /\ pc[x] = "evaluate"
    BY DEF Evaluate, stores, history, At
  <1>2. CASE Stop(x)
    BY <1>1, <1>2, QuietStop DEF IInv
  <1>3. CASE ~Stop(x)
    <2>1. gate' = [gate EXCEPT ![x] = g] /\ Goto(x, "store") /\ UNCHANGED <<mem, todo>>
      BY <1>3 DEF Evaluate
    <2>2. mem[x].stage \in DOMAIN stageGates
      BY <1>1 DEF IInv, Shape, Fits, Holding
    <2>3. e.passed \in BOOLEAN /\ g.overridden = ~e.passed
      BY <2>2, EvaluationIs
    <2>4. g.passed = e.passed
      BY DEF evaluateGate
    <2>5. Decisive(g)
      BY <2>3, <2>4 DEF Decisive
    <2> HIDE DEF g
    <2>6. Others(x) /\ pc'[x] = "store" /\ gate'[x] = g
      BY <2>1, GotoDoes DEF IInv, Shape, Fits, Others, PcSteps
    <2>7. QED
      BY <1>1, <2>1, <2>5, <2>6, QuietStep DEF Others
  <1>4. QED
    BY <1>2, <1>3

(* Reading an initiative, an organization or the metrics, and a beginning. *)
LEMMA ReadingAudits ==
    ASSUME IInv, AuditInv, NEW x \in Procs,
           Begin(x) \/ FindOrg(x) \/ GetInitiative(x) \/ LoadMetrics(x)
    PROVE  AuditInv'
  <1>1. UNCHANGED <<decided, logs, unlogged>> /\ pc[x] \in {"idle", "findorg", "read", "load"}
    BY DEF Begin, FindOrg, GetInitiative, LoadMetrics, stores, history, At
  <1>2. CASE Stop(x)
    BY <1>1, <1>2, QuietStop DEF IInv
  <1>3. CASE ~Stop(x)
    <2>1. CASE Begin(x)
      <3>1. PICK j \in Requests :
              /\ job' = [job EXCEPT ![x] = j]
              /\ pc' = [pc EXCEPT ![x] = CASE j.cmd = "org"    -> "addorg"
                                           [] j.cmd = "create" -> "findorg"
                                           [] j.cmd = "metric" -> "load"
                                           [] OTHER            -> "read"]
        BY <2>1 DEF Begin
      <3>2. /\ pc'[x] \in {"addorg", "findorg", "load", "read"}
            /\ \A y \in Procs \ {x} : pc'[y] = pc[y] /\ job'[y] = job[y]
        BY <3>1 DEF IInv, Shape
      <3>3. UNCHANGED <<todo, gate>>
        BY <2>1 DEF Begin
      <3>4. QED
        BY <1>1, <3>2, <3>3, QuietStep
    <2>2. CASE FindOrg(x) \/ LoadMetrics(x)
      <3>1. PICK s \in {"insert", "record"} : Goto(x, s) /\ UNCHANGED <<gate, todo>>
        BY <1>3, <2>2 DEF FindOrg, LoadMetrics
      <3>2. pc'[x] = s /\ job' = job /\ \A y \in Procs \ {x} : pc'[y] = pc[y]
        BY <3>1, GotoDoes DEF IInv, PcSteps
      <3>3. QED
        BY <1>1, <3>1, <3>2, QuietStep
    <2>3. CASE GetInitiative(x)
      <3>1. /\ Goto(x, CASE job[x].cmd \in {"advance", "gate"} -> "evaluate"
                         [] job[x].cmd = "scaffold"          -> "scaffold"
                         [] OTHER                            -> "store")
            /\ UNCHANGED <<gate, todo>>
        BY <1>3, <2>3 DEF GetInitiative
      <3>2. PICK s \in {"evaluate", "scaffold", "store"} :
              Goto(x, s) /\ (job[x].cmd = "advance" => s = "evaluate")
        BY <3>1
      <3>3. pc'[x] = s /\ job' = job /\ \A y \in Procs \ {x} : pc'[y] = pc[y]
        BY <3>2, GotoDoes DEF IInv, PcSteps
      <3>4. QED
        BY <1>1, <3>1, <3>2, <3>3, QuietStep
    <2>4. QED
      BY <2>1, <2>2, <2>3
  <1>4. QED
    BY <1>2, <1>3

LEMMA AuditInit == Init => AuditInv
  <1> SUFFICES ASSUME Init PROVE AuditInv
    OBVIOUS
  <1>1. /\ pc = [x \in Procs |-> "idle"] /\ decided = <<>> /\ unlogged = {} /\ logs = {}
        /\ todo = [x \in Procs |-> <<>>]
    BY Zenon DEF Init
  <1>2. Due(decided) = {} /\ DOMAIN decided = {}
    BY <1>1 DEF Due
  <1>3. \A x \in Procs : TodoAt(x)
    BY <1>1, EmptyQueue DEF TodoAt
  <1>4. \A x, y \in Procs : ToSet(todo[x]) \cap ToSet(todo[y]) = {}
    BY <1>1, EmptyQueue
  <1>5. QED
    BY <1>1, <1>2, <1>3, <1>4 DEF AuditInv

LEMMA AuditKeeps == IInv /\ AuditInv /\ [Next]_vars => AuditInv'
  <1> SUFFICES ASSUME IInv, AuditInv, [Next]_vars PROVE AuditInv'
    OBVIOUS
  <1>1. CASE UNCHANGED <<decided, unlogged, logs, own>>
    BY <1>1 DEF AuditInv, TodoAt, Waiting, Decisive, own
  <1>2. ASSUME NEW x \in Procs,
               CreateOrganization(x) \/ Insert(x) \/ Scaffold(x) \/ RecordMetric(x)
        PROVE  AuditInv'
    <2>1. Stop(x) /\ UNCHANGED <<decided, unlogged, logs>> /\ pc[x] # "emit"
      BY <1>2 DEF CreateOrganization, Insert, Scaffold, RecordMetric, At, history
    <2>2. QED
      BY <2>1, QuietStop DEF IInv
  <1>3. CASE WriteEvidence \/ AllDone \/ UNCHANGED vars
    BY <1>1, <1>3 DEF vars, stores, history, AllDone, WriteEvidence
  <1>4. ASSUME NEW x \in Procs, Emit(x) \/ Crash(x) PROVE AuditInv'
    BY <1>4, EmitAudits, CrashAudits DEF IInv
  <1>5. QED
    BY <1>2, <1>3, <1>4, ReadingAudits, EvaluateAudits, StoreAudits DEF Next

LEMMA AuditHolds == Spec => []AuditInv
  BY Invariance, AuditInit, AuditKeeps, PTL DEF Spec

-----------------------------------------------------------------------------
(* The metrics.                                                            *)

Cells == Ids \X Metrics

MetricInv ==
    /\ metrics \in [Cells -> Values] /\ recorded \in [Cells -> Values]
    /\ \A x \in Procs : pc[x] \in {"load", "record"} => job[x].cmd = "metric"
    /\ \A x \in Procs : pc[x] = "record" => mem[x] \in [Cells -> Values]
    /\ MetricsAreKept

(* A step that does not record keeps it, if its process gets to "load" and *)
(* "record" as it should.                                                  *)
LEMMA OtherStep ==
    ASSUME MetricInv, NEW x \in Procs, Others(x), UNCHANGED <<metrics, recorded, clashed>>,
           pc'[x] \in {"load", "record"} => job'[x].cmd = "metric",
           pc'[x] = "record" => mem'[x] \in [Cells -> Values]
    PROVE  MetricInv'
  BY DEF MetricInv, MetricsAreKept, Others

LEMMA RecordMetricKeeps ==
    ASSUME IInv, MetricInv, NEW x \in Procs, RecordMetric(x)
    PROVE  MetricInv'
  <1> DEFINE k == <<job[x].id, job[x].arg[1]>>
             v == job[x].arg[2]
  <1>1. job[x] \in Requests /\ job[x].cmd = "metric" /\ mem[x] \in [Cells -> Values]
    BY DEF RecordMetric, At, MetricInv, IInv, Shape, Fits
  <1>2. job[x].arg \in (Metrics \cap Watched) \X {"below", "reached"}
    BY <1>1 DEF Requests, orgCreate, initiativeCreate, initiativeSetStage, initiativeGate,
                scaffoldEvidence, stageAdvance, addLink, pmfRecord, Request
  <1>3. k \in Cells /\ v \in Values
    BY <1>1, <1>2, RequestsAre DEF Cells, Values
  <1>4. /\ metrics' = [mem[x] EXCEPT ![k] = v] /\ recorded' = [recorded EXCEPT ![k] = v]
        /\ clashed' = (clashed \cup {l \in DOMAIN metrics : mem[x][l] # metrics[l]}) \ {k}
        /\ Stop(x)
    BY DEF RecordMetric, WithMetric
  <1> HIDE DEF k, v
  <1>5. metrics' \in [Cells -> Values] /\ recorded' \in [Cells -> Values]
    BY <1>1, <1>3, <1>4 DEF MetricInv
  <1>6. ASSUME NEW l \in Cells, l \notin clashed' PROVE metrics'[l] = recorded'[l]
    <2>1. CASE l = k
      BY <1>1, <1>3, <1>4, <2>1 DEF MetricInv
    <2>2. CASE l # k
      <3>1. mem[x][l] = metrics[l] /\ l \notin clashed
        BY <1>4, <1>6, <2>2 DEF MetricInv
      <3>2. metrics[l] = recorded[l]
        BY <3>1 DEF MetricInv, MetricsAreKept
      <3>3. QED
        BY <1>1, <1>4, <2>2, <3>1, <3>2 DEF MetricInv
    <2>3. QED
      BY <2>1, <2>2
  <1>7. MetricsAreKept'
    BY <1>5, <1>6 DEF MetricsAreKept
  <1>8. Others(x) /\ pc'[x] = "idle"
    BY <1>4, StopDoes DEF IInv
  <1>9. QED
    BY <1>5, <1>7, <1>8 DEF MetricInv, Others

LEMMA MetricInit == Init => MetricInv
  <1> SUFFICES ASSUME Init PROVE MetricInv
    OBVIOUS
  <1>1. /\ pc = [x \in Procs |-> "idle"] /\ recorded = metrics
        /\ metrics = [k \in Ids \X Metrics |-> IF k[2] \in Watched THEN "none" ELSE "reached"]
    BY Zenon DEF Init
  <1>2. metrics \in [Cells -> Values]
    BY <1>1 DEF Cells, Values
  <1>3. QED
    BY <1>1, <1>2 DEF MetricInv, MetricsAreKept

LEMMA MetricsStay == IInv /\ MetricInv /\ [Next]_vars => MetricInv'
  <1> SUFFICES ASSUME IInv, MetricInv, [Next]_vars PROVE MetricInv'
    OBVIOUS
  <1>1. CASE UNCHANGED <<metrics, recorded, clashed, own>>
    BY <1>1 DEF MetricInv, MetricsAreKept, own
  <1>2. CASE WriteEvidence \/ AllDone \/ UNCHANGED vars
    BY <1>1, <1>2 DEF vars, stores, history, AllDone, WriteEvidence
  <1>3. ASSUME NEW x \in Procs, Stop(x), UNCHANGED <<metrics, recorded, clashed>> PROVE MetricInv'
    BY <1>3, StopDoes, OtherStep DEF IInv
  <1>4. ASSUME NEW x \in Procs, Begin(x) PROVE MetricInv'
    <2>1. PICK j \in Requests :
            /\ job' = [job EXCEPT ![x] = j]
            /\ pc' = [pc EXCEPT ![x] = CASE j.cmd = "org"    -> "addorg"
                                         [] j.cmd = "create" -> "findorg"
                                         [] j.cmd = "metric" -> "load"
                                         [] OTHER            -> "read"]
      BY <1>4 DEF Begin
    <2>2. pc'[x] \in {"addorg", "findorg", "load", "read"} /\ (pc'[x] = "load" => j.cmd = "metric")
      BY <2>1 DEF IInv, Shape
    <2>3. Others(x) /\ job'[x] = j
      BY <1>4, <2>1, <2>2 DEF IInv, Shape, Others, Begin, PcSteps
    <2>4. UNCHANGED <<metrics, recorded, clashed>>
      BY <1>4 DEF Begin, stores, history
    <2>5. QED
      BY <2>2, <2>3, <2>4, OtherStep
  <1>5. ASSUME NEW x \in Procs, LoadMetrics(x) PROVE MetricInv'
    <2>1. /\ UNCHANGED <<metrics, recorded, clashed>> /\ Goto(x, "record") /\ pc[x] = "load"
          /\ mem' = [mem EXCEPT ![x] = metrics] /\ UNCHANGED <<gate, todo>>
      BY <1>5 DEF LoadMetrics, stores, history, At
    <2>2. Others(x) /\ pc'[x] = "record" /\ job' = job /\ mem'[x] = metrics
      BY <2>1, GotoDoes DEF IInv, Shape, Fits, Others, PcSteps
    <2>3. QED
      BY <2>1, <2>2, OtherStep DEF MetricInv
  <1>6. ASSUME NEW x \in Procs, CreateOrganization(x) \/ Insert(x) \/ Scaffold(x) \/ Crash(x)
        PROVE  MetricInv'
    BY <1>3, <1>6 DEF CreateOrganization, Insert, Scaffold, Crash, stores, history
  <1>7. ASSUME NEW x \in Procs, FindOrg(x) \/ GetInitiative(x) \/ Evaluate(x) \/ Store(x) \/ Emit(x)
        PROVE  MetricInv'
    <2>1. UNCHANGED <<metrics, recorded, clashed>>
      BY <1>7 DEF FindOrg, GetInitiative, Evaluate, Store, Emit, stores, history
    <2>2. CASE Stop(x)
      BY <1>3, <2>1, <2>2
    <2>3. CASE ~Stop(x)
      <3>1. CASE Emit(x)
        BY <1>1, <2>1, <2>3, <3>1 DEF Emit, MetricInv, MetricsAreKept
      <3>2. CASE ~Emit(x)
        <4>1. PICK s \in {"insert", "evaluate", "scaffold", "store", "emit"} : Goto(x, s)
          BY <1>7, <2>3, <3>2 DEF FindOrg, GetInitiative, Evaluate, Store
        <4>2. DOMAIN mem' = Procs /\ \A y \in Procs \ {x} : mem'[y] = mem[y]
          BY <1>7, <2>3, <3>2 DEF FindOrg, GetInitiative, Evaluate, Store, IInv, Shape
        <4>3. /\ pc' \in [Procs -> PcSteps] /\ pc'[x] = s /\ job' = job
              /\ \A y \in Procs \ {x} : pc'[y] = pc[y]
          BY <4>1, GotoDoes DEF IInv, PcSteps
        <4>4. QED
          BY <2>1, <4>2, <4>3 DEF MetricInv, MetricsAreKept
      <3>3. QED
        BY <3>1, <3>2
    <2>4. QED
      BY <2>2, <2>3
  <1>8. QED
    BY <1>2, <1>4, <1>5, <1>6, <1>7, RecordMetricKeeps DEF Next

-----------------------------------------------------------------------------

(* Whatever stale records are stored, by any number of processes: a stage  *)
(* that nobody set by hand is the one the initiative's own gate leads to   *)
(* (core/stagemanager.go:394-397).                                         *)
THEOREM StagesHaveGates == Spec => []StageHasItsGate
  <1>1. IInv => StageHasItsGate
    BY DEF IInv, RecordInv, Backed, StageHasItsGate
  <1>2. QED
    BY <1>1, Invariance, PTL

(* No automation overrides a gate or takes an initiative to Scale          *)
(* (core/stagemanager.go:343-361).                                         *)
THEOREM HumansKeepDeciding == Spec => []HumansDecide
  <1>1. IInv => HumansDecide
    BY DEF IInv, RecordInv, AdvanceInv, Backed, HumansDecide
  <1>2. QED
    BY <1>1, Invariance, PTL

(* Overlapping creations make no two initiatives with one id, and none     *)
(* without its organization (core/stagemanager.go:271,                     *)
(* storage/stagestore.go:157).                                             *)
THEOREM IdsStayUnique == Spec => []IdsAreUnique
  <1>1. IInv => IdsAreUnique
    BY DEF IInv, OwnerInv
  <1>2. QED
    BY <1>1, Invariance, PTL

(* Each stored advance is in the dev log and the governance log, with its  *)
(* override, unless its command is still logging, died or could not log,   *)
(* and every event in them is that of a stored advance                     *)
(* (core/stagemanager.go:397-405).                                         *)
THEOREM AdvancesStayAudited == Spec => []AdvancesAreAudited
  <1>1. AuditInv => AdvancesAreAudited
    BY DEF AuditInv, AdvancesAreAudited, Due, Waiting, Decisive
  <1>2. QED
    BY <1>1, AuditHolds, PTL

(* A recorded metric is undone only by a record that overlaps it           *)
(* (storage/metricstore.go:71-88).                                         *)
THEOREM MetricsSurvive == Spec => []MetricsAreKept
  <1>1. MetricInv => MetricsAreKept
    BY DEF MetricInv
  <1>2. Spec => []MetricInv
    BY Invariance, MetricInit, MetricsStay, PTL DEF Spec
  <1>3. QED
    BY <1>1, <1>2, PTL

=============================================================================
