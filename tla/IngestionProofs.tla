--------------------------- MODULE IngestionProofs ---------------------------
(***************************************************************************)
(* Proofs about Ingestion, for any sets of nodes, contents and cursors,    *)
(* any commands and any failures, when one process runs at a time.  With   *)
(* two, the stores lose each other's changes and Conserved is false.       *)
(***************************************************************************)
EXTENDS Ingestion, TLAPS, FiniteSetTheorems, SequenceTheorems

OneAtATime == \A x, y \in Procs : x = y

(* The steps in which a proposal is in neither the queue nor the ledger.   *)
Holders == {"look", "put", "putstore", "enqueue", "enqueued", "record", "recorded"}
Landing == {"manifest", "content", "landed"}
Steps == Holders \cup Landing \cup {"idle", "next", "take", "untake"}

FileTypes ==
    /\ queue \in [Proposals -> Nat]
    /\ ledger \in [Decisions -> Nat]
    /\ nodes \in [Nodes -> {Absent} \cup SUBSET Nodes]
    /\ content \in [Contents -> {"absent", "torn", "whole"}]
    /\ manifest \subseteq Artifacts
    /\ submitted \in [Proposals -> Nat]
    /\ lost \in [Proposals -> Nat]

OwnTypes ==
    /\ pc \in [Procs -> Steps]
    /\ job = [x \in Procs |-> job[x]]
    /\ batch \in [Procs -> Seq(Items)]
    /\ held \in [Procs -> SUBSET Proposals]
    /\ mem = [x \in Procs |-> mem[x]]
    /\ put \in [Procs -> SUBSET Nodes]

(* What a command holds and does, by its step.                             *)
CommandInv == \A x \in Procs :
    /\ pc[x] \in Holders => \E p \in Proposals : held[x] = {p}
    /\ pc[x] \notin Holders => held[x] = {}
    /\ pc[x] = "next" => batch[x] # <<>>
    /\ batch[x] # <<>> => Cmd(x) = "propose"
    /\ pc[x] \in {"look", "put", "putstore"} => Cmd(x) # "reject"
    /\ pc[x] \in {"take", "untake"} => job[x].p \in Proposals
    /\ pc[x] \in Landing => job[x].p \in Artifacts

(* What a command read is still what its file holds when it replaces it.   *)
ReadInv == \A x \in Procs :
    /\ pc[x] = "untake" => mem[x] = queue /\ queue[job[x].p] > 0
    /\ pc[x] = "enqueued" => mem[x] = queue
    /\ pc[x] = "recorded" => mem[x] = ledger
    /\ pc[x] = "putstore" => mem[x] = nodes
    /\ pc[x] \in {"content", "landed"} => mem[x] = manifest /\ ~Seen(job[x].p, manifest)
    /\ pc[x] = "landed" => content[job[x].p.content] # "absent"

(* The links about to be put: the source's and the new one, or none.       *)
PutInv == \A x \in Procs :
    /\ pc[x] \in {"idle", "next", "take", "untake", "look"} => put[x] = {}
    /\ pc[x] = "look" => The(x).kind = "edge"
    /\ pc[x] \in {"put", "putstore"} =>
         IF The(x).kind = "edge"
         THEN /\ nodes[The(x).from] # Absent
              /\ put[x] = nodes[The(x).from] \cup {The(x).target}
         ELSE put[x] = {}

IInv == FileTypes /\ OwnTypes /\ CommandInv /\ ReadInv /\ PutInv

-----------------------------------------------------------------------------

LEMMA TheOne ==
    ASSUME NEW x \in Procs, NEW p \in Proposals, held[x] = {p}
    PROVE  The(x) = p
  BY DEF The

(* How many processes hold a proposal, when there is one process.          *)
LEMMA HoldingOne ==
    ASSUME OneAtATime, NEW h, NEW x \in Procs, NEW p
    PROVE  Cardinality({y \in Procs : p \in h[y]}) = IF p \in h[x] THEN 1 ELSE 0
  <1>1. CASE p \in h[x]
    <2>1. {y \in Procs : p \in h[y]} = {x}  BY <1>1 DEF OneAtATime
    <2>2. QED  BY <1>1, <2>1, FS_Singleton
  <1>2. CASE p \notin h[x]
    <2>1. {y \in Procs : p \in h[y]} = {}  BY <1>2 DEF OneAtATime
    <2>2. QED  BY <1>2, <2>1, FS_EmptySet
  <1>3. QED  BY <1>1, <1>2

LEMMA TypeFollows == ASSUME IInv PROVE TypeOK
  <1>1. ASSUME NEW x \in Procs PROVE Cardinality(held[x]) <= 1
    <2>1. held[x] = {} \/ \E p \in Proposals : held[x] = {p}
      BY DEF IInv, CommandInv
    <2>2. Cardinality(held[x]) = 0 \/ Cardinality(held[x]) = 1
      BY <2>1, FS_Singleton, FS_EmptySet, Zenon
    <2>3. QED  BY <2>2
  <1>2. QED
    BY <1>1 DEF IInv, TypeOK, FileTypes, CommandInv, Holders

LEMMA InitInv == Init => IInv
  BY DEF Init, IInv, FileTypes, OwnTypes, CommandInv, ReadInv, PutInv, Steps, Holders,
         Landing, Zero, Cmd, NoJob

(* A command that ends leaves nothing behind.                              *)
LEMMA StopKeeps ==
    ASSUME OneAtATime, IInv, NEW x \in Procs, Stop(x)
    PROVE  /\ OwnTypes' /\ CommandInv' /\ ReadInv' /\ PutInv'
           /\ lost' \in [Proposals -> Nat] /\ submitted' \in [Proposals -> Nat]
  <1>a. OwnTypes'
    <2>1. pc' \in [Procs -> Steps] /\ batch' \in [Procs -> Seq(Items)]
      BY DEF Stop, IInv, OwnTypes, Steps
    <2>2. held' \in [Procs -> SUBSET Proposals] /\ put' \in [Procs -> SUBSET Nodes]
      BY DEF Stop, IInv, OwnTypes
    <2>3. job' = [y \in Procs |-> job'[y]] /\ mem' = [y \in Procs |-> mem'[y]]
      BY DEF Stop, IInv, OwnTypes
    <2>4. QED  BY <2>1, <2>2, <2>3 DEF OwnTypes
  <1>1. OwnTypes' /\ pc'[x] = "idle" /\ batch'[x] = <<>> /\ held'[x] = {} /\ put'[x] = {}
    BY <1>a DEF Stop, IInv, OwnTypes
  <1>2. CommandInv' /\ ReadInv' /\ PutInv'
    BY <1>1 DEF CommandInv, ReadInv, PutInv, Holders, Landing, OneAtATime
  <1>3. lost' \in [Proposals -> Nat]
    <2>1. CASE held[x] = {}
      BY <2>1 DEF Stop, IInv, FileTypes
    <2>2. CASE held[x] # {}
      <3>1. PICK p \in Proposals : held[x] = {p}  BY <2>2 DEF IInv, CommandInv
      <3>2. lost' = [lost EXCEPT ![p] = @ + 1]  BY <2>2, <3>1, TheOne DEF Stop, Plus
      <3>3. QED  BY <3>2 DEF IInv, FileTypes
    <2>3. QED  BY <2>1, <2>2
  <1>4. QED  BY <1>1, <1>2, <1>3 DEF Stop, IInv, FileTypes

LEMMA SettleKeeps ==
    ASSUME OneAtATime, IInv, NEW x \in Procs, Settle(x)
    PROVE  OwnTypes' /\ CommandInv' /\ ReadInv' /\ PutInv'
  <1>1. /\ held'[x] = {} /\ put'[x] = {} /\ batch' = batch
        /\ \/ pc'[x] = "next" /\ batch[x] # <<>> /\ job' = job
           \/ pc'[x] = "idle" /\ batch[x] = <<>>
    BY DEF Settle, IInv, OwnTypes
  <1>2. OwnTypes'
    BY DEF Settle, IInv, OwnTypes, Steps
  <1>3. CommandInv' /\ ReadInv' /\ PutInv'
    BY <1>1 DEF IInv, CommandInv, ReadInv, PutInv, Holders, Landing, OneAtATime, Cmd
  <1>4. QED  BY <1>2, <1>3

LEMMA BatchIsSeq == Batches \subseteq Seq(Items)
  BY SeqDef, IngestionAssumption DEF Batches

LEMMA BeginKeeps ==
    ASSUME OneAtATime, IInv, NEW x \in Procs, Begin(x)
    PROVE  IInv'
  <1>1. PICK j \in Requests, b \in Batches \cup {<<>>} :
            /\ j.cmd # "propose" => b = <<>>
            /\ j.cmd = "propose" => b # <<>>
            /\ job' = [job EXCEPT ![x] = j]
            /\ batch' = [batch EXCEPT ![x] = b]
            /\ pc' = [pc EXCEPT ![x] = CASE j.cmd = "propose" -> "next"
                                         [] j.cmd = "land"    -> "manifest"
                                         [] OTHER             -> "take"]
    BY DEF Begin
  <1>2. /\ j.cmd = "land" => j.p \in Artifacts
        /\ j.cmd \notin {"land", "propose"} => j.p \in Proposals
    BY DEF Requests
  <1>3. OwnTypes'
    <2>0. <<>> \in Seq(Items)  OBVIOUS
    <2>1. b \in Seq(Items)  BY <2>0, BatchIsSeq
    <2>2. batch' \in [Procs -> Seq(Items)]  BY <1>1, <2>1 DEF IInv, OwnTypes
    <2>3. pc' \in [Procs -> Steps] /\ job' = [y \in Procs |-> job'[y]]
      BY <1>1 DEF IInv, OwnTypes, Steps, Landing
    <2>4. QED  BY <2>2, <2>3 DEF Begin, IInv, OwnTypes
  <1>4. /\ job'[x] = j /\ batch'[x] = b /\ held'[x] = {} /\ put'[x] = {}
        /\ pc'[x] = CASE j.cmd = "propose" -> "next"
                      [] j.cmd = "land"    -> "manifest"
                      [] OTHER             -> "take"
    BY <1>1 DEF Begin, At, IInv, OwnTypes, CommandInv, PutInv, Holders
  <1>5. CommandInv' /\ ReadInv' /\ PutInv'
    BY <1>1, <1>2, <1>4 DEF CommandInv, ReadInv, PutInv, Holders, Landing, OneAtATime, Cmd
  <1>6. FileTypes'
    BY DEF Begin, IInv, FileTypes, review, raw
  <1>7. QED  BY <1>3, <1>5, <1>6 DEF IInv

LEMMA NextItemKeeps ==
    ASSUME OneAtATime, IInv, NEW x \in Procs, NextItem(x)
    PROVE  IInv' /\ Head(batch[x]).p \in Proposals /\ held[x] = {}
  <1> DEFINE i == Head(batch[x])
  <1>1. i \in Items /\ Tail(batch[x]) \in Seq(Items) /\ Cmd(x) = "propose" /\ held[x] = {}
    BY HeadTailProperties DEF NextItem, At, IInv, OwnTypes, CommandInv, Holders
  <1>2. i.p \in Proposals  BY <1>1 DEF Items
  <1>3. OwnTypes'
    BY <1>1, <1>2 DEF NextItem, IInv, OwnTypes, Steps, Holders, FirstOf
  <1>4. /\ held'[x] = {i.p} /\ job' = job /\ put' = put /\ batch'[x] = Tail(batch[x])
        /\ pc'[x] \in {"look", "put", "enqueue"}
        /\ pc'[x] = "look" => put[x] = {} /\ i.p.kind = "edge"
        /\ pc'[x] = "put" => i.p.kind # "edge" /\ put[x] = {}
    BY <1>1, <1>2 DEF NextItem, At, IInv, OwnTypes, PutInv, FirstOf
  <1>5. The(x)' = i.p
    BY <1>2, <1>4 DEF The
  <1>6. CommandInv' /\ ReadInv' /\ PutInv'
    BY <1>1, <1>2, <1>4, <1>5 DEF CommandInv, ReadInv, PutInv, Holders, Landing, OneAtATime, Cmd
  <1>7. FileTypes'
    BY <1>2 DEF NextItem, IInv, FileTypes, review, raw, Plus
  <1>8. QED  BY <1>1, <1>2, <1>3, <1>6, <1>7 DEF IInv

LEMMA TakeKeeps ==
    ASSUME OneAtATime, IInv, NEW x \in Procs, Take(x)
    PROVE  IInv'
  <1>1. CASE queue[job[x].p] = 0
    BY <1>1, StopKeeps DEF Take, IInv, FileTypes, review, raw
  <1>2. CASE queue[job[x].p] # 0
    <2>1. Load(x, "untake", queue)  BY <1>2 DEF Take
    <2>2. OwnTypes'  BY <2>1 DEF Load, IInv, OwnTypes, Steps
    <2>a. /\ held[x] = {} /\ job[x].p \in Proposals /\ put[x] = {}
      BY DEF Take, At, IInv, CommandInv, PutInv, Holders
    <2>b. queue[job[x].p] > 0
      BY <1>2, <2>a DEF IInv, FileTypes
    <2>3. /\ pc'[x] = "untake" /\ mem'[x] = queue /\ queue' = queue /\ job' = job /\ batch' = batch
          /\ held'[x] = {} /\ put'[x] = {}
      BY <2>1, <2>a DEF Take, Load, IInv, OwnTypes, review
    <2>4. CommandInv' /\ ReadInv' /\ PutInv'
      BY <2>a, <2>b, <2>3 DEF IInv, CommandInv, ReadInv, PutInv, Holders, Landing, OneAtATime, Cmd
    <2>5. FileTypes'  BY <2>1 DEF Take, Load, IInv, FileTypes, review, raw
    <2>6. QED  BY <2>2, <2>4, <2>5 DEF IInv
  <1>3. QED  BY <1>1, <1>2

LEMMA StoreTakenKeeps ==
    ASSUME OneAtATime, IInv, NEW x \in Procs, StoreTaken(x)
    PROVE  IInv'
  <1> DEFINE p == job[x].p
  <1>1. /\ p \in Proposals /\ held[x] = {} /\ put[x] = {} /\ mem[x] = queue /\ queue[p] > 0
    BY DEF StoreTaken, At, IInv, CommandInv, PutInv, ReadInv, Holders
  <1>2. CASE Stop(x) /\ UNCHANGED queue
    BY <1>2, StopKeeps DEF StoreTaken, IInv, FileTypes, raw
  <1>3. CASE ~(Stop(x) /\ UNCHANGED queue)
    <2>1. /\ queue' = [queue EXCEPT ![p] = @ - 1]
          /\ held' = [held EXCEPT ![x] = {p}]
          /\ pc' = [pc EXCEPT ![x] = IF Cmd(x) = "reject" THEN "record" ELSE FirstOf(p)]
          /\ UNCHANGED <<job, batch, mem, put, submitted, lost>>
      BY <1>1, <1>3 DEF StoreTaken, Minus
    <2>2. OwnTypes'  BY <1>1, <2>1 DEF IInv, OwnTypes, Steps, Holders, FirstOf
    <2>3. /\ held'[x] = {p} /\ put'[x] = {} /\ pc'[x] \in {"record", "look", "put"}
          /\ pc'[x] # "record" => Cmd(x) # "reject"
          /\ pc'[x] = "put" => p.kind # "edge"
          /\ pc'[x] = "look" => p.kind = "edge"
      BY <1>1, <2>1 DEF IInv, OwnTypes, FirstOf
    <2>4. The(x)' = p  BY <1>1, <2>3 DEF The
    <2>5. CommandInv' /\ ReadInv' /\ PutInv'
      BY <1>1, <2>1, <2>3, <2>4 DEF IInv, CommandInv, ReadInv, PutInv, Holders, Landing, OneAtATime, Cmd
    <2>6. FileTypes'
      <3>1. queue' \in [Proposals -> Nat]  BY <1>1, <2>1 DEF IInv, FileTypes
      <3>2. QED  BY <2>1, <3>1 DEF StoreTaken, IInv, FileTypes, raw
    <2>7. QED  BY <2>2, <2>5, <2>6 DEF IInv
  <1>4. QED  BY <1>2, <1>3

(* A step that only moves on, or reads a file, to a step in which the      *)
(* command still holds its proposal.                                       *)
LEMMA GoOnKeeps ==
    ASSUME OneAtATime, IInv, NEW x \in Procs, NEW step, UNCHANGED <<review, raw>>,
           pc[x] \in Holders, step \in {"put", "putstore", "enqueue", "enqueued", "record", "recorded"},
           \/ Goto(x, step) /\ step \in {"enqueue", "record"}
           \/ Load(x, step, nodes) /\ step = "putstore" /\ pc[x] = "put"
           \/ Load(x, step, queue) /\ step = "enqueued"
           \/ Load(x, step, ledger) /\ step = "recorded"
    PROVE  IInv'
  <1>1. OwnTypes'
    BY DEF Goto, Load, IInv, OwnTypes, Steps, Holders
  <1>2. /\ pc'[x] = step /\ held' = held /\ put' = put /\ job' = job /\ batch' = batch
        /\ step = "putstore" => mem'[x] = nodes
        /\ step = "enqueued" => mem'[x] = queue
        /\ step = "recorded" => mem'[x] = ledger
    BY DEF Goto, Load, IInv, OwnTypes
  <1>3. The(x)' = The(x)  BY <1>2 DEF The
  <1>4. CommandInv'
    BY <1>2 DEF IInv, CommandInv, Holders, Landing, OneAtATime, Cmd, Goto
  <1>5. step # "put"
    OBVIOUS
  <1>6. ReadInv' /\ PutInv'
    BY <1>2, <1>3, <1>5 DEF IInv, ReadInv, PutInv, Holders, OneAtATime, review, Goto
  <1>7. FileTypes'
    BY DEF Goto, Load, IInv, FileTypes, review, raw
  <1>8. QED  BY <1>1, <1>4, <1>6, <1>7 DEF IInv

LEMMA LookKeeps ==
    ASSUME OneAtATime, IInv, NEW x \in Procs, Look(x)
    PROVE  IInv'
  <1> DEFINE p == The(x)
  <1>0. pc[x] = "look" /\ pc[x] \in Holders /\ UNCHANGED <<review, raw>>  BY DEF Look, At, Holders
  <1>1. PICK q \in Proposals : held[x] = {q}  BY <1>0 DEF IInv, CommandInv
  <1>2. p = q  BY <1>1, TheOne
  <1>3. CASE nodes[p.from] = Absent \/ p.target \in nodes[p.from]
    <2>1. Goto(x, "enqueue") \/ Goto(x, "record")  BY <1>3 DEF Look
    <2>2. QED  BY <1>0, <2>1, GoOnKeeps
  <1>4. CASE ~(nodes[p.from] = Absent \/ p.target \in nodes[p.from])
    <2>1. /\ pc' = [pc EXCEPT ![x] = "put"]
          /\ put' = [put EXCEPT ![x] = nodes[p.from] \cup {p.target}]
          /\ UNCHANGED <<job, batch, held, mem, submitted, lost>>
      BY <1>4 DEF Look
    <2>a. p \in Proposals /\ p.kind = "edge"  BY <1>0, <1>2 DEF IInv, PutInv
    <2>b. p.from \in Nodes /\ p.target \in Nodes  BY <2>a DEF Proposals
    <2>c. nodes[p.from] \in SUBSET Nodes  BY <1>4, <2>b DEF IInv, FileTypes
    <2>2. put' \in [Procs -> SUBSET Nodes]
      BY <2>1, <2>b, <2>c DEF IInv, OwnTypes
    <2>3. OwnTypes'  BY <2>1, <2>2 DEF IInv, OwnTypes, Steps, Holders
    <2>4. pc'[x] = "put" /\ put'[x] = nodes[p.from] \cup {p.target}  BY <2>1 DEF IInv, OwnTypes
    <2>5. The(x)' = p  BY <2>1 DEF The
    <2>6. CommandInv' /\ ReadInv'
      BY <1>0, <2>1, <2>4 DEF IInv, CommandInv, ReadInv, Holders, Landing, OneAtATime, Cmd
    <2>7. PutInv'
      <3>1. nodes' = nodes  BY <1>0 DEF review
      <3>2. pc'[x] = "put"  BY <2>4
      <3>3. The(x)'.kind = "edge" /\ nodes'[p.from] # Absent  BY <1>4, <2>5, <2>a, <3>1
      <3>4. QED  BY <2>4, <2>5, <3>1, <3>2, <3>3 DEF PutInv, OneAtATime
    <2>8. FileTypes'  BY <1>0, <2>1 DEF IInv, FileTypes, review, raw
    <2>9. QED  BY <2>3, <2>6, <2>7, <2>8 DEF IInv
  <1>5. QED  BY <1>3, <1>4

LEMMA PutLoadKeeps ==
    ASSUME OneAtATime, IInv, NEW x \in Procs, PutLoad(x)
    PROVE  IInv'
  BY GoOnKeeps DEF PutLoad, At, Holders

LEMMA PutStoreKeeps ==
    ASSUME OneAtATime, IInv, NEW x \in Procs, PutStore(x)
    PROVE  IInv'
  <1>0. pc[x] = "putstore" /\ pc[x] \in Holders  BY DEF PutStore, At, Holders
  <1>1. CASE Goto(x, "enqueue") /\ UNCHANGED nodes
    BY <1>0, <1>1, GoOnKeeps DEF PutStore, review, raw
  <1>2. CASE nodes' = [mem[x] EXCEPT ![The(x).from] = put[x]] /\ Goto(x, "record")
    <2>1. nodes' \in [Nodes -> {Absent} \cup SUBSET Nodes]
      BY <1>0, <1>2 DEF IInv, FileTypes, OwnTypes, ReadInv
    <2>2. FileTypes'  BY <1>2, <2>1 DEF PutStore, Goto, IInv, FileTypes, raw
    <2>3. OwnTypes'  BY <1>2 DEF Goto, IInv, OwnTypes, Steps, Holders
    <2>4. pc'[x] = "record"  BY <1>2 DEF Goto, IInv, OwnTypes
    <2>5. CommandInv'
      BY <1>0, <1>2, <2>4 DEF Goto, IInv, CommandInv, Holders, Landing, OneAtATime, Cmd
    <2>6. ReadInv' /\ PutInv'  BY <2>4 DEF ReadInv, PutInv, OneAtATime
    <2>7. QED  BY <2>2, <2>3, <2>5, <2>6 DEF IInv
  <1>3. QED  BY <1>1, <1>2 DEF PutStore

LEMMA EnqueueKeeps ==
    ASSUME OneAtATime, IInv, NEW x \in Procs, Enqueue(x)
    PROVE  IInv'
  BY GoOnKeeps DEF Enqueue, At, Holders

LEMMA EnqueueStoreKeeps ==
    ASSUME OneAtATime, IInv, NEW x \in Procs, EnqueueStore(x)
    PROVE  IInv'
  <1>1. PICK p \in Proposals : held[x] = {p}
    BY DEF EnqueueStore, At, IInv, CommandInv, Holders
  <1>2. CASE Stop(x) /\ UNCHANGED queue
    BY <1>2, StopKeeps DEF EnqueueStore, IInv, FileTypes, raw
  <1>3. CASE queue' = Plus(mem[x], The(x)) /\ Settle(x)
    <2>1. queue' = [queue EXCEPT ![p] = @ + 1]
      BY <1>1, <1>3, TheOne DEF EnqueueStore, At, IInv, ReadInv, Plus
    <2>2. queue' \in [Proposals -> Nat]  BY <2>1 DEF IInv, FileTypes
    <2>3. FileTypes'  BY <1>3, <2>2 DEF EnqueueStore, Settle, IInv, FileTypes, raw
    <2>4. QED  BY <1>3, <2>3, SettleKeeps DEF IInv
  <1>4. QED  BY <1>2, <1>3 DEF EnqueueStore

LEMMA RecordKeeps ==
    ASSUME OneAtATime, IInv, NEW x \in Procs, Record(x)
    PROVE  IInv'
  BY GoOnKeeps DEF Record, At, Holders

(* What is recorded, by which decision.                                    *)
Decision(x) == <<The(x), IF Cmd(x) = "reject" THEN "rejected" ELSE "accepted">>

LEMMA RecordStoreKeeps ==
    ASSUME OneAtATime, IInv, NEW x \in Procs, RecordStore(x)
    PROVE  IInv'
  <1>1. PICK p \in Proposals : held[x] = {p}
    BY DEF RecordStore, At, IInv, CommandInv, Holders
  <1>2. CASE Stop(x) /\ UNCHANGED ledger
    BY <1>2, StopKeeps DEF RecordStore, IInv, FileTypes, raw
  <1>3. CASE ledger' = Plus(mem[x], Decision(x)) /\ Settle(x)
    <2>1. Decision(x) \in Decisions
      BY <1>1, TheOne DEF Decision, Decisions
    <2>2. ledger' = [ledger EXCEPT ![Decision(x)] = @ + 1]
      BY <1>3 DEF RecordStore, At, IInv, ReadInv, Plus
    <2>3. ledger' \in [Decisions -> Nat]  BY <2>1, <2>2 DEF IInv, FileTypes
    <2>4. FileTypes'  BY <1>3, <2>3 DEF RecordStore, Settle, IInv, FileTypes, raw
    <2>5. QED  BY <1>3, <2>4, SettleKeeps DEF IInv
  <1>4. QED  BY <1>2, <1>3 DEF RecordStore, Decision

LEMMA LoadManifestKeeps ==
    ASSUME OneAtATime, IInv, NEW x \in Procs, LoadManifest(x)
    PROVE  IInv'
  <1>1. CASE Stop(x)
    BY <1>1, StopKeeps DEF LoadManifest, IInv, FileTypes, review, raw
  <1>2. CASE ~Stop(x)
    <2>1. Load(x, "content", manifest) /\ ~Seen(job[x].p, manifest) /\ UNCHANGED <<review, raw>>
      BY <1>2 DEF LoadManifest
    <2>2. OwnTypes'  BY <2>1 DEF Load, IInv, OwnTypes, Steps, Landing
    <2>3. /\ pc'[x] = "content" /\ mem'[x] = manifest /\ manifest' = manifest
          /\ UNCHANGED <<job, batch, held, put>>
      BY <2>1 DEF Load, IInv, OwnTypes, raw
    <2>4. held[x] = {} /\ job[x].p \in Artifacts
      BY DEF LoadManifest, At, IInv, CommandInv, Holders, Landing
    <2>5. CommandInv'
      BY <2>3, <2>4 DEF IInv, CommandInv, Holders, Landing, OneAtATime, Cmd
    <2>6. ReadInv' /\ PutInv'
      BY <2>1, <2>3 DEF ReadInv, PutInv, OneAtATime, Seen
    <2>7. FileTypes'  BY <2>1 DEF Load, IInv, FileTypes, review, raw
    <2>8. QED  BY <2>2, <2>5, <2>6, <2>7 DEF IInv
  <1>3. QED  BY <1>1, <1>2

LEMMA WriteContentKeeps ==
    ASSUME OneAtATime, IInv, NEW x \in Procs, WriteContent(x)
    PROVE  IInv'
  <1> DEFINE c == job[x].p.content
  <1>1. /\ pc[x] = "content" /\ held[x] = {} /\ c \in Contents /\ job[x].p \in Artifacts
        /\ mem[x] = manifest /\ ~Seen(job[x].p, manifest)
    BY DEF WriteContent, At, IInv, CommandInv, ReadInv, Holders, Landing, Artifacts
  <1>2. content' \in [Contents -> {"absent", "torn", "whole"}]
    BY <1>1 DEF WriteContent, IInv, FileTypes
  <1>3. CASE Stop(x)
    BY <1>2, <1>3, StopKeeps DEF WriteContent, IInv, FileTypes, review
  <1>4. CASE Goto(x, "landed") /\ content'[c] # "absent"
    <2>1. OwnTypes'  BY <1>4 DEF Goto, IInv, OwnTypes, Steps, Landing
    <2>2. /\ pc'[x] = "landed" /\ mem' = mem /\ manifest' = manifest
          /\ UNCHANGED <<job, batch, held, put>>
      BY <1>4 DEF WriteContent, Goto, IInv, OwnTypes
    <2>3. CommandInv'
      BY <1>1, <2>2 DEF IInv, CommandInv, Holders, Landing, OneAtATime, Cmd
    <2>4. ReadInv' /\ PutInv'
      BY <1>1, <1>4, <2>2 DEF ReadInv, PutInv, OneAtATime, Seen
    <2>5. FileTypes'  BY <1>2, <1>4 DEF WriteContent, Goto, IInv, FileTypes, review
    <2>6. QED  BY <2>1, <2>3, <2>4, <2>5 DEF IInv
  <1>5. Stop(x) \/ (Goto(x, "landed") /\ content'[c] # "absent")
    BY <1>1 DEF WriteContent, IInv, FileTypes
  <1>6. QED  BY <1>3, <1>4, <1>5

LEMMA StoreManifestKeeps ==
    ASSUME OneAtATime, IInv, NEW x \in Procs, StoreManifest(x)
    PROVE  IInv'
  <1>1. job[x].p \in Artifacts /\ mem[x] = manifest
    BY DEF StoreManifest, At, IInv, CommandInv, ReadInv, Landing
  <1>2. manifest' \subseteq Artifacts
    BY <1>1 DEF StoreManifest, IInv, FileTypes
  <1>3. QED
    BY <1>2, StopKeeps DEF StoreManifest, IInv, FileTypes, review

LEMMA NextKeeps ==
    ASSUME OneAtATime, IInv, [Next]_vars
    PROVE  IInv'
  <1>1. ASSUME NEW x \in Procs, Crash(x) PROVE IInv'
    BY <1>1, StopKeeps DEF Crash, IInv, FileTypes, review, raw
  <1>2. CASE UNCHANGED vars
    <2>1. FileTypes' /\ OwnTypes'
      BY <1>2 DEF vars, review, raw, own, IInv, FileTypes, OwnTypes
    <2>2. CommandInv'
      BY <1>2 DEF vars, own, IInv, CommandInv, Cmd
    <2>3. ReadInv'
      BY <1>2 DEF vars, review, raw, own, IInv, ReadInv, Seen
    <2>4. \A x \in Procs : The(x)' = The(x)
      BY <1>2 DEF vars, own, The
    <2>5. PutInv'
      BY <1>2, <2>4 DEF vars, review, own, IInv, PutInv
    <2>6. QED  BY <2>1, <2>2, <2>3, <2>5 DEF IInv
  <1>3. QED
    BY <1>1, <1>2, BeginKeeps, NextItemKeeps, TakeKeeps, StoreTakenKeeps, LookKeeps, PutLoadKeeps,
       PutStoreKeeps, EnqueueKeeps, EnqueueStoreKeeps, RecordKeeps, RecordStoreKeeps,
       LoadManifestKeeps, WriteContentKeeps, StoreManifestKeeps DEF Next

(* Every variable keeps its type, and no command that is between two       *)
(* proposals holds one.                                                    *)
THEOREM TypeCorrect == ASSUME OneAtATime PROVE Spec => []TypeOK
  <1>1. Spec => []IInv
    BY InitInv, NextKeeps, PTL DEF Spec
  <1>2. QED  BY <1>1, TypeFollows, PTL

-----------------------------------------------------------------------------
(* No proposal is lost or decided twice.                                   *)

(* The balance of one proposal, with the process that may hold it.         *)
Balance(x, p) ==
    submitted[p] = Times(p) + (IF p \in held[x] THEN 1 ELSE 0) + lost[p]

LEMMA BalanceIsConserved ==
    ASSUME OneAtATime, NEW x \in Procs
    PROVE  /\ ProposalsConserved <=> \A p \in Proposals : Balance(x, p)
           /\ ProposalsConserved' <=> \A p \in Proposals : Balance(x, p)'
  <1>1. \A p : Holding(p) = IF p \in held[x] THEN 1 ELSE 0
    BY HoldingOne DEF Holding
  <1>2. \A p : Holding(p)' = IF p \in held'[x] THEN 1 ELSE 0
    BY HoldingOne DEF Holding
  <1>3. QED  BY <1>1, <1>2 DEF ProposalsConserved, Balance

(* The amounts in the balance are numbers.                                 *)
LEMMA Amounts ==
    ASSUME IInv, NEW p \in Proposals
    PROVE  /\ queue[p] \in Nat /\ submitted[p] \in Nat /\ lost[p] \in Nat
           /\ ledger[<<p, "accepted">>] \in Nat /\ ledger[<<p, "rejected">>] \in Nat
  <1>1. <<p, "accepted">> \in Decisions /\ <<p, "rejected">> \in Decisions  BY DEF Decisions
  <1>2. QED  BY <1>1 DEF IInv, FileTypes

LEMMA StopBalances ==
    ASSUME IInv, NEW x \in Procs, NEW p \in Proposals, Balance(x, p),
           Stop(x), UNCHANGED <<queue, ledger>>
    PROVE  Balance(x, p)'
  <1>1. held'[x] = {} /\ submitted' = submitted  BY DEF Stop, IInv, OwnTypes
  <1>2. Times(p)' = Times(p)  BY DEF Times
  <1>3. CASE held[x] = {}
    BY <1>1, <1>2, <1>3 DEF Balance, Stop
  <1>4. CASE held[x] # {}
    <2>1. PICK q \in Proposals : held[x] = {q}  BY <1>4 DEF IInv, CommandInv
    <2>2. lost' = [lost EXCEPT ![q] = @ + 1]  BY <1>4, <2>1, TheOne DEF Stop, Plus
    <2>3. lost'[p] = IF p = q THEN lost[p] + 1 ELSE lost[p]  BY <2>2 DEF IInv, FileTypes
    <2>4. QED  BY <1>1, <1>2, <2>1, <2>3, Amounts DEF Balance, Times
  <1>5. QED  BY <1>3, <1>4

LEMMA NextItemBalances ==
    ASSUME OneAtATime, IInv, NEW x \in Procs, NEW p \in Proposals, Balance(x, p), NextItem(x)
    PROVE  Balance(x, p)'
  <1> DEFINE q == Head(batch[x]).p
  <1>1. q \in Proposals /\ held[x] = {}  BY NextItemKeeps
  <1>2. held'[x] = {q} /\ submitted' = [submitted EXCEPT ![q] = @ + 1]
    BY <1>1 DEF NextItem, Plus, IInv, OwnTypes
  <1>3. submitted'[p] = IF p = q THEN submitted[p] + 1 ELSE submitted[p]
    BY <1>2 DEF IInv, FileTypes
  <1>4. Times(p)' = Times(p) /\ lost' = lost  BY DEF NextItem, review, Times
  <1>5. QED  BY <1>1, <1>2, <1>3, <1>4, Amounts DEF Balance, Times

LEMMA StoreTakenBalances ==
    ASSUME OneAtATime, IInv, NEW x \in Procs, NEW p \in Proposals, Balance(x, p), StoreTaken(x)
    PROVE  Balance(x, p)'
  <1> DEFINE q == job[x].p
  <1>1. /\ q \in Proposals /\ held[x] = {} /\ mem[x] = queue
    BY DEF StoreTaken, At, IInv, CommandInv, ReadInv, Holders
  <1>2. CASE Stop(x) /\ UNCHANGED queue
    BY <1>2, StopBalances DEF StoreTaken
  <1>3. CASE ~(Stop(x) /\ UNCHANGED queue)
    <2>1. queue' = [queue EXCEPT ![q] = @ - 1] /\ held'[x] = {q} /\ UNCHANGED <<ledger, submitted, lost>>
      BY <1>1, <1>3 DEF StoreTaken, Minus, IInv, OwnTypes
    <2>2. queue'[p] = IF p = q THEN queue[p] - 1 ELSE queue[p]  BY <2>1 DEF IInv, FileTypes
    <2>3. QED  BY <1>1, <2>1, <2>2, Amounts DEF Balance, Times
  <1>4. QED  BY <1>2, <1>3

LEMMA EnqueueBalances ==
    ASSUME OneAtATime, IInv, NEW x \in Procs, NEW p \in Proposals, Balance(x, p), EnqueueStore(x)
    PROVE  Balance(x, p)'
  <1>1. PICK q \in Proposals : held[x] = {q}
    BY DEF EnqueueStore, At, IInv, CommandInv, Holders
  <1>2. CASE Stop(x) /\ UNCHANGED queue
    BY <1>2, StopBalances DEF EnqueueStore
  <1>3. CASE queue' = Plus(mem[x], The(x)) /\ Settle(x)
    <2>1. queue' = [queue EXCEPT ![q] = @ + 1]
      BY <1>1, <1>3, TheOne DEF EnqueueStore, At, IInv, ReadInv, Plus
    <2>2. held'[x] = {} /\ UNCHANGED <<ledger, submitted, lost>>
      BY <1>3 DEF EnqueueStore, Settle, IInv, OwnTypes
    <2>3. queue'[p] = IF p = q THEN queue[p] + 1 ELSE queue[p]  BY <2>1 DEF IInv, FileTypes
    <2>4. QED  BY <1>1, <2>2, <2>3, Amounts DEF Balance, Times
  <1>4. QED  BY <1>2, <1>3 DEF EnqueueStore

(* Recording adds one to one decision on the proposal held.                *)
LEMMA Recorded ==
    ASSUME IInv, NEW x \in Procs, RecordStore(x), Settle(x), ledger' = Plus(mem[x], Decision(x)),
           NEW q \in Proposals, held[x] = {q}, NEW d \in Decisions
    PROVE  ledger'[d] = IF d = Decision(x) THEN ledger[d] + 1 ELSE ledger[d]
  <1>1. ledger' = [ledger EXCEPT ![Decision(x)] = @ + 1]
    BY DEF RecordStore, At, IInv, ReadInv, Plus
  <1>2. QED  BY <1>1 DEF IInv, FileTypes

LEMMA RecordBalances ==
    ASSUME OneAtATime, IInv, NEW x \in Procs, NEW p \in Proposals, Balance(x, p), RecordStore(x)
    PROVE  Balance(x, p)'
  <1>1. PICK q \in Proposals : held[x] = {q}
    BY DEF RecordStore, At, IInv, CommandInv, Holders
  <1>2. CASE Stop(x) /\ UNCHANGED ledger
    BY <1>2, StopBalances DEF RecordStore
  <1>3. CASE ledger' = Plus(mem[x], Decision(x)) /\ Settle(x)
    <2> DEFINE a == <<p, "accepted">>
               r == <<p, "rejected">>
    <2>1. a \in Decisions /\ r \in Decisions  BY DEF Decisions
    <2>2. Decision(x) \in {<<q, "accepted">>, <<q, "rejected">>}
      BY <1>1, TheOne DEF Decision
    <2>3. /\ ledger'[a] = IF a = Decision(x) THEN ledger[a] + 1 ELSE ledger[a]
          /\ ledger'[r] = IF r = Decision(x) THEN ledger[r] + 1 ELSE ledger[r]
      BY <1>1, <1>3, <2>1, Recorded
    <2>4. ledger'[a] + ledger'[r] = ledger[a] + ledger[r] + (IF p = q THEN 1 ELSE 0)
      BY <2>2, <2>3, Amounts
    <2>5. held'[x] = {} /\ UNCHANGED <<queue, submitted, lost>>
      BY <1>3 DEF RecordStore, Settle, IInv, OwnTypes
    <2>6. ledger'[a] \in Nat /\ ledger'[r] \in Nat  BY <2>3, Amounts
    <2>7. QED  BY <1>1, <2>4, <2>5, <2>6, Amounts DEF Balance, Times
  <1>4. QED  BY <1>2, <1>3 DEF RecordStore, Decision

(* All other steps leave the amounts alone, or end the command.            *)
LEMMA OthersBalance ==
    ASSUME OneAtATime, IInv, NEW x \in Procs, NEW p \in Proposals, Balance(x, p),
           \/ Begin(x) \/ Take(x) \/ Look(x) \/ PutLoad(x) \/ PutStore(x) \/ Enqueue(x) \/ Record(x)
           \/ LoadManifest(x) \/ WriteContent(x) \/ StoreManifest(x) \/ Crash(x)
    PROVE  Balance(x, p)'
  <1>1. UNCHANGED <<queue, ledger>>
    BY DEF Begin, Take, Look, PutLoad, PutStore, Enqueue, Record, LoadManifest, WriteContent,
           StoreManifest, Crash, review
  <1>2. Stop(x) \/ UNCHANGED <<held, submitted, lost>>
    BY DEF Begin, Take, Look, PutLoad, PutStore, Enqueue, Record, LoadManifest, WriteContent,
           StoreManifest, Crash, Goto, Load
  <1>3. CASE UNCHANGED <<held, submitted, lost>>
    BY <1>1, <1>3 DEF Balance, Times
  <1>4. QED  BY <1>1, <1>2, <1>3, StopBalances

LEMMA ConservedByStep ==
    ASSUME OneAtATime, IInv, ProposalsConserved, [Next]_vars
    PROVE  ProposalsConserved'
  <1>1. CASE UNCHANGED vars
    BY <1>1 DEF vars, review, own, ProposalsConserved, Times, Holding
  <1>2. ASSUME NEW x \in Procs,
               \/ Begin(x) \/ NextItem(x) \/ Take(x) \/ StoreTaken(x) \/ Look(x) \/ PutLoad(x)
               \/ PutStore(x) \/ Enqueue(x) \/ EnqueueStore(x) \/ Record(x) \/ RecordStore(x)
               \/ LoadManifest(x) \/ WriteContent(x) \/ StoreManifest(x) \/ Crash(x)
        PROVE  ProposalsConserved'
    <2>1. ASSUME NEW p \in Proposals PROVE Balance(x, p)'
      <3>1. Balance(x, p)  BY BalanceIsConserved
      <3>2. QED
        BY <1>2, <3>1, NextItemBalances, StoreTakenBalances, EnqueueBalances, RecordBalances,
           OthersBalance
    <2>2. QED  BY <2>1, BalanceIsConserved
  <1>3. QED  BY <1>1, <1>2 DEF Next

(* Whatever fails, and whenever the process dies, every proposal that was  *)
(* submitted is in the queue or has one decision in the ledger, unless its *)
(* command ended early while it held it (Submit, Accept, Reject).          *)
THEOREM Conservation == ASSUME OneAtATime PROVE Spec => []ProposalsConserved
  <1>1. Init => ProposalsConserved
    <2>1. ASSUME Init, NEW p \in Proposals PROVE Holding(p) = 0
      <3>1. {x \in Procs : p \in held[x]} = {}  BY <2>1 DEF Init
      <3>2. QED  BY <3>1, FS_EmptySet DEF Holding
    <2>2. QED  BY <2>1 DEF Init, ProposalsConserved, Times, Zero, Decisions
  <1>2. QED
    BY <1>1, InitInv, NextKeeps, ConservedByStep, PTL DEF Spec

-----------------------------------------------------------------------------
(* What is in the graph has an accepted decision.                          *)

InGraph(p) ==
    /\ nodes[p.from] # Absent
    /\ p.kind = "edge" => p.target \in nodes[p.from]

(* Accepted, or just applied and about to be recorded as accepted, or its  *)
(* command ended early.                                                    *)
Approved(p) ==
    \/ ledger[<<p, "accepted">>] > 0
    \/ lost[p] > 0
    \/ \E x \in Procs : p \in held[x] /\ pc[x] \in {"record", "recorded"} /\ Cmd(x) # "reject"

GraphInv == \A p \in Proposals : InGraph(p) => Approved(p)

LEMMA GraphInvImplies == ASSUME OneAtATime, GraphInv PROVE Provenance
  <1>1. ASSUME NEW x \in Procs, NEW p \in held[x] PROVE Holding(p) > 0
    BY HoldingOne DEF Holding
  <1>2. QED  BY <1>1 DEF GraphInv, InGraph, Approved, Provenance

(* A command that ends may only make the held proposal a lost one.         *)
LEMMA StopApproves ==
    ASSUME OneAtATime, IInv, NEW x \in Procs, NEW p \in Proposals, Approved(p), Stop(x),
           ledger'[<<p, "accepted">>] = ledger[<<p, "accepted">>]
    PROVE  Approved(p)'
  <1>1. CASE ledger[<<p, "accepted">>] > 0
    BY <1>1 DEF Approved
  <1>2. CASE held[x] = {}
    BY <1>2 DEF Approved, Stop, OneAtATime
  <1>3. CASE held[x] # {} /\ (lost[p] > 0 \/ p \in held[x])
    <2>1. PICK q \in Proposals : held[x] = {q}  BY <1>3 DEF IInv, CommandInv
    <2>2. lost' = [lost EXCEPT ![q] = @ + 1]  BY <1>3, <2>1, TheOne DEF Stop, Plus
    <2>3. lost'[p] = IF p = q THEN lost[p] + 1 ELSE lost[p]  BY <2>2 DEF IInv, FileTypes
    <2>a. lost[p] \in Nat  BY Amounts
    <2>4. lost'[p] > 0  BY <1>3, <2>1, <2>3, <2>a
    <2>5. QED  BY <2>4 DEF Approved
  <1>4. QED  BY <1>1, <1>2, <1>3 DEF Approved, OneAtATime

(* Replacing a node puts into the graph at most the proposal held.         *)
LEMMA PutStoreApproves ==
    ASSUME OneAtATime, IInv, GraphInv, NEW x \in Procs, PutStore(x)
    PROVE  GraphInv'
  <1>0. pc[x] = "putstore"  BY DEF PutStore, At
  <1>1. PICK q \in Proposals : held[x] = {q} /\ The(x) = q
    BY <1>0, TheOne DEF IInv, CommandInv, Holders
  <1>2. UNCHANGED <<ledger, lost, held, job>>
    BY DEF PutStore, Goto
  <1>3. ASSUME NEW p \in Proposals, Approved(p) PROVE Approved(p)'
    BY <1>0, <1>2, <1>3 DEF Approved, OneAtATime
  <1>4. CASE UNCHANGED nodes
    BY <1>3, <1>4 DEF GraphInv, InGraph
  <1>5. CASE nodes' = [mem[x] EXCEPT ![The(x).from] = put[x]] /\ Goto(x, "record")
    <2>1. nodes' = [nodes EXCEPT ![q.from] = put[x]]
      BY <1>0, <1>1, <1>5 DEF IInv, ReadInv
    <2>2. q.from \in Nodes  BY DEF Proposals
    <2>3. /\ q.kind = "edge" => nodes[q.from] # Absent /\ put[x] = nodes[q.from] \cup {q.target}
          /\ q.kind # "edge" => put[x] = {}
      BY <1>0, <1>1 DEF IInv, PutInv
    <2>4. pc'[x] = "record" /\ Cmd(x)' # "reject" /\ q \in held'[x]
      BY <1>0, <1>1, <1>2, <1>5 DEF Goto, IInv, OwnTypes, CommandInv, Cmd
    <2>5. Approved(q)'  BY <2>4 DEF Approved
    <2>6. ASSUME NEW p \in Proposals, InGraph(p)' PROVE p = q \/ InGraph(p)
      <3>1. CASE p.from # q.from
        <4>1. nodes'[p.from] = nodes[p.from]  BY <2>1, <3>1 DEF IInv, FileTypes
        <4>2. QED  BY <2>6, <4>1 DEF InGraph
      <3>2. CASE p.from = q.from
        <4>1. nodes'[p.from] = put[x]  BY <2>1, <2>2, <3>2 DEF IInv, FileTypes
        <4>2. CASE q.kind = "edge"
          BY <2>3, <2>6, <3>2, <4>1, <4>2 DEF InGraph, Proposals
        <4>3. CASE q.kind # "edge"
          BY <2>3, <2>6, <3>2, <4>1, <4>3 DEF InGraph, Proposals
        <4>4. QED  BY <4>2, <4>3
      <3>3. QED  BY <3>1, <3>2
    <2>7. QED  BY <1>3, <2>5, <2>6 DEF GraphInv
  <1>6. QED  BY <1>4, <1>5 DEF PutStore

LEMMA RecordStoreApproves ==
    ASSUME OneAtATime, IInv, NEW x \in Procs, RecordStore(x), NEW p \in Proposals, Approved(p)
    PROVE  Approved(p)'
  <1> DEFINE a == <<p, "accepted">>
  <1>1. PICK q \in Proposals : held[x] = {q} /\ The(x) = q
    BY TheOne DEF RecordStore, At, IInv, CommandInv, Holders
  <1>2. CASE Stop(x) /\ UNCHANGED ledger
    BY <1>2, StopApproves
  <1>3. CASE ledger' = Plus(mem[x], Decision(x)) /\ Settle(x)
    <2>1. a \in Decisions  BY DEF Decisions
    <2>2. ledger'[a] = IF a = Decision(x) THEN ledger[a] + 1 ELSE ledger[a]
      BY <1>1, <1>3, <2>1, Recorded
    <2>3. ledger[a] \in Nat /\ lost' = lost  BY <1>3, Amounts DEF Settle
    <2>4. CASE p \in held[x] /\ Cmd(x) # "reject"
      <3>1. a = Decision(x)  BY <1>1, <2>4 DEF Decision
      <3>2. QED  BY <2>2, <2>3, <3>1 DEF Approved
    <2>5. CASE ledger[a] > 0 \/ lost[p] > 0
      BY <2>2, <2>3, <2>5 DEF Approved
    <2>6. QED  BY <2>4, <2>5 DEF Approved, OneAtATime
  <1>4. QED  BY <1>2, <1>3 DEF RecordStore, Decision

LEMMA OthersApprove ==
    ASSUME OneAtATime, IInv, NEW x \in Procs, NEW p \in Proposals, Approved(p),
           \/ Begin(x) \/ NextItem(x) \/ Take(x) \/ StoreTaken(x) \/ Look(x) \/ PutLoad(x)
           \/ Enqueue(x) \/ EnqueueStore(x) \/ Record(x)
           \/ LoadManifest(x) \/ WriteContent(x) \/ StoreManifest(x) \/ Crash(x)
    PROVE  Approved(p)' /\ UNCHANGED nodes
  <1>1. UNCHANGED <<ledger, nodes>>
    BY DEF Begin, NextItem, Take, StoreTaken, Look, PutLoad, Enqueue, EnqueueStore, Record,
           LoadManifest, WriteContent, StoreManifest, Crash, review
  <1>2. CASE Stop(x)
    BY <1>1, <1>2, StopApproves
  <1>3. CASE ~Stop(x) /\ pc[x] \notin {"record", "recorded"}
    <2>1. lost' = lost
      BY <1>3 DEF Begin, NextItem, Take, StoreTaken, Look, PutLoad, Enqueue, EnqueueStore, Record,
           LoadManifest, WriteContent, StoreManifest, Crash, Goto, Load, Settle
    <2>2. QED  BY <1>1, <1>3, <2>1 DEF Approved, OneAtATime
  <1>4. CASE ~Stop(x) /\ pc[x] \in {"record", "recorded"}
    <2>1. Record(x)
      BY <1>4 DEF Begin, NextItem, Take, StoreTaken, Look, PutLoad, Enqueue, EnqueueStore,
           LoadManifest, WriteContent, StoreManifest, Crash, At
    <2>2. pc'[x] = "recorded" /\ UNCHANGED <<held, job, lost>>
      BY <2>1 DEF Record, Load, IInv, OwnTypes
    <2>3. QED  BY <1>1, <2>2 DEF Approved, OneAtATime, Cmd
  <1>5. QED  BY <1>1, <1>2, <1>3, <1>4

LEMMA ApprovedByStep ==
    ASSUME OneAtATime, IInv, GraphInv, [Next]_vars
    PROVE  GraphInv'
  <1>1. CASE UNCHANGED vars
    BY <1>1 DEF vars, review, own, GraphInv, InGraph, Approved, Cmd
  <1>2. ASSUME NEW x \in Procs, PutStore(x) PROVE GraphInv'
    BY <1>2, PutStoreApproves
  <1>3. ASSUME NEW x \in Procs, RecordStore(x) PROVE GraphInv'
    <2>1. UNCHANGED nodes  BY <1>3 DEF RecordStore
    <2>2. QED  BY <1>3, <2>1, RecordStoreApproves DEF GraphInv, InGraph
  <1>4. ASSUME NEW x \in Procs,
           \/ Begin(x) \/ NextItem(x) \/ Take(x) \/ StoreTaken(x) \/ Look(x) \/ PutLoad(x)
           \/ Enqueue(x) \/ EnqueueStore(x) \/ Record(x)
           \/ LoadManifest(x) \/ WriteContent(x) \/ StoreManifest(x) \/ Crash(x)
        PROVE  GraphInv'
    <2>1. UNCHANGED nodes
      BY <1>4 DEF Begin, NextItem, Take, StoreTaken, Look, PutLoad, Enqueue, EnqueueStore, Record,
           LoadManifest, WriteContent, StoreManifest, Crash, review
    <2>2. QED  BY <1>4, <2>1, OthersApprove DEF GraphInv, InGraph
  <1>5. QED  BY <1>1, <1>2, <1>3, <1>4 DEF Next

(* What is in the graph has an accepted decision in the ledger, unless the *)
(* command that put it there ended before it recorded it (apply, Record).  *)
THEOREM ProvenanceKept == ASSUME OneAtATime PROVE Spec => []Provenance
  <1>1. Init => GraphInv
    BY DEF Init, GraphInv, InGraph, Proposals
  <1>2. QED
    BY <1>1, InitInv, NextKeeps, ApprovedByStep, GraphInvImplies, PTL DEF Spec

-----------------------------------------------------------------------------
(* Artifacts and edges.                                                    *)

LEMMA LandedOnceByStep ==
    ASSUME OneAtATime, IInv, LandedOnce, [Next]_vars
    PROVE  LandedOnce'
  <1>1. ASSUME NEW x \in Procs, StoreManifest(x) PROVE LandedOnce'
    <2> DEFINE a == job[x].p
    <2>1. /\ pc[x] = "landed" /\ mem[x] = manifest /\ ~Seen(a, manifest)
          /\ content[a.content] # "absent" /\ content' = content
      BY <1>1 DEF StoreManifest, At, IInv, ReadInv
    <2>2. manifest' = manifest \/ manifest' = manifest \cup {a}
      BY <1>1, <2>1 DEF StoreManifest
    <2>3. \A b \in manifest : b.content # a.content /\ (a.cursor = NoCursor \/ b.cursor # a.cursor)
      BY <2>1 DEF Seen
    <2>4. QED  BY <2>1, <2>2, <2>3 DEF LandedOnce
  <1>2. ASSUME NEW x \in Procs, WriteContent(x) PROVE LandedOnce'
    <2>1. manifest' = manifest  BY <1>2 DEF WriteContent
    <2>2. \A b \in manifest : b.content \in Contents
      BY DEF IInv, FileTypes, Artifacts
    <2>3. \A c \in Contents : content[c] # "absent" => content'[c] # "absent"
      BY <1>2 DEF WriteContent, IInv, FileTypes
    <2>4. QED  BY <2>1, <2>2, <2>3 DEF LandedOnce
  <1>3. CASE UNCHANGED raw
    BY <1>3 DEF raw, LandedOnce
  <1>4. (\E x \in Procs : StoreManifest(x) \/ WriteContent(x)) \/ UNCHANGED raw
    BY DEF Next, vars, Begin, NextItem, Take, StoreTaken, Look, PutLoad, PutStore, Enqueue,
           EnqueueStore, Record, RecordStore, LoadManifest, Crash
  <1>5. QED  BY <1>1, <1>2, <1>3, <1>4

(* No content and no position of the source is listed twice, and a listed  *)
(* artifact's file is there (FileRawStore.Land).                           *)
THEOREM LandsOnce == ASSUME OneAtATime PROVE Spec => []LandedOnce
  <1>1. Init => LandedOnce
    BY DEF Init, LandedOnce
  <1>2. QED
    BY <1>1, InitInv, NextKeeps, LandedOnceByStep, PTL DEF Spec

(* Putting an edge on a node keeps the edges it has (AddEdge, Put).        *)
THEOREM EdgesAreKept == ASSUME OneAtATime PROVE Spec => EdgesStay
  <1> DEFINE Kept == \A n, m \in Nodes : nodes[n] # Absent /\ m \in nodes[n]
                       => nodes'[n] # Absent /\ (m \in nodes'[n] \/ \E x \in Procs :
                            At(x, "putstore") /\ The(x).kind = "node" /\ The(x).from = n)
  <1>1. ASSUME IInv, [Next]_vars PROVE [Kept]_vars
    <2>1. CASE UNCHANGED nodes
      BY <2>1
    <2>2. ASSUME NEW x \in Procs, PutStore(x), ~UNCHANGED nodes PROVE Kept
      <3>1. PICK q \in Proposals : held[x] = {q} /\ The(x) = q
        BY <1>1, <2>2, TheOne DEF PutStore, At, IInv, CommandInv, Holders
      <3>2. At(x, "putstore") /\ nodes' = [nodes EXCEPT ![q.from] = put[x]] /\ put[x] \in SUBSET Nodes
        BY <1>1, <2>2, <3>1 DEF PutStore, At, IInv, ReadInv, OwnTypes
      <3>3. q.kind = "edge" => put[x] = nodes[q.from] \cup {q.target}
        BY <1>1, <3>1, <3>2 DEF At, IInv, PutInv
      <3>4. q.kind # "edge" => q.kind = "node"  BY DEF Proposals
      <3>5. put[x] # Absent  BY <3>2, IngestionAssumption
      <3>6. ASSUME NEW n \in Nodes, NEW m \in Nodes, nodes[n] # Absent, m \in nodes[n]
            PROVE  /\ nodes'[n] # Absent
                   /\ m \in nodes'[n] \/ (q.kind = "node" /\ q.from = n)
        BY <1>1, <3>2, <3>3, <3>4, <3>5, <3>6 DEF IInv, FileTypes
      <3>7. QED  BY <3>1, <3>2, <3>6
    <2>3. (\E x \in Procs : PutStore(x)) \/ UNCHANGED nodes
      BY <1>1 DEF Next, vars, review, Begin, NextItem, Take, StoreTaken, Look, PutLoad, Enqueue,
                  EnqueueStore, Record, RecordStore, LoadManifest, WriteContent, StoreManifest, Crash
    <2>4. QED  BY <2>1, <2>2, <2>3
  <1>2. QED
    BY <1>1, InitInv, NextKeeps, PTL DEF Spec, EdgesStay

=============================================================================
