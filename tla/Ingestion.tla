------------------------------ MODULE Ingestion ------------------------------
(***************************************************************************)
(* Staged ingestion (core/ingestion.go, storage/ingeststore.go): raw       *)
(* content is landed once, and proposed nodes and edges go through a       *)
(* confidence gate into the graph or into a review queue, from which a     *)
(* reviewer accepts or rejects them.  Queue, decision ledger and node      *)
(* registry are three files.  Each store call loads its file and replaces  *)
(* it whole; a mutex guards it within a process and nothing guards it      *)
(* between processes.                                                      *)
(*                                                                         *)
(* A proposal stands for its id, which proposalID derives from the raw     *)
(* artifact and the payload: submitting it again submits the same id.      *)
(***************************************************************************)
EXTENDS Naturals, Sequences, FiniteSets, Functions

CONSTANTS Procs,
          Nodes, Absent,
          Contents, Cursors, NoCursor,
          Commands,      \* the commands that run
          Faults,        \* the files whose writing may fail, and "crash"
          MaxSubmitted,  \* bound: proposals submitted in all
          MaxBatch       \* bound: proposals in one submission

ASSUME IngestionAssumption ==
    /\ NoCursor \notin Cursors
    /\ \A S \in SUBSET Nodes : S # Absent
    /\ MaxSubmitted \in Nat /\ MaxBatch \in Nat

VARIABLES queue,      \* how often the review queue holds each proposal
          ledger,     \* how often each decision on each proposal is recorded
          nodes,      \* the ingested nodes, each with the targets of its links
          content,    \* the content files below raw/: absent, torn or whole
          manifest,   \* the artifacts the manifest lists
          pc, job,    \* each process's step and command
          batch,      \* what its submission still has to process
          held,       \* {} or the proposal it took or is submitting
          mem,        \* the file it loaded
          put,        \* the links of the node it is about to put
          submitted,  \* history: how often a submission came to each proposal
          lost        \* history: how often one was held when its command ended early

review == <<queue, ledger, nodes>>
raw == <<content, manifest>>
own == <<pc, job, batch, held, mem, put>>
vars == <<review, raw, own, submitted, lost>>

Proposals == [kind : {"node"}, from : Nodes, target : {Absent}]
             \cup [kind : {"edge"}, from : Nodes, target : Nodes]

Decisions == Proposals \X {"accepted", "rejected"}

Artifacts == [content : Contents, cursor : Cursors \cup {NoCursor}]

Plus(bag, x) == [bag EXCEPT ![x] = @ + 1]
Minus(bag, x) == [bag EXCEPT ![x] = @ - 1]
Zero(S) == [x \in S |-> 0]

Total(bag) == FoldFunction(LAMBDA m, n : m + n, 0, bag)

Items == [p : Proposals, sure : BOOLEAN]   \* sure: confidence at or above the threshold
Batches == UNION {[1 .. n -> Items] : n \in 1 .. MaxBatch}

Requests ==
    {j \in [cmd : {"accept", "reject"}, p : Proposals]
       \cup [cmd : {"propose"}, p : {Absent}]
       \cup [cmd : {"land"}, p : Artifacts] : j.cmd \in Commands}

NoJob == [cmd |-> "none", p |-> Absent]

TypeOK ==
    /\ queue \in [Proposals -> Nat]
    /\ ledger \in [Decisions -> Nat]
    /\ nodes \in [Nodes -> {Absent} \cup SUBSET Nodes]
    /\ content \in [Contents -> {"absent", "torn", "whole"}]
    /\ manifest \subseteq Artifacts
    /\ \A x \in Procs : Cardinality(held[x]) <= 1 /\ (held[x] # {} => pc[x] # "idle")
    /\ \A x \in Procs : pc[x] \in {"next", "take", "untake"} => held[x] = {}
    /\ submitted \in [Proposals -> Nat]
    /\ lost \in [Proposals -> Nat]

Init ==
    /\ queue = Zero(Proposals) /\ ledger = Zero(Decisions)
    /\ nodes = [n \in Nodes |-> Absent]
    /\ content = [c \in Contents |-> "absent"] /\ manifest = {}
    /\ pc = [x \in Procs |-> "idle"] /\ job = [x \in Procs |-> NoJob]
    /\ batch = [x \in Procs |-> <<>>] /\ held = [x \in Procs |-> {}]
    /\ mem = [x \in Procs |-> Absent] /\ put = [x \in Procs |-> {}]
    /\ submitted = Zero(Proposals) /\ lost = Zero(Proposals)

-----------------------------------------------------------------------------

At(x, step) == pc[x] = step
Cmd(x) == job[x].cmd
The(x) == CHOOSE p \in Proposals : p \in held[x]

Goto(x, step) ==
    /\ pc' = [pc EXCEPT ![x] = step]
    /\ UNCHANGED <<job, batch, held, mem, put, submitted, lost>>

(* A store call reads its file.                                            *)
Load(x, step, file) ==
    /\ pc' = [pc EXCEPT ![x] = step]
    /\ mem' = [mem EXCEPT ![x] = file]
    /\ UNCHANGED <<job, batch, held, put, submitted, lost>>

(* The command ends, with or without an error; a proposal it still holds   *)
(* is neither in the queue nor in the ledger.                              *)
Stop(x) ==
    /\ pc' = [pc EXCEPT ![x] = "idle"]
    /\ job' = [job EXCEPT ![x] = NoJob]
    /\ batch' = [batch EXCEPT ![x] = <<>>]
    /\ held' = [held EXCEPT ![x] = {}]
    /\ mem' = [mem EXCEPT ![x] = Absent]
    /\ put' = [put EXCEPT ![x] = {}]
    /\ lost' = IF held[x] = {} THEN lost ELSE Plus(lost, The(x))
    /\ UNCHANGED submitted

(* The held proposal found its place; a submission goes on with the next.  *)
Settle(x) ==
    /\ held' = [held EXCEPT ![x] = {}]
    /\ mem' = [mem EXCEPT ![x] = Absent]
    /\ put' = [put EXCEPT ![x] = {}]
    /\ IF batch[x] # <<>>
       THEN pc' = [pc EXCEPT ![x] = "next"] /\ UNCHANGED <<job, batch>>
       ELSE /\ pc' = [pc EXCEPT ![x] = "idle"]
            /\ job' = [job EXCEPT ![x] = NoJob]
            /\ UNCHANGED batch
    /\ UNCHANGED <<submitted, lost>>

Begin(x) ==
    /\ At(x, "idle")
    /\ \E j \in Requests : \E b \in Batches \cup {<<>>} :
         /\ IF j.cmd = "propose" THEN b # <<>> /\ Total(submitted) + Len(b) <= MaxSubmitted
            ELSE b = <<>>
         /\ job' = [job EXCEPT ![x] = j]
         /\ batch' = [batch EXCEPT ![x] = b]
         /\ pc' = [pc EXCEPT ![x] = CASE j.cmd = "propose" -> "next"
                                      [] j.cmd = "land"    -> "manifest"
                                      [] OTHER             -> "take"]
    /\ UNCHANGED <<review, raw, held, mem, put, submitted, lost>>

-----------------------------------------------------------------------------
(* Submit, Accept and Reject.                                              *)

FirstOf(p) == IF p.kind = "edge" THEN "look" ELSE "put"

(* The confidence gate.                                                    *)
NextItem(x) ==
    LET i == Head(batch[x])
    IN  /\ At(x, "next")
        /\ pc' = [pc EXCEPT ![x] = IF i.sure THEN FirstOf(i.p) ELSE "enqueue"]
        /\ held' = [held EXCEPT ![x] = {i.p}]
        /\ batch' = [batch EXCEPT ![x] = Tail(@)]
        /\ submitted' = Plus(submitted, i.p)
        /\ UNCHANGED <<review, raw, job, mem, put, lost>>

(* FileProposalStore.Take.                                                 *)
Take(x) ==
    /\ At(x, "take")
    /\ IF queue[job[x].p] = 0 THEN Stop(x) ELSE Load(x, "untake", queue)
    /\ UNCHANGED <<review, raw>>

StoreTaken(x) ==
    /\ At(x, "untake")
    /\ \/ /\ queue' = Minus(mem[x], job[x].p)
          /\ held' = [held EXCEPT ![x] = {job[x].p}]
          /\ pc' = [pc EXCEPT ![x] = IF Cmd(x) = "reject" THEN "record" ELSE FirstOf(job[x].p)]
          /\ UNCHANGED <<job, batch, mem, put, submitted, lost>>
       \/ "queue" \in Faults /\ Stop(x) /\ UNCHANGED queue
    /\ UNCHANGED <<ledger, nodes, raw>>

\* Mutant: the node is put with the new link alone.
LookAlone(x) ==
    LET p == The(x)
    IN  /\ At(x, "look")
        /\ CASE nodes[p.from] = Absent -> Goto(x, "enqueue")
             [] nodes[p.from] # Absent /\ p.target \in nodes[p.from] -> Goto(x, "record")
             [] OTHER ->
                  /\ pc' = [pc EXCEPT ![x] = "put"]
                  /\ put' = [put EXCEPT ![x] = {p.target}]
                  /\ UNCHANGED <<job, batch, held, mem, submitted, lost>>
        /\ UNCHANGED <<review, raw>>

(* AddEdge: the node an edge starts from must be there; an edge it has     *)
(* already is not written again.                                           *)
Look(x) ==
    LET p == The(x)
    IN  /\ At(x, "look")
        /\ CASE nodes[p.from] = Absent -> Goto(x, "enqueue")
             [] nodes[p.from] # Absent /\ p.target \in nodes[p.from] -> Goto(x, "record")
             [] OTHER ->
                  /\ pc' = [pc EXCEPT ![x] = "put"]
                  /\ put' = [put EXCEPT ![x] = nodes[p.from] \cup {p.target}]
                  /\ UNCHANGED <<job, batch, held, mem, submitted, lost>>
        /\ UNCHANGED <<review, raw>>

(* FileNodeStore.Put replaces the node, with the links it was given: those *)
(* of the edge's source and one more, or none for a proposed node.         *)
PutLoad(x) ==
    /\ At(x, "put")
    /\ Load(x, "putstore", nodes)
    /\ UNCHANGED <<review, raw>>

PutStore(x) ==
    /\ At(x, "putstore")
    /\ \/ /\ nodes' = [mem[x] EXCEPT ![The(x).from] = put[x]]
          /\ Goto(x, "record")
       \/ "nodes" \in Faults /\ Goto(x, "enqueue") /\ UNCHANGED nodes
    /\ UNCHANGED <<queue, ledger, raw>>

(* FileProposalStore.Enqueue: below the threshold, or applying failed.     *)
Enqueue(x) ==
    /\ At(x, "enqueue")
    /\ Load(x, "enqueued", queue)
    /\ UNCHANGED <<review, raw>>

\* Mutant: a proposal that could not be applied is not queued again.
EnqueueNotAgain(x) ==
    /\ At(x, "enqueued")
    /\ IF Cmd(x) = "accept" THEN Settle(x) /\ UNCHANGED queue
       ELSE queue' = Plus(mem[x], The(x)) /\ Settle(x)
    /\ UNCHANGED <<ledger, nodes, raw>>

EnqueueStore(x) ==
    /\ At(x, "enqueued")
    /\ \/ queue' = Plus(mem[x], The(x)) /\ Settle(x)
       \/ "queue" \in Faults /\ Stop(x) /\ UNCHANGED queue
    /\ UNCHANGED <<ledger, nodes, raw>>

(* FileProposalStore.Record.                                               *)
Record(x) ==
    /\ At(x, "record")
    /\ Load(x, "recorded", ledger)
    /\ UNCHANGED <<review, raw>>

\* Mutant: only what a reviewer decided is recorded.
RecordReviewed(x) ==
    LET d == <<The(x), IF Cmd(x) = "reject" THEN "rejected" ELSE "accepted">>
    IN  /\ At(x, "recorded")
        /\ ledger' = IF Cmd(x) = "propose" THEN ledger ELSE Plus(mem[x], d)
        /\ Settle(x)
        /\ UNCHANGED <<queue, nodes, raw>>

RecordStore(x) ==
    LET d == <<The(x), IF Cmd(x) = "reject" THEN "rejected" ELSE "accepted">>
    IN  /\ At(x, "recorded")
        /\ \/ ledger' = Plus(mem[x], d) /\ Settle(x)
           \/ "ledger" \in Faults /\ Stop(x) /\ UNCHANGED ledger
        /\ UNCHANGED <<queue, nodes, raw>>

-----------------------------------------------------------------------------
(* Landing raw content.                                                    *)

\* Mutant: only the position in the source is compared.
SeenAt(a, m) == \E b \in m : a.cursor # NoCursor /\ b.cursor = a.cursor

(* The same content, or the same position of the source.                   *)
Seen(a, m) == \E b \in m : b.content = a.content \/ (a.cursor # NoCursor /\ b.cursor = a.cursor)

LoadManifest(x) ==
    /\ At(x, "manifest")
    /\ IF Seen(job[x].p, manifest) THEN Stop(x) ELSE Load(x, "content", manifest)
    /\ UNCHANGED <<review, raw>>

(* The file is named after its content's hash; one that is there already   *)
(* is taken for whole.  Writing it is not atomic.                          *)
WriteContent(x) ==
    LET c == job[x].p.content
    IN  /\ At(x, "content")
        /\ IF content[c] = "absent"
           THEN \/ content' = [content EXCEPT ![c] = "whole"] /\ Goto(x, "landed")
                \/ "torn" \in Faults /\ content' = [content EXCEPT ![c] = "torn"] /\ Stop(x)
           ELSE Goto(x, "landed") /\ UNCHANGED content
        /\ UNCHANGED <<review, manifest>>

StoreManifest(x) ==
    /\ At(x, "landed")
    /\ \/ manifest' = mem[x] \cup {job[x].p}
       \/ "manifest" \in Faults /\ UNCHANGED manifest
    /\ Stop(x)
    /\ UNCHANGED <<review, content>>

-----------------------------------------------------------------------------

Crash(x) ==
    /\ "crash" \in Faults /\ ~At(x, "idle")
    /\ Stop(x)
    /\ UNCHANGED <<review, raw>>

Next == \E x \in Procs :
    \/ Begin(x) \/ NextItem(x) \/ Take(x) \/ StoreTaken(x) \/ Look(x) \/ PutLoad(x)
    \/ PutStore(x) \/ Enqueue(x) \/ EnqueueStore(x) \/ Record(x) \/ RecordStore(x)
    \/ LoadManifest(x) \/ WriteContent(x) \/ StoreManifest(x) \/ Crash(x)

Spec == Init /\ [][Next]_vars

-----------------------------------------------------------------------------

Times(p) == queue[p] + ledger[<<p, "accepted">>] + ledger[<<p, "rejected">>]
Holding(p) == Cardinality({x \in Procs : p \in held[x]})

(* Every proposal that was submitted is in the queue or has one decision   *)
(* in the ledger, never both and never twice; it is missing only when its  *)
(* command was killed, or told the user that a file could not be written:  *)
(* "a proposal is never silently lost" (core/ingestion.go:68).             *)
ProposalsConserved ==
    \A p \in Proposals : submitted[p] = Times(p) + Holding(p) + lost[p]

(* "Every derived node/edge traces back to its raw artifact"               *)
(* (cli/ingest.go:31-32): what is in the graph has an accepted decision in *)
(* the ledger, which holds an edge's only provenance.                      *)
Provenance ==
    \A p \in Proposals :
        /\ nodes[p.from] # Absent
        /\ p.kind = "edge" => p.target \in nodes[p.from]
        => \/ ledger[<<p, "accepted">>] > 0
           \/ Holding(p) > 0 \/ lost[p] > 0

(* No edge leaves the graph, except with the node it starts from when that *)
(* node is landed again.                                                   *)
EdgesStay ==
    [][\A n, m \in Nodes : nodes[n] # Absent /\ m \in nodes[n]
         => nodes'[n] # Absent /\ (m \in nodes'[n] \/ \E x \in Procs :
                At(x, "putstore") /\ The(x).kind = "node" /\ The(x).from = n)]_vars

(* Two artifacts never have the same content or the same position of their *)
(* source, and a listed artifact's file is there.                          *)
LandedOnce ==
    /\ \A a, b \in manifest : a # b => a.content # b.content
                                       /\ (a.cursor = NoCursor \/ a.cursor # b.cursor)
    /\ \A a \in manifest : content[a.content] # "absent"

=============================================================================
