------------------------------- MODULE Memory -------------------------------
(***************************************************************************)
(* The vector memory (internal/memory, core/knowledgeindex.go,             *)
(* cli/memory.go, memory_store.go, mcpserver/graph_tools.go and the two    *)
(* indexing hooks): entries in a SQLite file shared by every process, and  *)
(* in each process that has it open a copy made at the time of opening,    *)
(* which is what its searches see.                                         *)
(*                                                                         *)
(* A statement of SQLite is atomic.  An embedder is its name and its       *)
(* dimensions; of a vector only the embedder that made it is kept, and of  *)
(* a text how near it is to the query.  The graph index is approximate:    *)
(* what it returns for a query is an input of Search.                      *)
(***************************************************************************)
EXTENDS Naturals, FiniteSets, Sequences, SequencesExt, FiniteSetsExt, Sublists

CONSTANTS MemoryProcs,    \* the processes
          Embedders,      \* what flags and configuration may ask for: [name, dim]
          MemoryTasks,    \* the tasks of the backlog
          TicketFiles,    \* the files a ticket has, of those the two indexers look for
          GraphEdges,     \* edges the work graph may have
          MaxTexts,       \* bound: texts, by their nearness to the query
          MaxWants,       \* bound: hits Search asks of the graph index, at least ten times k in the code
          MaxMemoryOps,   \* bound: commands
          MaxMemoryFailures,  \* bound: deaths and failed embeddings
          MaxRewrites     \* bound: edits of the files and of the graph

\* There is a text, and no embedder is the one that is on record when none is.
ASSUME MemoryAssumption ==
    /\ IsFiniteSet(MemoryTasks) /\ IsFiniteSet(TicketFiles) /\ IsFiniteSet(GraphEdges)
    /\ [name |-> "none", dim |-> 0] \notin Embedders
    /\ MaxTexts \in Nat \ {0} /\ MaxWants \in Nat

VARIABLES embedderMeta,   \* the table memory_metadata
          memoryEntries,  \* the table memory_entries, by (namespace, key)
          memoryDB,       \* the database file exists
          ticketText,     \* the text of each ticket file, 0 when missing or empty
          graphEdges,     \* the edges of the work graph
          nested,         \* tickets are in subdirectories of tickets/
          client,         \* the command of each process
          memoryOps, memoryFailures, rewrites

memoryVars == <<embedderMeta, memoryEntries, memoryDB, ticketText, graphEdges, nested, client,
                memoryOps, memoryFailures, rewrites>>

-----------------------------------------------------------------------------

GraphNamespace == <<"graph">>
TicketNamespace(t) == <<"tickets", t>>
EdgeKey(e) == <<GraphNamespace, e>>

\* The files that `adb memory index` looks for, and those TaskCompleted does.
ticketKnowledgeFiles == <<"context.md", "notes.md", "design.md", "knowledge/decisions.yaml">>
taskCompletedFiles == <<"knowledge.yaml", "notes.md", "context.md">>

Texts == 1 .. MaxTexts
EdgeText == MaxTexts
NoEntry == [text |-> 0, by |-> [name |-> "none", dim |-> 0]]
NoMeta == NoEntry.by
EntryKeys == {<<TicketNamespace(t), f>> : t \in MemoryTasks, f \in TicketFiles}
                 \cup {EdgeKey(e) : e \in GraphEdges}
Entries == [text : Texts, by : Embedders] \cup {NoEntry}
NoEntries == [k \in EntryKeys |-> NoEntry]
StoredIn(table) == {k \in DOMAIN table : table[k] # NoEntry}

\* The keys of these files, task by task, that tickets can have.
FileKeys(tasks, names) ==
    Sublist([i \in 1 .. Len(tasks) * Len(names) |->
               <<TicketNamespace(tasks[((i - 1) \div Len(names)) + 1]),
                 names[((i - 1) % Len(names)) + 1]>>], EntryKeys)

\* What the file of an entry holds; the flat layout of tickets/<id> has no
\* file of a nested ticket.
TextOf(k, flat) == IF flat /\ nested THEN 0 ELSE ticketText[k]

NoClient == [pc |-> "idle", cmd |-> "none", embedder |-> NoMeta, nodes |-> NoEntries, todo |-> <<>>,
         text |-> 0, apart |-> FALSE, moved |-> FALSE]
HasOpen(p) == client[p].pc \notin {"idle", "record", "rebuild"}

MemoryTypeOK ==
    /\ embedderMeta \in Embedders \cup {NoMeta}
    /\ memoryEntries \in [EntryKeys -> Entries]
    /\ memoryDB \in BOOLEAN /\ nested \in BOOLEAN
    /\ ticketText \in [EntryKeys -> 0 .. MaxTexts]
    /\ graphEdges \subseteq GraphEdges
    /\ \A p \in MemoryProcs :
          /\ client[p].pc \in {"idle", "record", "rebuild", "next", "graph", "embed", "done"}
          /\ client[p].nodes \in [EntryKeys -> Entries]
          /\ client[p].pc = "idle" <=> client[p] = NoClient
          /\ client[p].pc \in {"next", "graph", "embed"} => client[p].cmd \in {"store", "index", "hook"}

-----------------------------------------------------------------------------

\* Mutant: a store of other dimensions is accepted.
verifyOrRecordByName(meta, e) ==
    IF meta = NoMeta THEN "record"
    ELSE IF meta.name = e.name THEN "rebuild" ELSE "refused"

verifyOrRecordEmbedderMeta(meta, e) ==
    IF meta = NoMeta THEN "record"
    ELSE IF meta = e THEN "rebuild" ELSE "refused"

\* Mutant: what the graph index missed is not looked for.
SearchFromGraph(nodes, ns, k, seen) == {seen}

\* The sets of n of these keys that are nearest to the query.
Nearest(nodes, n, keys) ==
    {s \in kSubset(n, keys) : \A a \in s, b \in keys \ s : nodes[a].text >= nodes[b].text}

\* The hits of Search after the graph index has returned some, of which
\* `seen` are the first k of the namespace: when they are fewer than k, the
\* nearest of the other entries of the namespace fill up.
SearchFrom(nodes, ns, k, seen) ==
    LET rest == {key \in StoredIn(nodes) : key[1] = ns} \ seen
        room == IF Cardinality(rest) < k - Cardinality(seen)
                THEN Cardinality(rest) ELSE k - Cardinality(seen)
    IN  {seen \cup r : r \in Nearest(nodes, room, rest)}

Search(nodes, ns, k, graphHits) ==
    LET own == Sublist(graphHits, {key \in DOMAIN nodes : key[1] = ns})
    IN  SearchFrom(nodes, ns, k, {own[i] : i \in 1 .. (IF Len(own) < k THEN Len(own) ELSE k)})

\* What the graph index may return: its entries, nearest first, all that were
\* asked for when it is exact and any part of them when it is not.
Ordered(nodes, s) ==
    \A i, j \in DOMAIN s : i < j => s[i] # s[j] /\ nodes[s[i]].text >= nodes[s[j]].text
ApproximateHits(nodes) ==
    {s \in BoundedSeq(StoredIn(nodes), MaxWants) : Ordered(nodes, s)}
ExactHits(nodes) ==
    {s \in ApproximateHits(nodes) :
        /\ Len(s) = MaxWants \/ Len(s) = Cardinality(StoredIn(nodes))
        /\ \A i \in DOMAIN s, key \in StoredIn(nodes) \ ToSet(s) :
              nodes[s[i]].text >= nodes[key].text}

ListNamespaces == {k[1] : k \in StoredIn(memoryEntries)}

AllHits(nodes, limit, graphHits) ==
    {all \in SUBSET StoredIn(nodes) :
       /\ \A k \in all : k[1] \in ListNamespaces
       /\ \A ns \in ListNamespaces : {k \in all : k[1] = ns} \in Search(nodes, ns, limit, graphHits)}

\* search_knowledge without a namespace: the hits of every namespace that the
\* database has, looked up in the copy, and the best of them.
searchKnowledge(nodes, limit, graphHits) ==
    UNION {Nearest(nodes, IF Cardinality(all) < limit THEN Cardinality(all) ELSE limit, all) :
           all \in AllHits(nodes, limit, graphHits)}

-----------------------------------------------------------------------------

\* A workspace without a database, or one where an earlier text of each file,
\* and the edges, were indexed.
MemoryInit ==
    /\ \/ /\ embedderMeta = NoMeta /\ memoryEntries = NoEntries /\ memoryDB = FALSE
       \/ \E e \in Embedders :
             /\ embedderMeta = e /\ memoryDB = TRUE
             /\ memoryEntries = [k \in EntryKeys |-> [text |-> MaxTexts, by |-> e]]
    /\ ticketText = [k \in EntryKeys |-> IF k[1] = GraphNamespace THEN 0 ELSE 1]
    /\ graphEdges = GraphEdges
    /\ nested \in BOOLEAN
    /\ client = [p \in MemoryProcs |-> NoClient]
    /\ memoryOps = 0 /\ memoryFailures = 0 /\ rewrites = 0

\* Opening makes the file and the tables, and reads the embedder on record.
OpenSQLiteStore(p, cmd, e) ==
    /\ client[p].pc = "idle"
    /\ memoryOps < MaxMemoryOps
    /\ memoryOps' = memoryOps + 1
    /\ memoryDB' = TRUE
    /\ LET verdict == verifyOrRecordEmbedderMeta(embedderMeta, e)
       IN  client' = [client EXCEPT ![p] = IF verdict = "refused" THEN NoClient
                        ELSE [NoClient EXCEPT !.pc = verdict, !.cmd = cmd, !.embedder = e]]
    /\ UNCHANGED <<embedderMeta, memoryEntries, ticketText, graphEdges, nested, memoryFailures,
                   rewrites>>

\* The first insert wins; a second one breaks the primary key, and that open fails.
RecordEmbedderMeta(p) ==
    /\ client[p].pc = "record"
    /\ IF embedderMeta = NoMeta
       THEN /\ embedderMeta' = client[p].embedder
            /\ client' = [client EXCEPT ![p].pc = "rebuild"]
       ELSE /\ client' = [client EXCEPT ![p] = NoClient]
            /\ UNCHANGED embedderMeta
    /\ UNCHANGED <<memoryEntries, memoryDB, ticketText, graphEdges, nested, memoryOps,
                   memoryFailures, rewrites>>

\* The copy, and what the command works through.  A store, and the transcript
\* of a session, is an upsert of one text; a hook indexes one task.
rebuildIndex(p) ==
    /\ client[p].pc = "rebuild"
    /\ \E t \in MemoryTasks, k \in EntryKeys :
          LET plan == CASE client[p].cmd = "index" ->
                             FileKeys(SetToSeq(MemoryTasks), ticketKnowledgeFiles)
                        [] client[p].cmd = "hook" -> FileKeys(<<t>>, taskCompletedFiles)
                        [] client[p].cmd \in {"store", "delete"} -> <<k>>
                        [] OTHER -> <<>>
          IN  client' = [client EXCEPT ![p].nodes = memoryEntries, ![p].todo = plan,
                           ![p].pc = IF client[p].cmd \in {"index", "hook", "store"} THEN "next"
                                     ELSE "done"]
    /\ UNCHANGED <<embedderMeta, memoryEntries, memoryDB, ticketText, graphEdges, nested,
                   memoryOps, memoryFailures, rewrites>>

\* The next file is read; one that is missing or empty is left out.
indexTaskFiles(p) ==
    /\ client[p].pc = "next"
    /\ client[p].todo # <<>>
    /\ \E text \in IF client[p].cmd = "store" THEN Texts
                   ELSE {TextOf(Head(client[p].todo), client[p].cmd = "hook")} :
          client' = [client EXCEPT ![p] =
             IF text = 0 THEN [@ EXCEPT !.todo = Tail(client[p].todo)]
             ELSE [@ EXCEPT !.pc = "embed", !.text = text]]
    /\ UNCHANGED <<embedderMeta, memoryEntries, memoryDB, ticketText, graphEdges, nested,
                   memoryOps, memoryFailures, rewrites>>

\* After its files, an index goes on with the edges the graph has now.
IndexWorkspace(p) ==
    /\ client[p].pc = "next"
    /\ client[p].todo = <<>>
    /\ client' = [client EXCEPT
          ![p].todo = IF client[p].cmd = "index" THEN SetToSeq({EdgeKey(e) : e \in graphEdges})
                      ELSE <<>>,
          ![p].pc = IF client[p].cmd = "index" /\ graphEdges # {} THEN "graph" ELSE "done"]
    /\ UNCHANGED <<embedderMeta, memoryEntries, memoryDB, ticketText, graphEdges, nested,
                   memoryOps, memoryFailures, rewrites>>

IndexEdge(p) ==
    /\ client[p].pc = "graph"
    /\ client' = [client EXCEPT ![p].pc = IF client[p].todo = <<>> THEN "done" ELSE "embed",
                                ![p].text = EdgeText]
    /\ UNCHANGED <<embedderMeta, memoryEntries, memoryDB, ticketText, graphEdges, nested,
                   memoryOps, memoryFailures, rewrites>>

\* Where a command is after the upsert of the key at the head.
Onward(p) == IF Head(client[p].todo)[1] = GraphNamespace /\ client[p].cmd = "index" THEN "graph" ELSE "next"

\* Everybody else's copy is now apart from the table.
Behind(p) == [q \in MemoryProcs |-> [client[q] EXCEPT !.apart = @ \/ (q # p /\ HasOpen(q))]]

Upsert(p) ==
    /\ client[p].pc = "embed"
    /\ LET entry == [text |-> client[p].text, by |-> client[p].embedder]
           key == Head(client[p].todo)
       IN  /\ memoryEntries' = [memoryEntries EXCEPT ![key] = entry]
           /\ client' = [Behind(p) EXCEPT ![p].pc = Onward(p), ![p].todo = Tail(@),
                                          ![p].nodes = [@ EXCEPT ![key] = entry]]
    /\ UNCHANGED <<embedderMeta, memoryDB, ticketText, graphEdges, nested, memoryOps,
                   memoryFailures, rewrites>>

\* The provider does not answer, or the database is busy for too long.  The
\* hook logs it and goes on with its next file; the commands end.
EmbedFails(p) ==
    /\ client[p].pc = "embed"
    /\ memoryFailures < MaxMemoryFailures
    /\ memoryFailures' = memoryFailures + 1
    /\ client' = [client EXCEPT ![p] =
          IF client[p].cmd = "hook"
          THEN [@ EXCEPT !.pc = "next", !.todo = Tail(client[p].todo)] ELSE NoClient]
    /\ UNCHANGED <<embedderMeta, memoryEntries, memoryDB, ticketText, graphEdges, nested, memoryOps,
                   rewrites>>

DeleteEntry(p) ==
    /\ client[p].pc = "done" /\ client[p].cmd = "delete" /\ client[p].todo # <<>>
    /\ LET key == Head(client[p].todo)
       IN  /\ memoryEntries' = [memoryEntries EXCEPT ![key] = NoEntry]
           /\ client' = [Behind(p) EXCEPT ![p].todo = <<>>,
                                          ![p].nodes = [@ EXCEPT ![key] = NoEntry]]
    /\ UNCHANGED <<embedderMeta, memoryDB, ticketText, graphEdges, nested, memoryOps,
                   memoryFailures, rewrites>>

\* A search and a list only read, then every command closes.
CloseStore(p) ==
    /\ client[p].pc = "done" /\ client[p].todo = <<>>
    /\ client' = [client EXCEPT ![p] = NoClient]
    /\ UNCHANGED <<embedderMeta, memoryEntries, memoryDB, ticketText, graphEdges, nested,
                   memoryOps, memoryFailures, rewrites>>

ClientDies(p) ==
    /\ client[p].pc # "idle"
    /\ memoryFailures < MaxMemoryFailures
    /\ memoryFailures' = memoryFailures + 1
    /\ client' = [client EXCEPT ![p] = NoClient]
    /\ UNCHANGED <<embedderMeta, memoryEntries, memoryDB, ticketText, graphEdges, nested, memoryOps,
                   rewrites>>

\* Tasks, notes and relations change while an index runs.
Rewrite ==
    /\ rewrites < MaxRewrites
    /\ rewrites' = rewrites + 1
    /\ \/ \E k \in EntryKeys, text \in 0 .. MaxTexts :
             /\ k[1] # GraphNamespace /\ text # ticketText[k]
             /\ ticketText' = [ticketText EXCEPT ![k] = text]
             /\ UNCHANGED graphEdges
       \/ \E e \in GraphEdges :
             /\ graphEdges' = (graphEdges \ {e}) \cup ({e} \ graphEdges)
             /\ UNCHANGED ticketText
    /\ client' = [p \in MemoryProcs |-> [client[p] EXCEPT !.moved = @ \/ (HasOpen(p) /\ client[p].cmd = "index")]]
    /\ UNCHANGED <<embedderMeta, memoryEntries, memoryDB, nested, memoryOps, memoryFailures>>

newMemoryStoreCmd(p) == \E e \in Embedders : OpenSQLiteStore(p, "store", e)
newMemorySearchCmd(p) == \E e \in Embedders : OpenSQLiteStore(p, "read", e)
newMemoryDeleteCmd(p) == \E e \in Embedders : OpenSQLiteStore(p, "delete", e)
newMemoryListCmd(p) == \E e \in Embedders : OpenSQLiteStore(p, "read", e)
newMemoryIndexCmd(p) == \E e \in Embedders : OpenSQLiteStore(p, "index", e)

\* search_knowledge does not open a database that is not there.
handleSearchKnowledge(p) == memoryDB /\ \E e \in Embedders : OpenSQLiteStore(p, "read", e)

indexSessionIntoMemory(p) == \E e \in Embedders : OpenSQLiteStore(p, "store", e)
indexTaskIntoMemory(p) == \E e \in Embedders : OpenSQLiteStore(p, "hook", e)

MemoryNext ==
    \/ \E p \in MemoryProcs :
          \/ newMemoryStoreCmd(p) \/ newMemorySearchCmd(p) \/ newMemoryDeleteCmd(p)
          \/ newMemoryListCmd(p) \/ newMemoryIndexCmd(p)
          \/ handleSearchKnowledge(p) \/ indexTaskIntoMemory(p) \/ indexSessionIntoMemory(p)
          \/ RecordEmbedderMeta(p) \/ rebuildIndex(p)
          \/ indexTaskFiles(p) \/ IndexWorkspace(p) \/ IndexEdge(p)
          \/ Upsert(p) \/ EmbedFails(p) \/ DeleteEntry(p) \/ CloseStore(p) \/ ClientDies(p)
    \/ Rewrite

MemorySpec == MemoryInit /\ [][MemoryNext]_memoryVars

-----------------------------------------------------------------------------

\* As long as no other process has written since it was made, the copy that
\* searches use is what the table holds, also in the middle of an index and
\* after deletes and upserts that failed.
CopyIsTable == \A p \in MemoryProcs :
    HasOpen(p) /\ ~client[p].apart => client[p].nodes = memoryEntries

Searching(p) == client[p].pc = "done" /\ client[p].cmd = "read"
Namespaces == {k[1] : k \in EntryKeys}
SmallerOf(m, n) == IF m < n THEN m ELSE n

\* Whatever the graph index misses, a search returns as many entries of its
\* namespace as were asked for, or all there are.
SearchFills == \A p \in MemoryProcs : Searching(p) =>
    LET nodes == client[p].nodes
    IN  \A ns \in Namespaces, k \in 1 .. 2, near \in ApproximateHits(nodes) :
          \A hits \in Search(nodes, ns, k, near) :
             LET mine == {key \in StoredIn(nodes) : key[1] = ns}
             IN  hits \subseteq mine /\ Cardinality(hits) = SmallerOf(k, Cardinality(mine))

\* When the graph index misses nothing of what it is asked for, the hits are
\* the nearest of the namespace, however many entries of other namespaces are
\* nearer and take up the over-fetch.
SearchIsNearest == \A p \in MemoryProcs : Searching(p) =>
    LET nodes == client[p].nodes
    IN  \A ns \in Namespaces, k \in 1 .. 2, near \in ExactHits(nodes) :
          \A hits \in Search(nodes, ns, k, near) :
             \A a \in StoredIn(nodes) \ hits, b \in hits :
                a[1] = ns => nodes[a].text <= nodes[b].text

\* search_knowledge over every namespace finds the nearest of all entries, as
\* long as no other process has written since it opened the database.
KnowledgeIsNearest == \A p \in MemoryProcs : Searching(p) /\ ~client[p].apart =>
    LET nodes == client[p].nodes
    IN  \A limit \in 1 .. 2, near \in ExactHits(nodes) :
          \A hits \in searchKnowledge(nodes, limit, near) :
             hits \in Nearest(nodes, SmallerOf(limit, Cardinality(StoredIn(nodes))), StoredIn(nodes))

\* A search is over what the table holds, finds as many as were asked for, and
\* the nearest, in one namespace and in all.
SearchesAreRight == CopyIsTable /\ SearchFills /\ SearchIsNearest /\ KnowledgeIsNearest

\* Every vector in the database was made by the embedder on record, however
\* the first opens overlap and whatever the flags of later commands say.
OneEmbedder == \A k \in StoredIn(memoryEntries) : memoryEntries[k].by = embedderMeta

\* An index that ended without an error, with no other writer and no edit
\* meanwhile, left every ticket file and every edge in the database as it is.
IndexReflects == \A p \in MemoryProcs :
    client[p].pc = "done" /\ client[p].cmd = "index" /\ ~client[p].apart /\ ~client[p].moved =>
        /\ \A k \in EntryKeys : k[2] \in ToSet(ticketKnowledgeFiles) /\ ticketText[k] # 0 =>
              memoryEntries[k].text = ticketText[k]
        /\ \A e \in graphEdges : memoryEntries[EdgeKey(e)].text = EdgeText

\* The database is of one embedder, and holds what was indexed.
IndexIsSound == MemoryTypeOK /\ OneEmbedder /\ IndexReflects
=============================================================================
