----------------------------- MODULE AIContext ------------------------------
(***************************************************************************)
(* The context files for AI agents (core/aicontext.go, core/contextgen.go, *)
(* cli/sync.go, cli/init.go).  sync context --rich makes CLAUDE.md section *)
(* by section from the workspace and tells which sections changed since    *)
(* the hashes in the context state file; sync context and sync all write a *)
(* CLAUDE.md without sections; sync task-context writes a ticket's         *)
(* context.md, of which agents are the authors.                            *)
(*                                                                         *)
(* A section's text is a function of what it is made from, and its hash is *)
(* the text, with no collision.  Commands overlap, and die at any step.    *)
(***************************************************************************)
EXTENDS Integers, Sequences, FiniteSets, SequencesExt

CONSTANTS Syncs,        \* the processes that run the commands
          Docs,         \* the documents there can be, from those named below
          ContextTasks, \* the tasks of the backlog
          MaxEdits,     \* bound: changes to what the files are made from
          MaxSyncs      \* bound: commands

VARIABLES docs,      \* the text of each document, 0 when there is none
          active,    \* the tasks that are in progress, in review or blocked
          decisions, \* the tasks with decisions in their ticket
          claude,    \* CLAUDE.md: how it was made, and what it says
          userFile,  \* who wrote .adb/claude-user.md last, or "none"
          notes,     \* what agents wrote in a ticket's context.md
          state,     \* the hashes in the context state file
          stepOf,    \* each process: "idle" or the step it is at
          sections,  \* the sections it has made
          prev,      \* the hashes that it loaded, or the notes it read
          edits, syncs,
          rich,      \* history: the sections of the last rich CLAUDE.md
          alone,     \* history: processes that no other rich sync overlapped
          unsaved    \* history: the state may not be of the last rich CLAUDE.md

contextVars == <<docs, active, decisions, claude, userFile, notes, state, stepOf, sections,
                 prev, edits, syncs, rich, alone, unsaved>>

-----------------------------------------------------------------------------

generateOverview == "text"
generateDirectoryStructure == "text"
DocText(d) == IF d \in Docs THEN docs[d] ELSE 0
generateConventions == DocText("convention")
generateGlossary == DocText("glossary")
\* A decision record's text 1 is not accepted, or proposed.
generateDecisionsSummary == IF DocText("adr") > 1 THEN DocText("adr") ELSE 0
generateActiveTasks == active
generateCriticalDecisions == active \cap decisions
\* The newest of many: a new one changes the section.
generateRecentSessions == DocText("session")
\* The names of sessions/*.yaml.  The session store keeps there its index only.
generateCapturedSessions == IF DocText("captured") > 0 THEN 1 ELSE 0
generateStakeholders == DocText("stakeholders")

SectionNames == <<"overview", "directory", "conventions", "glossary", "decisions",
                  "active_tasks", "critical_decisions", "recent_sessions",
                  "captured_sessions", "stakeholders">>

Section(name) ==
    CASE name = "overview" -> {generateOverview}
      [] name = "directory" -> {generateDirectoryStructure}
      [] name = "conventions" -> {generateConventions}
      [] name = "glossary" -> {generateGlossary}
      [] name = "decisions" -> {generateDecisionsSummary}
      [] name = "active_tasks" -> generateActiveTasks
      [] name = "critical_decisions" -> generateCriticalDecisions
      [] name = "recent_sessions" -> {generateRecentSessions}
      [] name = "captured_sessions" -> {generateCapturedSessions}
      [] OTHER -> {generateStakeholders}

\* Mutant: a section that is new is not a change.
generateWhatsChangedOld(before, now) ==
    {s \in DOMAIN now : s \in DOMAIN before /\ before[s] # now[s]}

\* Both a new section and another text count as a change.
generateWhatsChanged(before, now) ==
    {s \in DOMAIN now : s \notin DOMAIN before \/ before[s] # now[s]}

WithSection(made, name) ==
    [s \in DOMAIN made \cup {name} |-> IF s = name THEN Section(name) ELSE made[s]]

assembleCLAUDEmd(now, changed) == [made |-> "rich", sections |-> now, changed |-> changed]
Without(made) == [made |-> made, sections |-> <<>>, changed |-> {}]

\* No file, and one emptied by a writer that died, hold no hashes.
NoState == <<>>

-----------------------------------------------------------------------------

ContextInit ==
    /\ docs = [d \in Docs |-> 0] /\ active = {} /\ decisions = {}
    /\ claude = Without("none") /\ userFile = "none" /\ notes = {} /\ state = NoState
    /\ stepOf = [p \in Syncs |-> "idle"] /\ sections = [p \in Syncs |-> <<>>]
    /\ prev = [p \in Syncs |-> <<>>] /\ edits = 0 /\ syncs = 0
    /\ rich = <<>> /\ alone = {} /\ unsaved = FALSE

Running == {p \in Syncs : stepOf[p] \in {"sections", "write", "save"}}

Free(p) == stepOf[p] = "idle" /\ syncs < MaxSyncs /\ syncs' = syncs + 1
SetStep(p, to) == stepOf' = [stepOf EXCEPT ![p] = to]
Finish(p) ==
    /\ SetStep(p, "idle")
    /\ sections' = [sections EXCEPT ![p] = <<>>] /\ prev' = [prev EXCEPT ![p] = <<>>]

world == <<docs, active, decisions, edits>>
files == <<claude, userFile, notes, state>>

\* The workspace changes: a document, a task's status, its decisions, a note.
Edit ==
    /\ edits < MaxEdits /\ edits' = edits + 1
    /\ \/ \E d \in Docs, v \in 0 .. MaxEdits :
            docs' = [docs EXCEPT ![d] = v] /\ UNCHANGED <<active, decisions, notes>>
       \/ \E t \in ContextTasks : /\ active' = SymDiff(active, {t})
                                  /\ UNCHANGED <<docs, decisions, notes>>
       \/ \E t \in ContextTasks : /\ decisions' = SymDiff(decisions, {t})
                                  /\ UNCHANGED <<docs, active, notes>>
       \/ /\ notes' = notes \cup {edits} /\ UNCHANGED <<docs, active, decisions>>
    /\ UNCHANGED <<claude, userFile, state, stepOf, sections, prev, syncs, rich, alone, unsaved>>

\* A state file that cannot be read counts as an empty one.
loadContextState(p) ==
    /\ Free(p) /\ SetStep(p, "sections") /\ prev' = [prev EXCEPT ![p] = state]
    /\ alone' = (IF Running = {} THEN {p} ELSE {})
    /\ unsaved' = (unsaved \/ Running # {})
    /\ UNCHANGED <<world, files, sections, rich>>

\* The next section is read from the workspace as it is by now.
GenerateSection(p) ==
    LET name == SectionNames[Cardinality(DOMAIN sections[p]) + 1]
    IN /\ stepOf[p] = "sections"
       /\ sections' = [sections EXCEPT ![p] = WithSection(@, name)]
       /\ SetStep(p, IF name = Last(SectionNames) THEN "write" ELSE "sections")
       /\ UNCHANGED <<world, files, prev, syncs, rich, alone, unsaved>>

Generate(p) ==
    /\ stepOf[p] = "write" /\ SetStep(p, "save")
    /\ claude' = assembleCLAUDEmd(sections[p], generateWhatsChanged(prev[p], sections[p]))
    /\ rich' = sections[p]
    /\ UNCHANGED <<world, userFile, notes, state, sections, prev, syncs, alone, unsaved>>

saveContextState(p) ==
    /\ stepOf[p] = "save" /\ state' = sections[p] /\ Finish(p)
    /\ unsaved' = (unsaved /\ p \notin alone)
    /\ UNCHANGED <<world, claude, userFile, notes, syncs, rich, alone>>

\* It dies, in the middle of a write perhaps.
SyncDies(p) ==
    /\ stepOf[p] # "idle" /\ Finish(p)
    /\ claude' \in {claude, IF stepOf[p] = "write" THEN Without("torn") ELSE claude}
    /\ state' \in {state, IF stepOf[p] = "save" THEN NoState ELSE state}
    /\ unsaved' = (unsaved \/ stepOf[p] \in {"write", "save"})
    /\ UNCHANGED <<world, userFile, notes, syncs, rich, alone>>

\* sync context, sync claude-user, and sync all, which is both.
Plain(p, makes) ==
    /\ Free(p)
    /\ claude' = IF "claude" \in makes THEN Without("plain") ELSE claude
    /\ userFile' = IF "user" \in makes THEN "generated" ELSE userFile
    /\ UNCHANGED <<docs, active, decisions, edits, notes, state, stepOf, sections, prev, rich,
                   alone, unsaved>>
GenerateContext(p) == Plain(p, {"claude"})
GenerateClaudeUserContext(p) == Plain(p, {"user"})
GenerateAll(p) == Plain(p, {"claude", "user"})

\* init claude makes only what is missing.
InitClaude(p) ==
    /\ Free(p)
    /\ claude' = IF claude.made = "none" THEN Without("init") ELSE claude
    /\ userFile' = IF userFile = "none" THEN "init" ELSE userFile
    /\ UNCHANGED <<docs, active, decisions, edits, notes, state, stepOf, sections, prev, rich,
                   alone, unsaved>>

\* In hook mode a timestamp goes behind what was read.  Otherwise the file is
\* rendered anew, from a template that has no place for what was read.
GenerateTaskContext(p) ==
    /\ Free(p) /\ SetStep(p, "append") /\ prev' = [prev EXCEPT ![p] = <<notes>>]
    /\ UNCHANGED <<world, files, sections, rich, alone, unsaved>>

AppendTimestamp(p) ==
    /\ stepOf[p] = "append" /\ notes' = prev[p][1] /\ Finish(p)
    /\ UNCHANGED <<world, claude, userFile, state, syncs, rich, alone, unsaved>>
RenderTaskContext(p) ==
    /\ stepOf[p] = "append" /\ notes' = {} /\ Finish(p)
    /\ UNCHANGED <<world, claude, userFile, state, syncs, rich, alone, unsaved>>

ContextNext ==
    \/ Edit
    \/ \E p \in Syncs :
         \/ loadContextState(p) \/ GenerateSection(p) \/ Generate(p) \/ saveContextState(p)
         \/ GenerateContext(p) \/ GenerateClaudeUserContext(p) \/ GenerateAll(p) \/ InitClaude(p)
         \/ GenerateTaskContext(p) \/ AppendTimestamp(p) \/ RenderTaskContext(p) \/ SyncDies(p)

ContextSpec == ContextInit /\ [][ContextNext]_contextVars

-----------------------------------------------------------------------------

(* A rich CLAUDE.md reports as changed just the sections that differ from
   the last rich one, whatever commands ran in between, unless rich syncs
   overlapped or the last one died after it wrote CLAUDE.md. *)
ReportsChanges ==
    \A p \in alone : stepOf[p] = "write" /\ stepOf'[p] = "save" /\ ~unsaved =>
      LET now == claude'.sections
      IN claude'.changed = {s \in DOMAIN now : rich = <<>> \/ rich[s] # now[s]}

(* With no rich sync under way and none that died, the state file holds the
   sections of the last rich CLAUDE.md. *)
StateIsLast == Running = {} /\ ~unsaved => state = rich

(* What agents wrote in context.md is there as long as only hooks append to
   it, except what they wrote between an append's read and its write. *)
KeepsNotes ==
    \A n \in notes \ notes' :
      \E p \in Syncs : stepOf[p] = "append" /\ stepOf'[p] = "idle" /\ (notes' = {} \/ n \notin prev[p][1])

(* CLAUDE.md, the hashes behind its What's Changed section and the tickets'
   notes stay true to one another while syncs and hooks overlap and die. *)
ChangesReported == [][ReportsChanges /\ KeepsNotes /\ StateIsLast']_contextVars
=============================================================================
