-------------------------------- MODULE Hooks --------------------------------
(***************************************************************************)
(* The hooks that coding agents run around each tool (core/hookengine.go,  *)
(* hooks/tracker.go, hooks/evidence.go, cli/hook.go).  An agent runs one   *)
(* hook process at a time; all agents of a workspace share its kill        *)
(* switch, steering file, evidence reads and tracked changes, which no     *)
(* lock guards.  Each file operation is one step.                          *)
(*                                                                         *)
(* A tracked change stands for its line; a steering message for the        *)
(* contents of the file.  What gofmt, the test gates and the memory index  *)
(* do to other files is left out.                                          *)
(***************************************************************************)
EXTENDS Naturals, FiniteSets

CONSTANTS Agents,
          Routes,        \* how hooks are run: "direct", or by an installed "wrapper"
          Files,         \* the files that tools name, and among them:
          ReadPatterns, WritePaths, SpecPaths, Vendored,
          Faults,        \* which of "track", "context" and "crash" may fail
          MaxEvents,     \* bound: hook events
          MaxSteers      \* bound: steering messages

ASSUME HooksAssumption ==
    /\ Routes \subseteq {"direct", "wrapper"}
    /\ ReadPatterns \cup WritePaths \cup SpecPaths \cup Vendored \subseteq Files
    /\ MaxEvents \in Nat /\ MaxSteers \in Nat

VARIABLES kill,      \* the kill-switch file exists
          spec,      \* an architecture decision is accepted
          steer,     \* the message in the steering file, or 0
          consumed,  \* the message in the file's .consumed name, or 0
          reads,     \* the paths in the evidence file
          changes,   \* the changes in the session-changes file
          orphaned,  \* the agents that opened it before it was removed
          pc, event, \* each agent's step, and the event its hook handles
          held,      \* the message it renamed, or 0
          mem,       \* the changes it read, or the one it is to track
          events, posted,   \* how many events and messages there were
          since,     \* history: tools each agent ran since the kill switch is on
          tools,     \* history: how many tools ran
          tracked, reported, raced,   \* history: the changes that were tracked,
                     \* summarised, and cleared without having been read or
                     \* written to a file that was removed since it was opened
          shown, overran, dropped,    \* history: how often a message was shown,
                     \* which were renamed over, which a dead process held
          readBy, left,      \* history: evidence of each session, and of sessions
                     \* whose end died
          ever       \* history: which gates were ever open

files == <<steer, consumed, reads, changes, orphaned>>
own == <<pc, event, held, mem, events>>
history == <<since, tools, tracked, reported, raced, shown, overran, dropped,
             readBy, left, ever>>
world == <<kill, spec, posted>>
vars == <<world, files, own, history>>

-----------------------------------------------------------------------------

Messages == 1 .. MaxSteers

PreToolUseEvent == [hook : {"tool"}, name : {"Read", "Edit"}, file : Files, route : Routes]
OtherEvent == [hook : {"stop", "completed", "sessionEnd"}, name : {"none"}, file : {"none"},
               route : Routes]
NoEvent == [hook |-> "none"]

At(x, step) == pc[x] = step
Writes(x) == event[x].name = "Edit"
File(x) == event[x].file

TypeOK ==
    /\ kill \in BOOLEAN /\ spec \in BOOLEAN
    /\ steer \in 0 .. posted /\ consumed \in 0 .. posted /\ posted <= MaxSteers
    /\ reads \subseteq ReadPatterns
    /\ changes \subseteq 1 .. tools
    /\ \A x \in Agents : At(x, "print") <=> held[x] # 0
    /\ \A x \in Agents : At(x, "idle") => event[x] = NoEvent /\ mem[x] = {}
    /\ orphaned \subseteq {x \in Agents : At(x, "track")}

Init ==
    /\ kill = FALSE /\ spec = FALSE /\ posted = 0
    /\ steer = 0 /\ consumed = 0 /\ reads = {} /\ changes = {} /\ orphaned = {}
    /\ pc = [x \in Agents |-> "idle"] /\ event = [x \in Agents |-> NoEvent]
    /\ held = [x \in Agents |-> 0] /\ mem = [x \in Agents |-> {}] /\ events = 0
    /\ since = [x \in Agents |-> 0] /\ tools = 0
    /\ tracked = {} /\ reported = {} /\ raced = {}
    /\ shown = [m \in Messages |-> 0] /\ overran = {} /\ dropped = {}
    /\ readBy = [x \in Agents |-> {}] /\ left = {} /\ ever = {}

Goto(x, step) ==
    /\ pc' = [pc EXCEPT ![x] = step]
    /\ UNCHANGED <<event, held, mem, events>>

(* The hook's process ends; the event is over.                             *)
Done(x) ==
    /\ pc' = [pc EXCEPT ![x] = "idle"]
    /\ event' = [event EXCEPT ![x] = NoEvent]
    /\ held' = [held EXCEPT ![x] = 0]
    /\ mem' = [mem EXCEPT ![x] = {}]
    /\ UNCHANGED events

-----------------------------------------------------------------------------
(* A hook starts.  Its command looks at ADB_HOOK_ACTIVE before anything    *)
(* else, and a hook that does nothing allows the tool.                     *)

(* The installed wrapper scripts set ADB_HOOK_ACTIVE before they call it.  *)
HookActive(route) == route = "wrapper"

PreventRecursion(e) == HookActive(e.route)

\* Mutant: the kill switch is not looked at.
EngineDeaf(hook) ==
    CASE hook = "tool"       -> "steer"
      [] hook = "stop"       -> "pause"
      [] hook = "completed"  -> "gates"
      [] hook = "sessionEnd" -> "clearEvidence"

Engine(hook) ==
    CASE hook = "tool"       -> "kill"
      [] hook = "stop"       -> "pause"
      [] hook = "completed"  -> "gates"
      [] hook = "sessionEnd" -> "clearEvidence"

Begin(x) ==
    /\ At(x, "idle") /\ events < MaxEvents
    /\ \E e \in PreToolUseEvent \cup OtherEvent :
         IF PreventRecursion(e) /\ e.hook # "tool" THEN UNCHANGED <<pc, event>>
         ELSE /\ event' = [event EXCEPT ![x] = e]
              /\ pc' = [pc EXCEPT ![x] = IF PreventRecursion(e) THEN "run" ELSE Engine(e.hook)]
    /\ events' = events + 1
    /\ UNCHANGED <<world, files, held, mem, history>>

-----------------------------------------------------------------------------
(* ProcessPreToolUse.                                                      *)

KillSwitch(x) ==
    /\ At(x, "kill")
    /\ IF kill THEN Done(x) ELSE Goto(x, "steer")
    /\ UNCHANGED <<world, files, history>>

\* Mutant: the file is read where it is, and left.
CopySteer(x) ==
    /\ At(x, "steer")
    /\ IF steer = 0 THEN Goto(x, "paths") /\ UNCHANGED <<consumed, overran>>
       ELSE /\ consumed' = steer
            /\ held' = [held EXCEPT ![x] = steer]
            /\ pc' = [pc EXCEPT ![x] = "print"]
            /\ UNCHANGED <<event, mem, events, overran>>
    /\ UNCHANGED <<world, steer, reads, changes, orphaned, since, tools, tracked, reported,
                   raced, shown, dropped, readBy, left, ever>>

(* consumeSteerFile renames the file, whatever is there already, and then  *)
(* reads it under its new name.                                            *)
RenameSteer(x) ==
    /\ At(x, "steer")
    /\ IF steer = 0 THEN Goto(x, "paths") /\ UNCHANGED <<steer, consumed, overran>>
       ELSE LET before == {held[y] : y \in Agents} \ {0}
            IN  /\ consumed' = steer
                /\ steer' = 0
                /\ held' = [held EXCEPT ![x] = steer]
                /\ overran' = IF before = {} THEN overran ELSE overran \cup before \cup {steer}
                /\ pc' = [pc EXCEPT ![x] = "print"]
                /\ UNCHANGED <<event, mem, events>>
    /\ UNCHANGED <<world, reads, changes, orphaned, since, tools, tracked, reported, raced,
                   shown, dropped, readBy, left, ever>>

PrintSteer(x) ==
    /\ At(x, "print")
    /\ shown' = [shown EXCEPT ![consumed] = @ + 1]
    /\ held' = [held EXCEPT ![x] = 0]
    /\ pc' = [pc EXCEPT ![x] = "paths"]
    /\ UNCHANGED <<world, files, event, mem, events, since, tools, tracked, reported, raced,
                   overran, dropped, readBy, left, ever>>

(* Files under vendor/ and go.sum are never written.                       *)
BlockVendor(x) ==
    /\ At(x, "paths")
    /\ IF Writes(x) /\ File(x) \in Vendored THEN Done(x) ELSE Goto(x, "evidence")
    /\ UNCHANGED <<world, files, history>>

\* Mutant: an evidence file that is not there counts as read.
hasMatchingEvidenceMissing(x) == reads = {} \/ \E f \in reads : f \in ReadPatterns

hasMatchingEvidence(x) == \E f \in reads : f \in ReadPatterns

matchesAny(f, patterns) == f \in patterns
Record(f) == reads \cup {f}

(* The evidence gate: a matching read is recorded, and a write to a        *)
(* guarded path needs one on record.                                       *)
Evidence(x) ==
    /\ At(x, "evidence")
    /\ IF ~Writes(x) /\ matchesAny(File(x), ReadPatterns)
       THEN /\ reads' = Record(File(x))
            /\ readBy' = [readBy EXCEPT ![x] = @ \cup {File(x)}]
            /\ ever' = ever \cup {"read"}
            /\ Goto(x, "spec")
       ELSE /\ IF Writes(x) /\ matchesAny(File(x), WritePaths) /\ ~hasMatchingEvidence(x)
               THEN Done(x) ELSE Goto(x, "spec")
            /\ UNCHANGED <<reads, readBy, ever>>
    /\ UNCHANGED <<world, steer, consumed, changes, orphaned, since, tools, tracked, reported,
                   raced, shown, overran, dropped, left>>

(* The spec gate asks whether an architecture decision is accepted.        *)
SpecGate(x) ==
    /\ At(x, "spec")
    /\ IF Writes(x) /\ matchesAny(File(x), SpecPaths) /\ ~spec THEN Done(x) ELSE Goto(x, "run")
    /\ UNCHANGED <<world, files, history>>

(* The agent runs the tool that its hook let pass.                         *)
Run(x) ==
    /\ At(x, "run")
    /\ tools' = tools + 1
    /\ since' = IF kill THEN [since EXCEPT ![x] = @ + 1] ELSE since
    /\ IF Writes(x) /\ ~PreventRecursion(event[x])
       THEN /\ pc' = [pc EXCEPT ![x] = "track"]
            /\ mem' = [mem EXCEPT ![x] = {tools + 1}]
            /\ UNCHANGED <<event, held, events>>
       ELSE Done(x)
    /\ UNCHANGED <<world, files, tracked, reported, raced, shown, overran, dropped, readBy,
                   left, ever>>

TrackChange(c) == changes \cup {c}

(* ProcessPostToolUse opens the file and appends the change; an error is   *)
(* only printed.  This step is the write: a file that was removed since it *)
(* was opened takes the change with it.                                    *)
Track(x) ==
    /\ At(x, "track")
    /\ \/ /\ x \notin orphaned
          /\ \E c \in mem[x] : changes' = TrackChange(c)
          /\ tracked' = tracked \cup mem[x] /\ UNCHANGED raced
       \/ /\ x \in orphaned
          /\ tracked' = tracked \cup mem[x] /\ raced' = raced \cup mem[x]
          /\ UNCHANGED changes
       \/ "track" \in Faults /\ UNCHANGED <<changes, tracked, raced>>
    /\ orphaned' = orphaned \ {x}
    /\ Done(x)
    /\ UNCHANGED <<world, steer, consumed, reads, since, tools, reported, shown, overran,
                   dropped, readBy, left, ever>>

-----------------------------------------------------------------------------
(* ProcessStop, ProcessTaskCompleted and ProcessSessionEnd.                *)

(* updateContextOnStop only counts the changes.                            *)
Pause(x) ==
    /\ At(x, "pause")
    /\ Done(x)
    /\ UNCHANGED <<world, files, history>>

(* Phase A: the tests, the build and go vet pass, or the hook fails.       *)
QualityGates(x) ==
    /\ At(x, "gates")
    /\ Done(x) \/ Goto(x, "getChanges")
    /\ UNCHANGED <<world, files, history>>

GetChanges(x) ==
    /\ At(x, "getChanges")
    /\ mem' = [mem EXCEPT ![x] = changes]
    /\ pc' = [pc EXCEPT ![x] = "context"]
    /\ UNCHANGED <<world, files, event, held, events, history>>

\* Mutant: the changes are cleared although the summary was not written.
UpdateContextAnyway(x) ==
    /\ At(x, "context")
    /\ \/ reported' = reported \cup mem[x]
       \/ "context" \in Faults /\ UNCHANGED reported
    /\ Goto(x, "clear")
    /\ UNCHANGED <<world, files, since, tools, tracked, raced, shown, overran, dropped,
                   readBy, left, ever>>

UpdateContext(x) ==
    /\ At(x, "context")
    /\ \/ reported' = reported \cup mem[x] /\ Goto(x, "clear")
       \/ "context" \in Faults /\ Done(x) /\ UNCHANGED reported
    /\ UNCHANGED <<world, files, since, tools, tracked, raced, shown, overran, dropped,
                   readBy, left, ever>>

(* ChangeTracker.Clear removes the file, with what came since it was read. *)
(* Of the agents about to track a change, some have it open already.       *)
ClearChanges(x) ==
    /\ At(x, "clear")
    /\ changes' = {}
    /\ \E opened \in SUBSET {y \in Agents : At(y, "track")} : orphaned' = orphaned \cup opened
    /\ raced' = raced \cup (changes \ mem[x])
    /\ Done(x)
    /\ UNCHANGED <<world, steer, consumed, reads, since, tools, tracked, reported, shown,
                   overran, dropped, readBy, left, ever>>

(* The end of a session removes the evidence file, and with it what other  *)
(* sessions recorded.                                                      *)
ClearEvidence(x) ==
    /\ At(x, "clearEvidence")
    /\ reads' = {}
    /\ readBy' = [readBy EXCEPT ![x] = {}]
    /\ left' = {}
    /\ Done(x)
    /\ UNCHANGED <<world, steer, consumed, changes, orphaned, since, tools, tracked, reported,
                   raced, shown, overran, dropped, ever>>

(* The hook's process is killed; the agent takes that for a refusal.       *)
Crash(x) ==
    /\ "crash" \in Faults /\ ~At(x, "idle") /\ ~At(x, "run")
    /\ dropped' = dropped \cup ({held[x]} \ {0})
    /\ IF At(x, "clearEvidence")
       THEN readBy' = [readBy EXCEPT ![x] = {}] /\ left' = left \cup reads
       ELSE UNCHANGED <<readBy, left>>
    /\ orphaned' = orphaned \ {x}
    /\ Done(x)
    /\ UNCHANGED <<world, steer, consumed, reads, changes, since, tools, tracked, reported,
                   raced, shown, overran, ever>>

-----------------------------------------------------------------------------
(* The operator.                                                           *)

ToggleKill ==
    /\ kill' = ~kill
    /\ since' = [x \in Agents |-> 0]
    /\ UNCHANGED <<spec, posted, files, own, tools, tracked, reported, raced, shown, overran,
                   dropped, readBy, left, ever>>

PostSteer ==
    /\ steer = 0 /\ posted < MaxSteers
    /\ posted' = posted + 1 /\ steer' = posted + 1
    /\ UNCHANGED <<kill, spec, consumed, reads, changes, orphaned, own, history>>

SetSpec ==
    /\ spec' = ~spec /\ ever' = ever \cup {"spec"}
    /\ UNCHANGED <<kill, posted, files, own, since, tools, tracked, reported, raced, shown,
                   overran, dropped, readBy, left>>

Next == \/ \E x \in Agents :
             \/ Begin(x) \/ KillSwitch(x) \/ RenameSteer(x) \/ PrintSteer(x)
             \/ BlockVendor(x) \/ Evidence(x) \/ SpecGate(x) \/ Run(x) \/ Track(x)
             \/ Pause(x) \/ QualityGates(x) \/ GetChanges(x) \/ UpdateContext(x)
             \/ ClearChanges(x) \/ ClearEvidence(x) \/ Crash(x)
        \/ ToggleKill \/ PostSteer \/ SetSpec

Spec == Init /\ [][Next]_vars

-----------------------------------------------------------------------------

(* Once the kill switch is on, an agent runs at most the one tool that its *)
(* hook had let pass, whatever its own and the others' hooks are doing     *)
(* (hookengine.go:155-163: "an operator halt must win even when a hook     *)
(* invokes itself").                                                       *)
KillSwitchHalts == \A x \in Agents : since[x] <= 1

(* A write to a guarded path runs only if evidence had been read and a     *)
(* decision accepted, and one below vendor/ never (hookengine.go:187-227). *)
GatesHold ==
    \A x \in Agents :
      At(x, "run") /\ Writes(x) =>
        /\ File(x) \notin Vendored
        /\ File(x) \in SpecPaths => "spec" \in ever
        /\ File(x) \in WritePaths => "read" \in ever

(* Evidence on record belongs to a session that goes on, unless a          *)
(* session's end died before it cleared (hookengine.go:464-467).           *)
EvidenceIsLive == reads \subseteq (UNION {readBy[x] : x \in Agents}) \cup left

(* A steering message is shown once, waits, is about to be shown, or was   *)
(* held by a process that died; two messages renamed one over the other    *)
(* are the exception (hookengine.go:257-279).                              *)
SteeredOnce ==
    \A m \in 1 .. posted : m \notin overran =>
      shown[m] + Cardinality({x \in Agents : held[x] = m})
        + (IF steer = m THEN 1 ELSE 0) + (IF m \in dropped THEN 1 ELSE 0) = 1

(* A tracked change stays in the file until a completed task's summary     *)
(* names it, except one tracked between that summary's read and its clear, *)
(* or written to a file cleared since it was opened (hookengine.go:648-684,*)
(* tracker.go:34-43).                                                      *)
ChangesAreReported == tracked \ raced \subseteq changes \cup reported

=============================================================================
