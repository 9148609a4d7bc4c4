----------------------------- MODULE HooksProofs -----------------------------
(***************************************************************************)
(* Proofs about what runs beside people and agents at work, for any number *)
(* of agents, processes, files and clones.                                 *)
(*                                                                         *)
(* Hooks: with hooks that run directly, the kill switch halts every agent  *)
(* and the gates hold; however hooks are run, a message is shown once,     *)
(* evidence belongs to a session that goes on, and no tracked change is    *)
(* lost.  Memory: the database is of one embedder and holds what was       *)
(* indexed, and searches of it find the nearest entries.  Repos: pulls and *)
(* syncs take no work from the clones.                                     *)
(***************************************************************************)
EXTENDS Hooks, Memory, Repos, FiniteSetTheorems, SequenceTheorems, TLAPS

(***************************************************************************)
(* The hooks.                                                              *)
(***************************************************************************)

Steps == {"idle", "kill", "steer", "print", "paths", "evidence", "spec", "run", "track",
          "pause", "gates", "getChanges", "context", "clear", "clearEvidence"}

Events == PreToolUseEvent \cup OtherEvent

(* The types of what the invariants speak of.                              *)
Shape ==
    /\ kill \in BOOLEAN
    /\ pc \in [Agents -> Steps]
    /\ event \in [Agents -> Events \cup {NoEvent}]
    /\ \A x \in Agents : pc[x] # "idle" => event[x] \in Events
    /\ DOMAIN mem = Agents
    /\ since \in [Agents -> Nat]
    /\ readBy \in [Agents -> SUBSET Files]

(* The steps of a tool's hook that has seen the kill switch off.           *)
Passed == {"steer", "print", "paths", "evidence", "spec", "run"}

(* An agent on its way to a tool has run none since the switch is on.      *)
HaltInv ==
    \A x \in Agents :
        /\ ~kill => since[x] = 0
        /\ since[x] <= 1
        /\ kill /\ pc[x] \in Passed => since[x] = 0

(* What each gate that an event has passed has seen.                       *)
GateInv ==
    /\ reads # {} => "read" \in ever
    /\ spec => "spec" \in ever
    /\ \A x \in Agents : Writes(x) =>
          /\ pc[x] \in {"evidence", "spec", "run"} => File(x) \notin Vendored
          /\ pc[x] \in {"spec", "run"} /\ File(x) \in WritePaths => "read" \in ever
          /\ pc[x] = "run" /\ File(x) \in SpecPaths => "spec" \in ever

(* A hook tracks one change, and what a completion is about to clear it    *)
(* has reported.                                                           *)
ReportInv ==
    /\ \A x \in Agents : pc[x] = "track" => \E n : mem[x] = {n}
    /\ \A x \in Agents : pc[x] = "clear" => mem[x] \subseteq reported
    /\ ChangesAreReported

-----------------------------------------------------------------------------

(* The step at which each hook starts.                                     *)
LEMMA EngineStarts ==
    ASSUME NEW e \in Events
    PROVE  /\ Engine(e.hook) \in {"kill", "pause", "gates", "clearEvidence"}
           /\ e.hook = "tool" => Engine(e.hook) = "kill"
  <1>1. Engine("tool") = "kill"
    BY DEF Engine
  <1>2. Engine("stop") = "pause"
    BY DEF Engine
  <1>3. Engine("completed") = "gates"
    BY DEF Engine
  <1>4. Engine("sessionEnd") = "clearEvidence"
    BY DEF Engine
  <1>5. e.hook \in {"tool", "stop", "completed", "sessionEnd"}
    BY DEF Events, PreToolUseEvent, OtherEvent
  <1>6. QED
    BY <1>1, <1>2, <1>3, <1>4, <1>5

(* What the start of a hook does to its agent.                             *)
LEMMA BeginStarts ==
    ASSUME Shape, NEW x \in Agents, Begin(x)
    PROVE  /\ \/ UNCHANGED <<pc, event>>
              \/ \E e \in Events, s \in {"run", "kill", "pause", "gates", "clearEvidence"} :
                    /\ event' = [event EXCEPT ![x] = e]
                    /\ pc' = [pc EXCEPT ![x] = s]
                    /\ s = "run" => e.route = "wrapper"
           /\ UNCHANGED <<world, files, held, mem, history>>
  <1>1. PICK e \in Events :
          IF PreventRecursion(e) /\ e.hook # "tool" THEN UNCHANGED <<pc, event>>
          ELSE /\ event' = [event EXCEPT ![x] = e]
               /\ pc' = [pc EXCEPT ![x] = IF PreventRecursion(e) THEN "run" ELSE Engine(e.hook)]
    BY DEF Begin, Events
  <1>2. Engine(e.hook) \in {"kill", "pause", "gates", "clearEvidence"}
    BY EngineStarts
  <1>3. CASE PreventRecursion(e)
    BY <1>1, <1>3 DEF Begin, PreventRecursion, HookActive
  <1>4. CASE ~PreventRecursion(e)
    BY <1>1, <1>2, <1>4 DEF Begin
  <1>5. QED
    BY <1>3, <1>4

LEMMA ShapePreserved ==
    ASSUME Shape, [Next]_vars
    PROVE  Shape'
  <1> USE DEF Shape, Steps, At, Goto, Done, files, own, history, world
  <1>1. ASSUME NEW x \in Agents, Begin(x) PROVE Shape'
    BY <1>1, BeginStarts
  <1>2. ASSUME NEW x \in Agents,
               \/ KillSwitch(x) \/ RenameSteer(x) \/ PrintSteer(x) \/ BlockVendor(x)
               \/ SpecGate(x) \/ Pause(x) \/ QualityGates(x) \/ UpdateContext(x)
        PROVE  Shape'
    BY <1>2 DEF KillSwitch, RenameSteer, PrintSteer, BlockVendor, SpecGate, Pause,
                QualityGates, UpdateContext
  <1>3. ASSUME NEW x \in Agents, Evidence(x) PROVE Shape'
    <2>1. CASE ~Writes(x) /\ matchesAny(File(x), ReadPatterns)
      <3>1. File(x) \in Files
        BY <2>1, HooksAssumption DEF matchesAny
      <3>2. QED
        BY <1>3, <2>1, <3>1 DEF Evidence
    <2>2. CASE ~(~Writes(x) /\ matchesAny(File(x), ReadPatterns))
      BY <1>3, <2>2 DEF Evidence
    <2>3. QED  BY <2>1, <2>2
  <1>4. ASSUME NEW x \in Agents, Run(x) PROVE Shape'
    BY <1>4 DEF Run
  <1>5. ASSUME NEW x \in Agents, GetChanges(x) \/ Track(x) \/ ClearChanges(x) PROVE Shape'
    BY <1>5 DEF GetChanges, Track, ClearChanges
  <1>6. ASSUME NEW x \in Agents, ClearEvidence(x) \/ Crash(x) PROVE Shape'
    BY <1>6 DEF ClearEvidence, Crash
  <1>7. CASE ToggleKill
    <2>1. kill' \in BOOLEAN
      BY <1>7 DEF ToggleKill
    <2>2. QED
      BY <1>7, <2>1 DEF ToggleKill
  <1>8. CASE PostSteer \/ SetSpec
    BY <1>8 DEF PostSteer, SetSpec
  <1>9. CASE UNCHANGED vars
    BY <1>9 DEF vars
  <1>10. QED
    BY <1>1, <1>2, <1>3, <1>4, <1>5, <1>6, <1>7, <1>8, <1>9 DEF Next

LEMMA ShapeInit == ASSUME Init PROVE Shape
  <1>1. kill \in BOOLEAN
    BY DEF Init
  <1>2. readBy \in [Agents -> SUBSET Files] /\ DOMAIN mem = Agents
    BY DEF Init
  <1>3. since \in [Agents -> Nat] /\ event \in [Agents -> Events \cup {NoEvent}]
    BY DEF Init
  <1>4. pc \in [Agents -> Steps] /\ \A x \in Agents : pc[x] = "idle"
    BY DEF Init, Steps
  <1>5. QED
    BY <1>1, <1>2, <1>3, <1>4 DEF Shape

-----------------------------------------------------------------------------

(* No hook of a directly run event passes over its checks.                 *)
LEMMA DirectBegins ==
    ASSUME Shape, "wrapper" \notin Routes, NEW x \in Agents, Begin(x)
    PROVE  /\ \/ UNCHANGED <<pc, event>>
              \/ \E e \in Events, s \in {"kill", "pause", "gates", "clearEvidence"} :
                    /\ event' = [event EXCEPT ![x] = e]
                    /\ pc' = [pc EXCEPT ![x] = s]
           /\ UNCHANGED <<world, files, held, mem, history>>
  <1>1. \A e \in Events : e.route # "wrapper"
    BY DEF Events, PreToolUseEvent, OtherEvent
  <1>2. QED
    BY <1>1, BeginStarts

LEMMA HaltPreserved ==
    ASSUME Shape, HaltInv, [Next]_vars, "wrapper" \notin Routes
    PROVE  HaltInv'
  <1> USE DEF Shape, HaltInv, Passed, At, Goto, Done, files, own, history, world
  <1>1. ASSUME NEW x \in Agents, Begin(x) PROVE HaltInv'
    BY <1>1, DirectBegins
  <1>2. ASSUME NEW x \in Agents, KillSwitch(x) PROVE HaltInv'
    BY <1>2 DEF KillSwitch
  <1>3. ASSUME NEW x \in Agents,
               \/ RenameSteer(x) \/ PrintSteer(x) \/ BlockVendor(x) \/ Evidence(x)
               \/ SpecGate(x) \/ Pause(x) \/ QualityGates(x) \/ UpdateContext(x)
        PROVE  HaltInv'
    BY <1>3 DEF RenameSteer, PrintSteer, BlockVendor, Evidence, SpecGate, Pause,
                QualityGates, UpdateContext
  <1>4. ASSUME NEW x \in Agents, Run(x) PROVE HaltInv'
    BY <1>4 DEF Run
  <1>5. ASSUME NEW x \in Agents,
               \/ GetChanges(x) \/ Track(x) \/ ClearChanges(x) \/ ClearEvidence(x) \/ Crash(x)
        PROVE  HaltInv'
    BY <1>5 DEF GetChanges, Track, ClearChanges, ClearEvidence, Crash
  <1>6. CASE ToggleKill
    BY <1>6 DEF ToggleKill
  <1>7. CASE PostSteer \/ SetSpec
    BY <1>7 DEF PostSteer, SetSpec
  <1>8. CASE UNCHANGED vars
    BY <1>8 DEF vars
  <1>9. QED
    BY <1>1, <1>2, <1>3, <1>4, <1>5, <1>6, <1>7, <1>8 DEF Next

(* With hooks that run directly, an agent runs at most one tool once the   *)
(* kill switch is on (hookengine.go:155-163).                              *)
THEOREM KillHalts ==
    ASSUME "wrapper" \notin Routes
    PROVE  Spec => []KillSwitchHalts
  <1>1. Init => Shape /\ HaltInv
    <2>1. Init => HaltInv
      BY DEF Init, HaltInv
    <2>2. QED
      BY <2>1, ShapeInit
  <1>2. Shape /\ HaltInv /\ [Next]_vars => Shape' /\ HaltInv'
    BY ShapePreserved, HaltPreserved
  <1>3. HaltInv => KillSwitchHalts
    BY DEF HaltInv, KillSwitchHalts
  <1>4. QED
    BY <1>1, <1>2, <1>3, PTL DEF Spec

-----------------------------------------------------------------------------

LEMMA GatePreserved ==
    ASSUME Shape, GateInv, [Next]_vars, "wrapper" \notin Routes
    PROVE  GateInv'
  <1> USE DEF Shape, GateInv, Writes, File, At, Goto, Done, files, own, history, world
  <1>1. ASSUME NEW x \in Agents, Begin(x) PROVE GateInv'
    BY <1>1, DirectBegins
  <1>2. ASSUME NEW x \in Agents, KillSwitch(x) \/ RenameSteer(x) \/ PrintSteer(x)
        PROVE  GateInv'
    BY <1>2 DEF KillSwitch, RenameSteer, PrintSteer
  <1>3. ASSUME NEW x \in Agents, BlockVendor(x) PROVE GateInv'
    BY <1>3 DEF BlockVendor
  <1>4. ASSUME NEW x \in Agents, Evidence(x) PROVE GateInv'
    <2>1. CASE ~Writes(x) /\ matchesAny(File(x), ReadPatterns)
      BY <1>4, <2>1 DEF Evidence, Record
    <2>2. CASE ~(~Writes(x) /\ matchesAny(File(x), ReadPatterns))
      BY <1>4, <2>2 DEF Evidence, matchesAny, hasMatchingEvidence
    <2>3. QED  BY <2>1, <2>2
  <1>5. ASSUME NEW x \in Agents, SpecGate(x) PROVE GateInv'
    BY <1>5 DEF SpecGate, matchesAny
  <1>6. ASSUME NEW x \in Agents, Run(x) \/ Track(x) PROVE GateInv'
    BY <1>6 DEF Run, Track
  <1>7. ASSUME NEW x \in Agents,
               \/ Pause(x) \/ QualityGates(x) \/ GetChanges(x) \/ UpdateContext(x)
               \/ ClearChanges(x) \/ ClearEvidence(x) \/ Crash(x)
        PROVE  GateInv'
    BY <1>7 DEF Pause, QualityGates, GetChanges, UpdateContext, ClearChanges, ClearEvidence,
                Crash
  <1>8. CASE ToggleKill \/ PostSteer \/ SetSpec
    BY <1>8 DEF ToggleKill, PostSteer, SetSpec
  <1>9. CASE UNCHANGED vars
    BY <1>9 DEF vars
  <1>10. QED
    BY <1>1, <1>2, <1>3, <1>4, <1>5, <1>6, <1>7, <1>8, <1>9 DEF Next

(* With hooks that run directly, a write runs only past the gates of its   *)
(* path (hookengine.go:187-227).                                           *)
THEOREM GatesAreKept ==
    ASSUME "wrapper" \notin Routes
    PROVE  Spec => []GatesHold
  <1>1. Init => Shape /\ GateInv
    <2>1. Init => GateInv
      BY DEF Init, GateInv, NoEvent
    <2>2. QED
      BY <2>1, ShapeInit
  <1>2. Shape /\ GateInv /\ [Next]_vars => Shape' /\ GateInv'
    BY ShapePreserved, GatePreserved
  <1>3. GateInv => GatesHold
    BY DEF GateInv, GatesHold, At
  <1>4. QED
    BY <1>1, <1>2, <1>3, PTL DEF Spec

-----------------------------------------------------------------------------

LEMMA EvidencePreserved ==
    ASSUME Shape, EvidenceIsLive, [Next]_vars
    PROVE  EvidenceIsLive'
  <1> USE DEF Shape, EvidenceIsLive, At, Goto, Done, files, own, history, world
  <1>1. ASSUME NEW x \in Agents, Begin(x) PROVE EvidenceIsLive'
    BY <1>1 DEF Begin
  <1>2. ASSUME NEW x \in Agents,
               \/ KillSwitch(x) \/ RenameSteer(x) \/ PrintSteer(x) \/ BlockVendor(x)
               \/ SpecGate(x) \/ Run(x) \/ Track(x) \/ Pause(x) \/ QualityGates(x)
               \/ GetChanges(x) \/ UpdateContext(x) \/ ClearChanges(x)
        PROVE  EvidenceIsLive'
    BY <1>2 DEF KillSwitch, RenameSteer, PrintSteer, BlockVendor, SpecGate, Run, Track, Pause,
                QualityGates, GetChanges, UpdateContext, ClearChanges
  <1>3. ASSUME NEW x \in Agents, Evidence(x) PROVE EvidenceIsLive'
    <2>1. CASE ~Writes(x) /\ matchesAny(File(x), ReadPatterns)
      BY <1>3, <2>1 DEF Evidence, Record
    <2>2. CASE ~(~Writes(x) /\ matchesAny(File(x), ReadPatterns))
      BY <1>3, <2>2 DEF Evidence
    <2>3. QED  BY <2>1, <2>2
  <1>4. ASSUME NEW x \in Agents, ClearEvidence(x) PROVE EvidenceIsLive'
    BY <1>4 DEF ClearEvidence
  <1>5. ASSUME NEW x \in Agents, Crash(x) PROVE EvidenceIsLive'
    <2>1. CASE At(x, "clearEvidence")
      <3>1. reads' = reads /\ left' = left \cup reads
        BY <1>5, <2>1 DEF Crash
      <3>2. reads' \subseteq left'
        BY <3>1
      <3>3. QED  BY ONLY <3>2 DEF EvidenceIsLive
    <2>2. CASE ~At(x, "clearEvidence")
      <3>1. UNCHANGED <<reads, readBy, left>>
        BY <1>5, <2>2 DEF Crash
      <3>2. QED  BY <3>1
    <2>3. QED  BY <2>1, <2>2
  <1>6. CASE ToggleKill \/ PostSteer \/ SetSpec
    BY <1>6 DEF ToggleKill, PostSteer, SetSpec
  <1>7. CASE UNCHANGED vars
    BY <1>7 DEF vars
  <1>8. QED
    BY <1>1, <1>2, <1>3, <1>4, <1>5, <1>6, <1>7 DEF Next

(* Whatever sessions and crashes there are, evidence on record is that of  *)
(* a session that goes on, or whose end died (hookengine.go:464-467).      *)
THEOREM EvidenceLives == Spec => []EvidenceIsLive
  <1>1. Init => Shape /\ EvidenceIsLive
    <2>1. Init => EvidenceIsLive
      BY DEF Init, EvidenceIsLive
    <2>2. QED
      BY <2>1, ShapeInit
  <1>2. Shape /\ EvidenceIsLive /\ [Next]_vars => Shape' /\ EvidenceIsLive'
    BY ShapePreserved, EvidencePreserved
  <1>3. QED
    BY <1>1, <1>2, PTL DEF Spec

-----------------------------------------------------------------------------

LEMMA ReportPreserved ==
    ASSUME Shape, ReportInv, [Next]_vars
    PROVE  ReportInv'
  <1> USE DEF Shape, ReportInv, ChangesAreReported, At, Goto, Done, files, own, history, world
  <1>1. ASSUME NEW x \in Agents, Begin(x) PROVE ReportInv'
    <2>1. UNCHANGED <<changes, mem, tracked, reported, raced>>
      BY <1>1 DEF Begin
    <2>2. \A y \in Agents : pc'[y] \in {"track", "clear"} => pc'[y] = pc[y]
      BY <1>1, BeginStarts
    <2>3. QED
      BY <2>1, <2>2
  <1>2. ASSUME NEW x \in Agents,
               \/ KillSwitch(x) \/ RenameSteer(x) \/ PrintSteer(x) \/ BlockVendor(x)
               \/ Evidence(x) \/ SpecGate(x) \/ Pause(x) \/ QualityGates(x)
        PROVE  ReportInv'
    BY <1>2 DEF KillSwitch, RenameSteer, PrintSteer, BlockVendor, Evidence, SpecGate, Pause,
                QualityGates
  <1>3. ASSUME NEW x \in Agents, Run(x) PROVE ReportInv'
    BY <1>3 DEF Run
  <1>4. ASSUME NEW x \in Agents, Track(x) PROVE ReportInv'
    <2>1. \A y \in Agents : pc'[y] \in {"track", "clear"} => pc'[y] = pc[y] /\ mem'[y] = mem[y]
      BY <1>4 DEF Track
    <2>2. UNCHANGED reported
      BY <1>4 DEF Track
    <2>3. \/ UNCHANGED <<changes, tracked, raced>>
          \/ changes' = changes \cup mem[x] /\ tracked' = tracked \cup mem[x] /\ UNCHANGED raced
          \/ raced' = raced \cup mem[x] /\ tracked' = tracked \cup mem[x] /\ UNCHANGED changes
      BY <1>4 DEF Track, TrackChange
    <2>4. QED
      BY <2>1, <2>2, <2>3
  <1>5. ASSUME NEW x \in Agents, GetChanges(x) PROVE ReportInv'
    BY <1>5 DEF GetChanges
  <1>6. ASSUME NEW x \in Agents, UpdateContext(x) PROVE ReportInv'
    BY <1>6 DEF UpdateContext
  <1>7. ASSUME NEW x \in Agents, ClearChanges(x) PROVE ReportInv'
    BY <1>7 DEF ClearChanges
  <1>8. ASSUME NEW x \in Agents, ClearEvidence(x) \/ Crash(x) PROVE ReportInv'
    BY <1>8 DEF ClearEvidence, Crash
  <1>9. CASE ToggleKill \/ PostSteer \/ SetSpec
    BY <1>9 DEF ToggleKill, PostSteer, SetSpec
  <1>10. CASE UNCHANGED vars
    BY <1>10 DEF vars
  <1>11. QED
    BY <1>1, <1>2, <1>3, <1>4, <1>5, <1>6, <1>7, <1>8, <1>9, <1>10 DEF Next

(* A tracked change is in the file or in a summary, unless it was tracked  *)
(* between a summary's read and its clear, or written to a file that was   *)
(* cleared since it was opened (hookengine.go:648-684, tracker.go:34-43).  *)
THEOREM ChangesReported == Spec => []ChangesAreReported
  <1>1. Init => Shape /\ ReportInv
    <2>1. Init => ReportInv
      BY DEF Init, ReportInv, ChangesAreReported
    <2>2. QED
      BY <2>1, ShapeInit
  <1>2. Shape /\ ReportInv /\ [Next]_vars => Shape' /\ ReportInv'
    BY ShapePreserved, ReportPreserved
  <1>3. ReportInv => ChangesAreReported
    BY DEF ReportInv
  <1>4. QED
    BY <1>1, <1>2, <1>3, PTL DEF Spec

-----------------------------------------------------------------------------
(* Where a message is.                                                     *)

Holders(m) == {x \in Agents : held[x] = m}

Shown(m) == shown[m] = 1 /\ Holders(m) = {} /\ steer # m /\ m \notin dropped
Held(m) == shown[m] = 0 /\ (\E x \in Agents : Holders(m) = {x}) /\ steer # m /\ m \notin dropped
Waits(m) == shown[m] = 0 /\ Holders(m) = {} /\ steer = m /\ m \notin dropped
Died(m) == shown[m] = 0 /\ Holders(m) = {} /\ steer # m /\ m \in dropped

Placed(m) == Shown(m) \/ Held(m) \/ Waits(m) \/ Died(m)

(* Whoever is about to print will print what it holds, or another message  *)
(* was renamed over it.                                                    *)
Printing ==
    \A x \in Agents : held[x] # 0 =>
      held[x] = consumed \/ {held[x], consumed} \subseteq overran

SteerInv ==
    /\ posted \in Nat /\ posted <= MaxSteers /\ steer \in 0 .. posted
    /\ held \in [Agents -> 0 .. posted] /\ shown \in [Messages -> Nat]
    /\ overran \cup dropped \subseteq 1 .. posted
    /\ \A x \in Agents : held[x] # 0 <=> pc[x] = "print"
    /\ \A m \in Messages : m > posted => shown[m] = 0
    /\ Printing
    /\ \A m \in (1 .. posted) \ overran : Placed(m)

(* A step that leaves the messages where they are.                         *)
LEMMA NoMessage ==
    ASSUME SteerInv, UNCHANGED <<posted, steer, consumed, held, shown, overran, dropped>>,
           \A x \in Agents : pc'[x] = "print" <=> pc[x] = "print"
    PROVE  SteerInv'
  BY DEF SteerInv, Printing, Placed, Shown, Held, Waits, Died, Holders

(* A hook that ends and holds no message.                                  *)
LEMMA DoneSteer ==
    ASSUME Shape, SteerInv, NEW x \in Agents, Done(x) \/ (\E s \in Steps \ {"print"} : Goto(x, s)),
           pc[x] # "print", UNCHANGED <<posted, steer, consumed, shown, overran, dropped>>
    PROVE  SteerInv'
  <1>1. held' = held
    BY DEF Done, Goto, SteerInv
  <1>2. \A y \in Agents : pc'[y] = "print" <=> pc[y] = "print"
    BY DEF Done, Goto, Shape
  <1>3. QED
    BY <1>1, <1>2, NoMessage

LEMMA RenameSteers ==
    ASSUME Shape, SteerInv, NEW x \in Agents, RenameSteer(x), steer # 0
    PROVE  SteerInv'
  <1> DEFINE before == {held[y] : y \in Agents} \ {0}
  <1>1. /\ consumed' = steer /\ steer' = 0 /\ held' = [held EXCEPT ![x] = steer]
        /\ overran' = IF before = {} THEN overran ELSE overran \cup before \cup {steer}
        /\ pc' = [pc EXCEPT ![x] = "print"] /\ pc[x] = "steer"
        /\ UNCHANGED <<posted, shown, dropped>>
    BY DEF RenameSteer, At, world
  <1>2. held[x] = 0 /\ before \subseteq 1 .. posted /\ steer \in 1 .. posted
    BY <1>1 DEF SteerInv
  <1>3. /\ held' \in [Agents -> 0 .. posted] /\ held'[x] = steer
        /\ \A y \in Agents \ {x} : held'[y] = held[y]
    BY <1>1, <1>2 DEF SteerInv
  <1>4. Printing'
    <2>1. ASSUME NEW y \in Agents \ {x}, held[y] # 0 PROVE {held[y], consumed'} \subseteq overran'
      BY <1>1, <2>1
    <2>2. QED
      BY <1>1, <1>3, <2>1 DEF Printing
  <1>5. overran \subseteq overran' /\ overran' \subseteq 1 .. posted
    BY <1>1, <1>2 DEF SteerInv
  <1>6. ASSUME NEW m \in (1 .. posted) \ overran' PROVE Placed(m)'
    <2>1. Placed(m) /\ m # 0
      BY <1>5, <1>6 DEF SteerInv
    <2>2. CASE m = steer
      <3>1. shown[m] = 0 /\ Holders(m) = {} /\ m \notin dropped
        BY <2>1, <2>2 DEF Placed, Shown, Held, Waits, Died
      <3>2. Holders(m)' = {x}
        BY <1>3, <2>2, <3>1 DEF Holders
      <3>3. QED
        BY <1>1, <2>1, <3>1, <3>2 DEF Placed, Held
    <2>3. CASE m # steer
      <3>1. Holders(m)' = Holders(m)
        BY <1>2, <1>3, <2>1, <2>3 DEF Holders
      <3>2. QED
        BY <1>1, <2>1, <2>3, <3>1 DEF Placed, Shown, Held, Waits, Died
    <2>4. QED
      BY <2>2, <2>3
  <1> HIDE DEF before
  <1>7. \A y \in Agents : held'[y] # 0 <=> pc'[y] = "print"
    BY <1>1, <1>2, <1>3 DEF SteerInv, Shape
  <1>8. QED
    BY <1>1, <1>2, <1>3, <1>4, <1>5, <1>6, <1>7 DEF SteerInv

LEMMA PrintSteers ==
    ASSUME Shape, SteerInv, NEW x \in Agents, PrintSteer(x)
    PROVE  SteerInv'
  <1>1. /\ shown' = [shown EXCEPT ![consumed] = @ + 1] /\ held' = [held EXCEPT ![x] = 0]
        /\ pc' = [pc EXCEPT ![x] = "paths"] /\ pc[x] = "print"
        /\ UNCHANGED <<posted, steer, consumed, overran, dropped>>
    BY DEF PrintSteer, At, world, files
  <1>2. held[x] # 0 /\ held[x] \in 1 .. posted
    BY <1>1 DEF SteerInv
  <1>3. consumed \in 1 .. posted /\ posted \in Nat /\ posted <= MaxSteers
    BY <1>2 DEF SteerInv, Printing
  <1>4. consumed \in Messages
    BY <1>3, HooksAssumption DEF Messages
  <1>5. /\ held' \in [Agents -> 0 .. posted] /\ held'[x] = 0
        /\ \A y \in Agents \ {x} : held'[y] = held[y]
    BY <1>1, <1>3 DEF SteerInv
  <1>6. /\ shown' \in [Messages -> Nat] /\ shown'[consumed] = shown[consumed] + 1
        /\ \A m \in Messages \ {consumed} : shown'[m] = shown[m]
    BY <1>1, <1>4 DEF SteerInv
  <1>7. Printing'
    BY <1>1, <1>5 DEF SteerInv, Printing
  <1>8. ASSUME NEW m \in (1 .. posted) \ overran PROVE Placed(m)'
    <2>1. Placed(m) /\ m \in Messages
      BY <1>3, HooksAssumption DEF SteerInv, Messages
    <2>2. CASE m = consumed
      <3>1. held[x] = m
        BY <1>2, <2>2 DEF SteerInv, Printing
      <3>2. shown[m] = 0 /\ Holders(m) = {x} /\ steer # m /\ m \notin dropped
        BY <2>1, <3>1 DEF Placed, Shown, Held, Waits, Died, Holders
      <3>3. Holders(m)' = {}
        BY <1>2, <1>5, <3>1, <3>2 DEF Holders
      <3>4. QED
        BY <1>1, <1>6, <2>2, <3>2, <3>3 DEF Placed, Shown
    <2>3. CASE m # consumed
      <3>1. held[x] # m
        BY <1>2, <2>3 DEF SteerInv, Printing
      <3>2. Holders(m)' = Holders(m)
        BY <1>5, <3>1 DEF Holders
      <3>3. shown'[m] = shown[m]
        BY <1>6, <2>1, <2>3
      <3>4. QED
        BY <1>1, <2>1, <3>2, <3>3 DEF Placed, Shown, Held, Waits, Died
    <2>4. QED
      BY <2>2, <2>3
  <1>9. \A y \in Agents : held'[y] # 0 <=> pc'[y] = "print"
    BY <1>1, <1>5 DEF SteerInv, Shape
  <1>10. \A m \in Messages : m > posted => shown'[m] = 0
    BY <1>3, <1>6, HooksAssumption DEF SteerInv, Messages
  <1>11. QED
    BY <1>1, <1>3, <1>5, <1>6, <1>7, <1>8, <1>9, <1>10 DEF SteerInv

LEMMA CrashSteers ==
    ASSUME Shape, SteerInv, NEW x \in Agents, Crash(x)
    PROVE  SteerInv'
  <1>1. /\ dropped' = dropped \cup ({held[x]} \ {0}) /\ held' = [held EXCEPT ![x] = 0]
        /\ pc' = [pc EXCEPT ![x] = "idle"]
        /\ UNCHANGED <<posted, steer, consumed, overran, shown>>
    BY DEF Crash, Done, world, files
  <1>2. /\ held' \in [Agents -> 0 .. posted] /\ held'[x] = 0 /\ held[x] \in 0 .. posted
        /\ \A y \in Agents \ {x} : held'[y] = held[y]
    BY <1>1 DEF SteerInv
  <1>3. Printing'
    BY <1>1, <1>2 DEF SteerInv, Printing
  <1>4. ASSUME NEW m \in (1 .. posted) \ overran PROVE Placed(m)'
    <2>1. Placed(m) /\ m # 0
      BY <1>4 DEF SteerInv
    <2>2. CASE held[x] = m
      <3>1. shown[m] = 0 /\ Holders(m) = {x} /\ steer # m
        BY <2>1, <2>2 DEF Placed, Shown, Held, Waits, Died, Holders
      <3>2. Holders(m)' = {}
        BY <1>2, <2>1, <2>2, <3>1 DEF Holders
      <3>3. QED
        BY <1>1, <2>1, <2>2, <3>1, <3>2 DEF Placed, Died
    <2>3. CASE held[x] # m
      <3>1. Holders(m)' = Holders(m)
        BY <1>2, <2>1, <2>3 DEF Holders
      <3>2. m \in dropped' <=> m \in dropped
        BY <1>1, <2>3
      <3>3. QED
        BY <1>1, <2>1, <3>1, <3>2 DEF Placed, Shown, Held, Waits, Died
    <2>4. QED
      BY <2>2, <2>3
  <1>5. \A y \in Agents : held'[y] # 0 <=> pc'[y] = "print"
    BY <1>1, <1>2 DEF SteerInv, Shape
  <1>6. dropped' \subseteq 1 .. posted
    BY <1>1, <1>2 DEF SteerInv
  <1>7. QED
    BY <1>1, <1>2, <1>3, <1>4, <1>5, <1>6 DEF SteerInv

LEMMA PostSteers ==
    ASSUME SteerInv, PostSteer
    PROVE  SteerInv'
  <1>1. /\ steer = 0 /\ posted < MaxSteers /\ posted' = posted + 1 /\ steer' = posted + 1
        /\ UNCHANGED <<pc, consumed, held, shown, overran, dropped>>
    BY DEF PostSteer, own, history
  <1>2. posted \in Nat /\ MaxSteers \in Nat
    BY HooksAssumption DEF SteerInv
  <1>3. /\ posted' \in Nat /\ posted' <= MaxSteers /\ steer' \in 0 .. posted'
        /\ held' \in [Agents -> 0 .. posted'] /\ overran' \cup dropped' \subseteq 1 .. posted'
        /\ \A m \in Messages : m > posted' => shown'[m] = 0
    BY <1>1, <1>2 DEF SteerInv, Messages
  <1>4. ASSUME NEW m \in (1 .. posted') \ overran' PROVE Placed(m)'
    <2>1. CASE m = posted + 1
      <3>1. m \in Messages /\ m > posted /\ m \notin dropped
        BY <1>1, <1>2, <2>1 DEF Messages, SteerInv
      <3>2. shown[m] = 0 /\ Holders(m) = {}
        BY <1>2, <3>1 DEF SteerInv, Holders
      <3>3. QED
        BY <1>1, <2>1, <3>1, <3>2 DEF Placed, Waits, Holders
    <2>2. CASE m # posted + 1
      <3>1. m \in (1 .. posted) \ overran
        BY <1>1, <1>2, <1>4, <2>2
      <3>2. QED
        BY <1>1, <1>2, <2>2, <3>1 DEF SteerInv, Placed, Shown, Held, Waits, Died, Holders
    <2>3. QED
      BY <2>1, <2>2
  <1>5. QED
    BY <1>1, <1>3, <1>4 DEF SteerInv, Printing

LEMMA SteerPreserved ==
    ASSUME Shape, SteerInv, [Next]_vars
    PROVE  SteerInv'
  <1> USE DEF At, files, world, history
  <1>1. ASSUME NEW x \in Agents, Begin(x) PROVE SteerInv'
    <2>1. \A y \in Agents : pc'[y] = "print" <=> pc[y] = "print"
      <3>1. pc[x] = "idle"
        BY <1>1 DEF Begin
      <3>2. QED
        BY <1>1, <3>1, BeginStarts DEF Shape
    <2>2. UNCHANGED <<posted, steer, consumed, held, shown, overran, dropped>>
      BY <1>1 DEF Begin
    <2>3. QED
      BY <2>1, <2>2, NoMessage
  <1>2. ASSUME NEW x \in Agents, RenameSteer(x), steer = 0 PROVE SteerInv'
    <2>1. Goto(x, "paths") /\ pc[x] = "steer" /\ UNCHANGED <<posted, steer, consumed, shown, overran, dropped>>
      BY <1>2 DEF RenameSteer
    <2>2. QED
      BY <2>1, DoneSteer DEF Steps
  <1>3. ASSUME NEW x \in Agents,
               \/ KillSwitch(x) \/ BlockVendor(x) \/ SpecGate(x) \/ Pause(x) \/ QualityGates(x)
               \/ Evidence(x) \/ Track(x) \/ UpdateContext(x) \/ ClearChanges(x) \/ ClearEvidence(x)
        PROVE  SteerInv'
    <2>1. pc[x] # "print" /\ UNCHANGED <<posted, steer, consumed, shown, overran, dropped>>
      BY <1>3 DEF KillSwitch, BlockVendor, SpecGate, Pause, QualityGates, Evidence, Track,
                  UpdateContext, ClearChanges, ClearEvidence
    <2>2. Done(x) \/ \E s \in Steps \ {"print"} : Goto(x, s)
      BY <1>3 DEF KillSwitch, BlockVendor, SpecGate, Pause, QualityGates, Evidence, Track,
                  UpdateContext, ClearChanges, ClearEvidence, Steps
    <2>3. QED
      BY <2>1, <2>2, DoneSteer
  <1>4. ASSUME NEW x \in Agents, GetChanges(x) \/ Run(x) PROVE SteerInv'
    <2>1. pc[x] # "print" /\ UNCHANGED <<posted, steer, consumed, shown, overran, dropped>>
      BY <1>4 DEF GetChanges, Run
    <2>2. CASE Done(x)
      BY <2>1, <2>2, DoneSteer
    <2>3. CASE ~Done(x)
      <3>1. held' = held /\ \A y \in Agents : pc'[y] = "print" <=> pc[y] = "print"
        BY <1>4, <2>1, <2>3 DEF GetChanges, Run, Shape
      <3>2. QED
        BY <2>1, <3>1, NoMessage
    <2>4. QED
      BY <2>2, <2>3
  <1>5. CASE ToggleKill \/ SetSpec \/ UNCHANGED vars
    <2>1. UNCHANGED <<pc, posted, steer, consumed, held, shown, overran, dropped>>
      BY <1>5 DEF ToggleKill, SetSpec, vars, own
    <2>2. QED
      BY <2>1, NoMessage
  <1>6. QED
    BY <1>1, <1>2, <1>3, <1>4, <1>5, RenameSteers, PrintSteers, CrashSteers, PostSteers DEF Next

(* A steering message is shown once, waits, is about to be shown, or was   *)
(* held by a process that died, unless two messages were renamed one over  *)
(* the other (hookengine.go:257-279).                                      *)
THEOREM MessagesShownOnce == Spec => []SteeredOnce
  <1>1. Init => Shape /\ SteerInv
    <2>1. Init => SteerInv
      <3> SUFFICES ASSUME Init PROVE SteerInv
        OBVIOUS
      <3>1. /\ posted = 0 /\ steer = 0 /\ overran = {} /\ dropped = {}
            /\ held = [x \in Agents |-> 0] /\ shown = [m \in Messages |-> 0]
            /\ pc = [x \in Agents |-> "idle"]
        BY Zenon DEF Init
      <3>2. QED
        BY <3>1, HooksAssumption DEF SteerInv, Printing, Messages
    <2>2. QED
      BY <2>1, ShapeInit
  <1>2. Shape /\ SteerInv /\ [Next]_vars => Shape' /\ SteerInv'
    BY ShapePreserved, SteerPreserved
  <1>3. SteerInv => SteeredOnce
    <2> SUFFICES ASSUME SteerInv, NEW m \in 1 .. posted, m \notin overran
                 PROVE  shown[m] + Cardinality(Holders(m))
                          + (IF steer = m THEN 1 ELSE 0) + (IF m \in dropped THEN 1 ELSE 0) = 1
      BY DEF SteeredOnce, Holders
    <2>1. Placed(m)
      BY DEF SteerInv
    <2>2. Cardinality({}) = 0 /\ \A x \in Agents : Cardinality({x}) = 1
      BY FS_EmptySet, FS_Singleton
    <2>3. CASE Held(m)
      <3>1. Cardinality(Holders(m)) = 1
        BY <2>2, <2>3 DEF Held
      <3>2. QED
        BY <2>3, <3>1 DEF Held
    <2>4. CASE Shown(m) \/ Waits(m) \/ Died(m)
      <3>1. Cardinality(Holders(m)) = 0
        BY <2>2, <2>4 DEF Shown, Waits, Died
      <3>2. QED
        BY <2>4, <3>1 DEF Shown, Waits, Died
    <2>5. QED
      BY <2>1, <2>3, <2>4 DEF Placed
  <1>4. QED
    BY <1>1, <1>2, <1>3, PTL DEF Spec

-----------------------------------------------------------------------------
(***************************************************************************)
(* Sets as sequences, and parts of sequences.                              *)
(***************************************************************************)

(* The elements of a finite set as a sequence.                             *)
LEMMA SetAsSeq ==
    ASSUME NEW S, IsFiniteSet(S)
    PROVE  SetToSeq(S) \in Seq(S) /\ ToSet(SetToSeq(S)) = S /\ (SetToSeq(S) = <<>> <=> S = {})
  <1> DEFINE n == Cardinality(S)
             F == {f \in [1 .. n -> S] : IsInjective(f)}
             s == SetToSeq(S)
  <1>1. n \in Nat /\ ExistsBijection(1 .. n, S)
    BY FS_CardinalityType
  <1>2. PICK b \in Bijection(1 .. n, S) : TRUE
    BY <1>1 DEF ExistsBijection
  <1>3. b \in [1 .. n -> S] /\ IsInjective(b)
    BY <1>2 DEF Bijection, Injection
  <1>4. s \in [1 .. n -> S] /\ IsInjective(s)
    BY <1>3 DEF SetToSeq
  <1>5. s \in Injection(1 .. n, S)
    BY <1>4 DEF Injection
  <1>6. IsFiniteSet(1 .. n) /\ Cardinality(1 .. n) = n
    BY <1>1, FS_Interval
  <1>7. s \in Surjection(1 .. n, S)
    BY <1>5, <1>6, FS_Injection
  <1>8. ToSet(s) = S
    BY <1>4, <1>7 DEF Surjection, ToSet
  <1>9. s \in Seq(S)
    BY <1>1, <1>4
  <1>10. s = <<>> <=> S = {}
    BY <1>8, <1>9 DEF ToSet
  <1>11. QED  BY <1>8, <1>9, <1>10

(* The first element of a sequence and the rest.                           *)
LEMMA FirstAndRest ==
    ASSUME NEW S, NEW s \in Seq(S), s # <<>>
    PROVE  /\ Head(s) \in S /\ Tail(s) \in Seq(S) /\ ToSet(s) = {Head(s)} \cup ToSet(Tail(s))
           /\ Len(s) \in Nat \ {0} /\ (Len(s) = 1 <=> Tail(s) = <<>>)
  <1>1. /\ Head(s) \in S /\ Tail(s) \in Seq(S) /\ Len(s) \in Nat \ {0} /\ Head(s) = s[1]
        /\ DOMAIN s = 1 .. Len(s) /\ Len(Tail(s)) = Len(s) - 1 /\ DOMAIN Tail(s) = 1 .. Len(s) - 1
        /\ \A i \in 1 .. Len(s) - 1 : Tail(s)[i] = s[i + 1]
    OBVIOUS
  <1>2. ToSet(s) \subseteq {Head(s)} \cup ToSet(Tail(s))
    <2> SUFFICES ASSUME NEW i \in 1 .. Len(s) PROVE s[i] \in {Head(s)} \cup ToSet(Tail(s))
      BY <1>1 DEF ToSet
    <2>1. CASE i = 1
      BY <1>1, <2>1
    <2>2. CASE i # 1
      <3>1. i - 1 \in 1 .. Len(s) - 1 /\ Tail(s)[i - 1] = s[i]
        BY <1>1, <2>2
      <3>2. QED  BY <1>1, <3>1 DEF ToSet
    <2>3. QED  BY <2>1, <2>2
  <1>3. {Head(s)} \cup ToSet(Tail(s)) \subseteq ToSet(s)
    BY <1>1 DEF ToSet
  <1>4. Len(s) = 1 <=> Tail(s) = <<>>
    BY <1>1
  <1>5. QED  BY <1>1, <1>2, <1>3, <1>4

(* Sublists keep the order.                                                *)

LEMMA PlaceIsNat ==
  ASSUME NEW K, IsFiniteSet(K), NEW i
  PROVE  Place(i, K) \in Nat /\ Place(i, K) <= Cardinality(K)
  BY FS_Subset, FS_CardinalityType DEF Place

(* Places are counted up.                                                  *)
LEMMA PlaceGrows ==
  ASSUME NEW K \in SUBSET Nat, IsFiniteSet(K), NEW i \in K, NEW j \in K, i < j
  PROVE  Place(i, K) < Place(j, K)
  <1> DEFINE A == {k \in K : k <= i}
             B == {k \in K : k <= j}
  <1>1. A \in SUBSET B /\ A # B /\ B \in SUBSET K
    <2>1. i \in Nat /\ j \in Nat /\ j \in B /\ j \notin A
      OBVIOUS
    <2>2. \A k \in K : k \in Nat /\ (k <= i => k <= j)
      BY <2>1
    <2>3. QED
      BY <2>1, <2>2
  <1>2. IsFiniteSet(B) /\ Cardinality(A) <= Cardinality(B) /\ Cardinality(A) # Cardinality(B)
    <2> HIDE DEF A, B
    <2>1. IsFiniteSet(B)
      BY <1>1, FS_Subset
    <2>2. QED
      BY <1>1, <2>1, FS_Subset
  <1>3. Cardinality(A) \in Nat /\ Cardinality(B) \in Nat
    BY PlaceIsNat DEF Place
  <1>4. QED
    BY <1>2, <1>3 DEF Place

LEMMA PlacesAreAll ==
  ASSUME NEW K \in SUBSET Nat, IsFiniteSet(K)
  PROVE  /\ Cardinality(K) \in Nat
         /\ \A i \in K : Place(i, K) \in 1 .. Cardinality(K)
         /\ \A i, j \in K : Place(i, K) = Place(j, K) => i = j
         /\ \A k \in 1 .. Cardinality(K) : \E i \in K : Place(i, K) = k
  <1> DEFINE n == Cardinality(K)
             f == [i \in K |-> Place(i, K)]
  <1>1. n \in Nat
    BY FS_CardinalityType
  <1>2. ASSUME NEW i \in K
        PROVE  Place(i, K) \in 1 .. n
    <2>1. {j \in K : j <= i} # {} /\ IsFiniteSet({j \in K : j <= i})
      <3>1. IsFiniteSet({j \in K : j <= i})
        BY FS_Subset
      <3>2. QED
        BY <3>1
    <2>2. Place(i, K) # 0
      BY <2>1, FS_EmptySet DEF Place
    <2>3. QED
      BY <1>1, <2>2, PlaceIsNat
  <1>3. ASSUME NEW i \in K, NEW j \in K, Place(i, K) = Place(j, K)
        PROVE  i = j
    <2>1. Place(i, K) \in Nat
      BY PlaceIsNat
    <2>2. ~(i < j) /\ ~(j < i)
      BY <1>3, <2>1, PlaceGrows
    <2>3. QED
      BY <2>2
  <1>4. f \in Injection(K, 1 .. n)
    BY <1>2, <1>3 DEF Injection, IsInjective
  <1>5. IsFiniteSet(1 .. n) /\ Cardinality(1 .. n) = n
    BY <1>1, FS_Interval
  <1>6. f \in Surjection(K, 1 .. n)
    <2> HIDE DEF f, n
    <2>1. Cardinality(K) = Cardinality(1 .. n)
      BY <1>5 DEF n
    <2>2. QED
      BY <1>4, <1>5, <2>1, FS_Injection
  <1>7. \A k \in 1 .. n : \E i \in K : Place(i, K) = k
    BY <1>6 DEF Surjection
  <1>8. QED
    BY <1>1, <1>2, <1>3, <1>7

LEMMA SublistIs ==
  ASSUME NEW T, NEW s \in Seq(T), NEW S
  PROVE  /\ Sublist(s, S) \in Seq(T)
         /\ ToSet(Sublist(s, S)) = ToSet(s) \cap S
         /\ IsInjective(s) => IsInjective(Sublist(s, S))
         /\ \A k, l \in DOMAIN Sublist(s, S) : k < l =>
              \E i, j \in DOMAIN s : i < j /\ Sublist(s, S)[k] = s[i] /\ Sublist(s, S)[l] = s[j]
  <1> DEFINE K == {i \in DOMAIN s : s[i] \in S}
             n == Cardinality(K)
             at(k) == CHOOSE i \in K : Place(i, K) = k
  <1>1. DOMAIN s = 1 .. Len(s) /\ Len(s) \in Nat /\ \A i \in DOMAIN s : s[i] \in T
    BY LenProperties, ElementOfSeq
  <1>2. K \in SUBSET Nat /\ IsFiniteSet(K)
    <2>1. IsFiniteSet(1 .. Len(s))
      BY <1>1, FS_Interval
    <2>2. K \in SUBSET (1 .. Len(s))
      BY <1>1
    <2>3. IsFiniteSet(K)
      <3> HIDE DEF K
      <3>1. QED
        BY <2>1, <2>2, FS_Subset
    <2>4. QED
      BY <1>1, <2>3
  <1>3. /\ n \in Nat
        /\ \A i \in K : Place(i, K) \in 1 .. n
        /\ \A i, j \in K : Place(i, K) = Place(j, K) => i = j
        /\ \A k \in 1 .. n : \E i \in K : Place(i, K) = k
    <2> HIDE DEF K
    <2>1. QED
      BY <1>2, PlacesAreAll
  <1>4. \A k \in 1 .. n : at(k) \in K /\ Place(at(k), K) = k
    <2> HIDE DEF K
    <2>1. QED
      BY <1>3
  <1>5. Sublist(s, S) = [k \in 1 .. n |-> s[at(k)]]
    BY DEF Sublist
  <1>6. \A k \in K : k \in DOMAIN s /\ s[k] \in S
    OBVIOUS
  <1>7. \A k \in DOMAIN s : s[k] \in S => k \in K
    OBVIOUS
  <1> HIDE DEF K, n, at
  <1>8. Sublist(s, S) \in Seq(T)
    BY <1>1, <1>3, <1>4, <1>5, <1>6
  <1>9. ToSet(Sublist(s, S)) = ToSet(s) \cap S
    <2>1. ASSUME NEW k \in 1 .. n
          PROVE  s[at(k)] \in ToSet(s) \cap S
      BY <1>4, <1>6 DEF ToSet
    <2>2. ASSUME NEW e \in ToSet(s) \cap S
          PROVE  \E k \in 1 .. n : s[at(k)] = e
      <3>1. PICK i \in DOMAIN s : s[i] = e
        BY DEF ToSet
      <3>2. i \in K
        BY <1>7, <3>1
      <3>3. Place(i, K) \in 1 .. n /\ at(Place(i, K)) = i
        BY <1>3, <1>4, <3>2
      <3>4. QED
        BY <3>1, <3>3
    <2>3. DOMAIN Sublist(s, S) = 1 .. n /\ \A k \in 1 .. n : Sublist(s, S)[k] = s[at(k)]
      BY <1>5
    <2>4. QED
      BY <2>1, <2>2, <2>3 DEF ToSet
  <1>10. ASSUME IsInjective(s)
         PROVE  IsInjective(Sublist(s, S))
    <2>1. ASSUME NEW k \in 1 .. n, NEW l \in 1 .. n, s[at(k)] = s[at(l)]
          PROVE  k = l
      <3>1. at(k) = at(l)
        BY <1>4, <1>6, <1>10, <2>1 DEF IsInjective
      <3>2. QED
        BY <1>4, <3>1
    <2>2. DOMAIN Sublist(s, S) = 1 .. n /\ \A k \in 1 .. n : Sublist(s, S)[k] = s[at(k)]
      BY <1>5
    <2>3. QED
      BY <2>1, <2>2 DEF IsInjective
  <1>11. ASSUME NEW k \in DOMAIN Sublist(s, S), NEW l \in DOMAIN Sublist(s, S), k < l
         PROVE  \E i, j \in DOMAIN s :
                  i < j /\ Sublist(s, S)[k] = s[i] /\ Sublist(s, S)[l] = s[j]
    <2>1. k \in 1 .. n /\ l \in 1 .. n /\ Sublist(s, S)[k] = s[at(k)] /\ Sublist(s, S)[l] = s[at(l)]
      BY <1>5
    <2>2. at(k) \in K /\ at(l) \in K /\ Place(at(k), K) = k /\ Place(at(l), K) = l
      BY <1>4, <2>1
    <2> DEFINE x == at(k)
               y == at(l)
    <2>3. x \in K /\ y \in K /\ Place(x, K) = k /\ Place(y, K) = l /\ k \in Nat /\ l \in Nat
      BY <1>3, <2>1, <2>2
    <2> HIDE DEF x, y
    <2>6. y < x => Place(y, K) < Place(x, K)
      BY <1>2, <2>3, PlaceGrows
    <2>7. x \in Nat /\ y \in Nat
      BY <1>2, <2>3
    <2>8. x < y
      BY <1>11, <2>3, <2>6, <2>7
    <2>4. at(k) < at(l)
      BY <2>8 DEF x, y
    <2>5. QED  BY <1>6, <2>1, <2>2, <2>4
  <1>12. QED
    BY <1>8, <1>9, <1>10, <1>11

-----------------------------------------------------------------------------
(***************************************************************************)
(* The vector memory.                                                      *)
(***************************************************************************)

(* A process with the database open, and how far an index has come: of the *)
(* files and edges that are not before it, the database holds each.        *)
Clients ==
    [pc : {"idle", "record", "rebuild", "next", "graph", "embed", "done"},
     cmd : {"none", "store", "read", "delete", "index", "hook"},
     embedder : Embedders \cup {NoMeta}, nodes : [EntryKeys -> Entries], todo : Seq(EntryKeys),
     text : 0 .. MaxTexts, apart : BOOLEAN, moved : BOOLEAN]
OpenPc == {"next", "graph", "embed", "done"}
TicketKeys == {k \in EntryKeys : k[1] # GraphNamespace}
EdgeKeys == {k \in EntryKeys : k[1] = GraphNamespace}

FilesDone(before, table, texts) ==
    \A k \in TicketKeys :
      k[2] \in ToSet(ticketKnowledgeFiles) /\ k \notin before /\ texts[k] # 0 =>
        table[k].text = texts[k]
EdgesDone(before, table, edges) ==
    \A e \in edges : EdgeKey(e) \notin before => table[EdgeKey(e)].text = EdgeText

OnFiles(c, table, texts) ==
    ToSet(c.todo) \subseteq TicketKeys /\ FilesDone(ToSet(c.todo), table, texts)
OnEdges(c, table, texts, edges) ==
    /\ ToSet(c.todo) \subseteq EdgeKeys
    /\ FilesDone({}, table, texts) /\ EdgesDone(ToSet(c.todo), table, edges)
Progress(c, table, texts, edges) ==
    /\ c.pc = "next" => OnFiles(c, table, texts)
    /\ c.pc = "graph" => OnEdges(c, table, texts, edges)
    /\ c.pc = "embed" =>
         \/ OnFiles(c, table, texts) /\ c.text = texts[Head(c.todo)]
         \/ OnEdges(c, table, texts, edges) /\ c.text = EdgeText
    /\ c.pc = "done" => FilesDone({}, table, texts) /\ EdgesDone({}, table, edges)

(* The embedder of a process is the one on record from when it has passed  *)
(* the check, and its copy is the table as long as nobody else writes.     *)
ClientFits(c, meta, table, texts, edges) ==
    /\ c.pc = "idle" => c = NoClient
    /\ c.pc \in {"next", "graph", "embed"} => c.cmd \in {"store", "index", "hook"}
    /\ c.pc = "graph" => c.cmd = "index"
    /\ c.pc = "embed" => c.todo # <<>> /\ c.text \in Texts
    /\ c.pc # "idle" => c.embedder \in Embedders
    /\ c.pc \in OpenPc \cup {"rebuild"} => c.embedder = meta
    /\ c.pc \notin OpenPc => ~c.apart /\ ~c.moved
    /\ c.pc \in OpenPc /\ ~c.apart => c.nodes = table
    /\ c.pc \in OpenPc /\ c.cmd = "index" /\ ~c.apart /\ ~c.moved =>
         Progress(c, table, texts, edges)
Fits(c) == ClientFits(c, embedderMeta, memoryEntries, ticketText, graphEdges)
FitsNext(c) == ClientFits(c, embedderMeta', memoryEntries', ticketText', graphEdges')

MemoryInv ==
    /\ embedderMeta \in Embedders \cup {NoMeta}
    /\ memoryEntries \in [EntryKeys -> Entries]
    /\ memoryDB \in BOOLEAN /\ nested \in BOOLEAN
    /\ ticketText \in [EntryKeys -> 0 .. MaxTexts]
    /\ graphEdges \subseteq GraphEdges
    /\ \A k \in EdgeKeys : ticketText[k] = 0
    /\ client \in [MemoryProcs -> Clients]
    /\ \A p \in MemoryProcs : Fits(client[p])
    /\ OneEmbedder

-----------------------------------------------------------------------------
(* The keys and the entries.                                               *)

LEMMA KeysAreFinite == IsFiniteSet(EntryKeys)
  <1> DEFINE A == {<<TicketNamespace(t), f>> : t \in MemoryTasks, f \in TicketFiles}
             B == {EdgeKey(e) : e \in GraphEdges}
             a == [x \in MemoryTasks \X TicketFiles |-> <<TicketNamespace(x[1]), x[2]>>]
             b == [e \in GraphEdges |-> EdgeKey(e)]
  <1>1. IsFiniteSet(MemoryTasks \X TicketFiles) /\ IsFiniteSet(GraphEdges)
    BY MemoryAssumption, FS_Product
  <1>2. a \in Surjection(MemoryTasks \X TicketFiles, A)
    <2>1. \A x \in MemoryTasks \X TicketFiles : a[x] \in A
      OBVIOUS
    <2>2. ASSUME NEW y \in A PROVE \E x \in MemoryTasks \X TicketFiles : a[x] = y
      <3>1. PICK t \in MemoryTasks, f \in TicketFiles : y = <<TicketNamespace(t), f>>
        BY <2>2
      <3>2. a[<<t, f>>] = y
        BY <3>1
      <3>3. QED  BY <3>2
    <2>3. a \in [MemoryTasks \X TicketFiles -> A]
      BY <2>1
    <2> HIDE DEF a, A
    <2>4. QED  BY <2>2, <2>3 DEF Surjection
  <1>3. b \in Surjection(GraphEdges, B)
    BY DEF Surjection
  <1> HIDE DEF A, B, a, b
  <1>4. IsFiniteSet(A) /\ IsFiniteSet(B)
    BY <1>1, <1>2, <1>3, FS_Surjection
  <1>5. IsFiniteSet(A \cup B)
    BY <1>4, FS_Union
  <1>6. EntryKeys = A \cup B
    BY DEF EntryKeys, A, B
  <1>7. QED  BY <1>5, <1>6

LEMMA NamespacesDiffer == ASSUME NEW t PROVE TicketNamespace(t) # GraphNamespace
  <1>1. Len(TicketNamespace(t)) = 2 /\ Len(GraphNamespace) = 1
    BY DEF TicketNamespace, GraphNamespace
  <1>2. QED  BY <1>1

LEMMA KeyKinds ==
    /\ \A t \in MemoryTasks, f \in TicketFiles : <<TicketNamespace(t), f>> \in TicketKeys
    /\ \A e \in GraphEdges : EdgeKey(e) \in EdgeKeys
    /\ \A k \in TicketKeys : \E t \in MemoryTasks, f \in TicketFiles : k = <<TicketNamespace(t), f>>
    /\ \A k \in EdgeKeys : \E e \in GraphEdges : k = EdgeKey(e)
    /\ EntryKeys = TicketKeys \cup EdgeKeys /\ TicketKeys \cap EdgeKeys = {}
  <1>1. ASSUME NEW t PROVE TicketNamespace(t) # GraphNamespace
    BY NamespacesDiffer
  <1>2. \A t \in MemoryTasks, f \in TicketFiles : <<TicketNamespace(t), f>> \in TicketKeys
    BY <1>1 DEF TicketKeys, EntryKeys
  <1>3. \A e \in GraphEdges : EdgeKey(e) \in EdgeKeys
    BY DEF EdgeKeys, EntryKeys, EdgeKey
  <1>4. EntryKeys = TicketKeys \cup EdgeKeys /\ TicketKeys \cap EdgeKeys = {}
    BY DEF EdgeKeys, TicketKeys
  <1>5. \A k \in EntryKeys : \/ \E t \in MemoryTasks, f \in TicketFiles : k = <<TicketNamespace(t), f>>
                             \/ \E e \in GraphEdges : k = EdgeKey(e)
    BY DEF EntryKeys
  <1>6. QED  BY <1>2, <1>3, <1>4, <1>5

LEMMA EntriesAre ==
    /\ NoEntry \in Entries /\ NoMeta \notin Embedders /\ EdgeText \in Texts
    /\ \A x \in Texts, e \in Embedders :
         [text |-> x, by |-> e] \in Entries /\ [text |-> x, by |-> e] # NoEntry
    /\ \A n \in Entries : n # NoEntry => n.text \in Texts /\ n.by \in Embedders
    /\ Texts \subseteq 0 .. MaxTexts /\ 0 \in 0 .. MaxTexts
  <1>1. NoEntry = [text |-> 0, by |-> [name |-> "none", dim |-> 0]] /\ 0 \notin Texts
    BY MemoryAssumption DEF NoEntry, Texts
  <1>2. NoMeta \notin Embedders
    BY MemoryAssumption DEF NoMeta, NoEntry
  <1>3. EdgeText \in Texts /\ Texts \subseteq 0 .. MaxTexts /\ 0 \in 0 .. MaxTexts
    BY MemoryAssumption DEF EdgeText, Texts
  <1>4. QED  BY <1>1, <1>2, <1>3 DEF Entries

LEMMA NoClientFits == NoClient \in Clients /\ Fits(NoClient) /\ NoClient.pc = "idle"
  <1>1. NoEntries \in [EntryKeys -> Entries]
    BY EntriesAre DEF NoEntries
  <1>2. NoClient \in Clients
    BY <1>1, EntriesAre DEF NoClient, Clients
  <1>3. /\ NoClient.pc = "idle" /\ NoClient.apart = FALSE /\ NoClient.moved = FALSE
    BY DEF NoClient
  <1>4. QED  BY <1>2, <1>3 DEF ClientFits, Fits, FitsNext, OpenPc

-----------------------------------------------------------------------------
(* One process goes on, and the tables stay.                               *)

LEMMA OneClient ==
    ASSUME MemoryInv, NEW p \in MemoryProcs, NEW d \in Clients, Fits(d),
           client' = [client EXCEPT ![p] = d], memoryDB' \in BOOLEAN,
           UNCHANGED <<embedderMeta, memoryEntries, ticketText, graphEdges, nested>>
    PROVE  MemoryInv'
  <1>1. client \in [MemoryProcs -> Clients] /\ client' \in [MemoryProcs -> Clients]
    BY DEF MemoryInv
  <1>3. ASSUME NEW q \in MemoryProcs PROVE FitsNext(client'[q])
    <2>1. client'[q] = client[q] \/ client'[q] = d
      BY <1>1
    <2>2. Fits(client[q])
      BY DEF MemoryInv
    <2>3. QED
      BY <2>1, <2>2 DEF ClientFits, Fits, FitsNext, Progress, OnFiles, OnEdges, FilesDone, EdgesDone
  <1>4. OneEmbedder'
    BY DEF OneEmbedder, StoredIn, MemoryInv
  <1>5. QED  BY <1>1, <1>3, <1>4 DEF MemoryInv, Fits, FitsNext

-----------------------------------------------------------------------------
(* What a command works through.                                           *)

LEMMA FilesAreTickets ==
    ASSUME NEW tasks \in Seq(MemoryTasks), NEW names, Len(names) \in Nat
    PROVE  /\ FileKeys(tasks, names) \in Seq(EntryKeys)
           /\ ToSet(FileKeys(tasks, names)) \subseteq TicketKeys
  <1> DEFINE m == Len(names)
             s == [i \in 1 .. Len(tasks) * m |->
                     <<TicketNamespace(tasks[((i - 1) \div m) + 1]), names[((i - 1) % m) + 1]>>]
             T == {s[i] : i \in DOMAIN s}
  <1>1. Len(tasks) \in Nat /\ m \in Nat /\ Len(tasks) * m \in Nat
    <2>1. Len(tasks) \in Nat /\ m \in Nat
      OBVIOUS
    <2> HIDE DEF m
    <2>2. QED  BY <2>1
  <1>2. s \in Seq(T)
    <2> DEFINE l == Len(tasks) * m
    <2>1. l \in Nat
      BY <1>1
    <2>2. s \in [1 .. l -> T]
      OBVIOUS
    <2> HIDE DEF l, s, T
    <2>3. QED  BY <2>1, <2>2
  <1>3. FileKeys(tasks, names) = Sublist(s, EntryKeys)
    BY DEF FileKeys
  <1>4. \A x \in T : x[1] # GraphNamespace
    BY NamespacesDiffer
  <1>5. /\ Sublist(s, EntryKeys) \in Seq(T)
        /\ ToSet(Sublist(s, EntryKeys)) = ToSet(s) \cap EntryKeys
    <2> HIDE DEF s, T
    <2>1. QED  BY <1>2, SublistIs
  <1>6. ToSet(s) \subseteq T
    BY DEF ToSet
  <1> HIDE DEF s, T
  <1>7. ToSet(Sublist(s, EntryKeys)) \subseteq TicketKeys
    BY <1>4, <1>5, <1>6 DEF TicketKeys
  <1>8. Sublist(s, EntryKeys) \in Seq(EntryKeys)
    <2> DEFINE u == Sublist(s, EntryKeys)
    <2>1. u \in Seq(T) /\ ToSet(u) \subseteq EntryKeys
      BY <1>5
    <2> HIDE DEF u
    <2>2. \A i \in 1 .. Len(u) : u[i] \in EntryKeys
      BY <2>1 DEF ToSet
    <2>3. QED  BY <2>1, <2>2 DEF u
  <1>9. QED  BY <1>3, <1>7, <1>8

(* An index reads every file that a ticket can have.                       *)
LEMMA AllFilesArePlanned ==
    LET s == FileKeys(SetToSeq(MemoryTasks), ticketKnowledgeFiles)
    IN  /\ s \in Seq(EntryKeys) /\ ToSet(s) \subseteq TicketKeys
        /\ \A k \in TicketKeys : k[2] \in ToSet(ticketKnowledgeFiles) => k \in ToSet(s)
  <1> DEFINE ts == SetToSeq(MemoryTasks)
             names == ticketKnowledgeFiles
             n == Len(ts)
             w == [i \in 1 .. n * 4 |->
                     <<TicketNamespace(ts[((i - 1) \div 4) + 1]), names[((i - 1) % 4) + 1]>>]
             T == {w[i] : i \in DOMAIN w}
  <1>1. ts \in Seq(MemoryTasks) /\ ToSet(ts) = MemoryTasks
    BY SetAsSeq, MemoryAssumption
  <1>2. Len(names) = 4 /\ DOMAIN names = 1 .. 4
    BY DEF ticketKnowledgeFiles
  <1>3. FileKeys(ts, names) = Sublist(w, EntryKeys)
    BY <1>2 DEF FileKeys
  <1>4. n \in Nat /\ n * 4 \in Nat
    BY <1>1
  <1>5. w \in Seq(T) /\ DOMAIN w = 1 .. n * 4
    <2> DEFINE l == n * 4
    <2>1. l \in Nat
      BY <1>4
    <2>2. w \in [1 .. l -> T]
      OBVIOUS
    <2> HIDE DEF l, w, T
    <2>3. w \in Seq(T) /\ DOMAIN w = 1 .. l
      BY <2>1, <2>2
    <2>4. QED  BY <2>3 DEF l
  <1>6. ASSUME NEW k \in TicketKeys, k[2] \in ToSet(names)
        PROVE  k \in ToSet(w)
    <2>1. PICK t \in MemoryTasks, f \in TicketFiles : k = <<TicketNamespace(t), f>>
      BY KeyKinds
    <2>2. PICK b \in 1 .. 4 : names[b] = f
      BY <1>2, <1>6, <2>1 DEF ToSet
    <2>3. PICK a \in 1 .. n : ts[a] = t
      BY <1>1 DEF ToSet
    <2> DEFINE i == (a - 1) * 4 + b
    <2>4. i \in 1 .. n * 4 /\ ((i - 1) \div 4) + 1 = a /\ ((i - 1) % 4) + 1 = b
      <3> HIDE DEF n
      <3>1. QED  BY <1>4
    <2>5. w[i] = k
      <3> HIDE DEF i
      <3>1. w[i] = <<TicketNamespace(ts[((i - 1) \div 4) + 1]), names[((i - 1) % 4) + 1]>>
        BY <2>4
      <3>2. QED  BY <2>1, <2>2, <2>3, <2>4, <3>1
    <2> HIDE DEF i, w
    <2>6. QED  BY <1>5, <2>4, <2>5 DEF ToSet
  <1> HIDE DEF w, T
  <1>7. ToSet(Sublist(w, EntryKeys)) = ToSet(w) \cap EntryKeys
    BY <1>5, SublistIs
  <1>8. FileKeys(ts, names) \in Seq(EntryKeys) /\ ToSet(FileKeys(ts, names)) \subseteq TicketKeys
    <2> HIDE DEF ts, names
    <2>1. QED  BY <1>1, <1>2, FilesAreTickets
  <1>9. \A k \in TicketKeys : k[2] \in ToSet(names) => k \in ToSet(FileKeys(ts, names))
    BY <1>3, <1>6, <1>7 DEF TicketKeys
  <1>10. QED  BY <1>8, <1>9

-----------------------------------------------------------------------------
(* The steps of one process that leave the tables alone.                   *)

LEMMA OpenKeeps ==
    ASSUME MemoryInv, NEW p \in MemoryProcs, NEW e \in Embedders,
           NEW cmd \in {"store", "read", "delete", "index", "hook"}, OpenSQLiteStore(p, cmd, e)
    PROVE  MemoryInv'
  <1> DEFINE v == verifyOrRecordEmbedderMeta(embedderMeta, e)
             d == IF v = "refused" THEN NoClient
                  ELSE [NoClient EXCEPT !.pc = v, !.cmd = cmd, !.embedder = e]
  <1>1. /\ client' = [client EXCEPT ![p] = d] /\ memoryDB' \in BOOLEAN
        /\ UNCHANGED <<embedderMeta, memoryEntries, ticketText, graphEdges, nested>>
    BY DEF OpenSQLiteStore
  <1>2. v \in {"record", "rebuild", "refused"} /\ (v = "rebuild" => embedderMeta = e)
    BY DEF verifyOrRecordEmbedderMeta
  <1> HIDE DEF v
  <1>3. CASE v = "refused"
    <2>1. d = NoClient
      BY <1>3
    <2> HIDE DEF d
    <2>2. QED  BY <1>1, <2>1, NoClientFits, OneClient
  <1>4. CASE v # "refused"
    <2>1. d = [NoClient EXCEPT !.pc = v, !.cmd = cmd, !.embedder = e]
      BY <1>4
    <2> HIDE DEF d
    <2>2. d \in Clients /\ d.pc = v /\ d.embedder = e /\ d.cmd = cmd
      BY <1>2, <1>4, <2>1, NoClientFits DEF Clients
    <2>3. d.apart = FALSE /\ d.moved = FALSE
      BY <2>1 DEF NoClient
    <2>4. v \in {"record", "rebuild"}
      BY <1>2, <1>4
    <2>5. Fits(d)
      BY <1>2, <2>2, <2>3, <2>4 DEF ClientFits, Fits, FitsNext, OpenPc
    <2>6. QED  BY <1>1, <2>2, <2>5, OneClient
  <1>5. QED  BY <1>3, <1>4

LEMMA StopKeeps ==
    ASSUME MemoryInv, NEW p \in MemoryProcs, client' = [client EXCEPT ![p] = NoClient],
           UNCHANGED <<embedderMeta, memoryEntries, memoryDB, ticketText, graphEdges, nested>>
    PROVE  MemoryInv'
  <1>1. memoryDB' \in BOOLEAN
    BY DEF MemoryInv
  <1>2. QED  BY <1>1, NoClientFits, OneClient

LEMMA ClientAt ==
    ASSUME MemoryInv, NEW p \in MemoryProcs
    PROVE  client[p] \in Clients /\ Fits(client[p]) /\ client \in [MemoryProcs -> Clients]
           /\ memoryEntries \in [EntryKeys -> Entries] /\ memoryDB \in BOOLEAN
  BY DEF MemoryInv

LEMMA RebuildKeeps ==
    ASSUME MemoryInv, NEW p \in MemoryProcs, rebuildIndex(p)
    PROVE  MemoryInv'
  <1> DEFINE c == client[p]
             next == IF c.cmd \in {"index", "hook", "store"} THEN "next" ELSE "done"
  <1>1. c \in Clients /\ Fits(c) /\ c.pc = "rebuild" /\ memoryEntries \in [EntryKeys -> Entries]
        /\ memoryDB' \in BOOLEAN
    BY ClientAt DEF rebuildIndex
  <1>2. PICK t \in MemoryTasks, k \in EntryKeys :
          client' = [client EXCEPT ![p].nodes = memoryEntries,
                       ![p].todo = CASE c.cmd = "index" ->
                                          FileKeys(SetToSeq(MemoryTasks), ticketKnowledgeFiles)
                                     [] c.cmd = "hook" -> FileKeys(<<t>>, taskCompletedFiles)
                                     [] c.cmd \in {"store", "delete"} -> <<k>>
                                     [] OTHER -> <<>>,
                       ![p].pc = next]
    BY DEF rebuildIndex
  <1> DEFINE plan == CASE c.cmd = "index" -> FileKeys(SetToSeq(MemoryTasks), ticketKnowledgeFiles)
                       [] c.cmd = "hook" -> FileKeys(<<t>>, taskCompletedFiles)
                       [] c.cmd \in {"store", "delete"} -> <<k>>
                       [] OTHER -> <<>>
             d == [c EXCEPT !.nodes = memoryEntries, !.todo = plan, !.pc = next]
  <1>3. client' = [client EXCEPT ![p] = d]
    BY <1>2, ClientAt
  <1>4. plan \in Seq(EntryKeys)
    <2>1. FileKeys(SetToSeq(MemoryTasks), ticketKnowledgeFiles) \in Seq(EntryKeys)
      BY AllFilesArePlanned
    <2>2. FileKeys(<<t>>, taskCompletedFiles) \in Seq(EntryKeys)
      <3>1. <<t>> \in Seq(MemoryTasks) /\ Len(taskCompletedFiles) \in Nat
        BY DEF taskCompletedFiles
      <3>2. QED  BY <3>1, FilesAreTickets
    <2>3. <<k>> \in Seq(EntryKeys) /\ <<>> \in Seq(EntryKeys)
      OBVIOUS
    <2>4. QED  BY <2>1, <2>2, <2>3
  <1>5. c.cmd = "index" => OnFiles(d, memoryEntries, ticketText)
    <2> SUFFICES ASSUME c.cmd = "index" PROVE OnFiles(d, memoryEntries, ticketText)
      OBVIOUS
    <2>1. d.todo = FileKeys(SetToSeq(MemoryTasks), ticketKnowledgeFiles)
      BY <1>1 DEF Clients
    <2> HIDE DEF d
    <2>2. /\ ToSet(d.todo) \subseteq TicketKeys
          /\ \A x \in TicketKeys : x[2] \in ToSet(ticketKnowledgeFiles) => x \in ToSet(d.todo)
      BY <2>1, AllFilesArePlanned
    <2>3. QED  BY <2>2 DEF OnFiles, FilesDone
  <1> HIDE DEF plan
  <1>6. /\ d \in Clients /\ d.pc = next /\ d.cmd = c.cmd /\ d.embedder = c.embedder
        /\ d.nodes = memoryEntries /\ d.apart = c.apart /\ d.moved = c.moved
    BY <1>1, <1>4 DEF Clients
  <1> HIDE DEF d
  <1>7. next \in {"next", "done"} /\ (next = "next" <=> c.cmd \in {"index", "hook", "store"})
    OBVIOUS
  <1> HIDE DEF next
  <1>8. Fits(d)
    BY <1>1, <1>5, <1>6, <1>7 DEF ClientFits, Fits, FitsNext, OpenPc, Progress
  <1>9. QED  BY <1>1, <1>3, <1>6, <1>8, OneClient DEF rebuildIndex

LEMMA ReadFileKeeps ==
    ASSUME MemoryInv, NEW p \in MemoryProcs, indexTaskFiles(p)
    PROVE  MemoryInv'
  <1> DEFINE c == client[p]
  <1>1. c \in Clients /\ Fits(c) /\ c.pc = "next" /\ c.todo # <<>> /\ memoryDB' \in BOOLEAN
        /\ c.todo \in Seq(EntryKeys)
    BY ClientAt DEF indexTaskFiles, Clients
  <1>2. /\ Head(c.todo) \in EntryKeys /\ Tail(c.todo) \in Seq(EntryKeys)
        /\ ToSet(c.todo) = {Head(c.todo)} \cup ToSet(Tail(c.todo))
    BY <1>1, FirstAndRest
  <1>3. PICK text \in IF c.cmd = "store" THEN Texts ELSE {TextOf(Head(c.todo), c.cmd = "hook")} :
          client' = [client EXCEPT ![p] = IF text = 0 THEN [@ EXCEPT !.todo = Tail(c.todo)]
                                          ELSE [@ EXCEPT !.pc = "embed", !.text = text]]
    BY DEF indexTaskFiles
  <1>4. text \in 0 .. MaxTexts /\ (c.cmd = "index" => text = ticketText[Head(c.todo)])
    <2>1. ticketText[Head(c.todo)] \in 0 .. MaxTexts
      BY <1>2 DEF MemoryInv
    <2>2. TextOf(Head(c.todo), c.cmd = "hook") \in {0, ticketText[Head(c.todo)]}
          /\ (c.cmd = "index" => TextOf(Head(c.todo), c.cmd = "hook") = ticketText[Head(c.todo)])
      BY DEF TextOf
    <2>3. QED  BY <2>1, <2>2, <1>3, EntriesAre
  <1>5. text # 0 => text \in Texts
    BY <1>4, MemoryAssumption DEF Texts
  <1> DEFINE d1 == [c EXCEPT !.todo = Tail(c.todo)]
             d2 == [c EXCEPT !.pc = "embed", !.text = text]
  <1>6. \/ text = 0 /\ client' = [client EXCEPT ![p] = d1]
        \/ text # 0 /\ client' = [client EXCEPT ![p] = d2]
    <2>1. CASE text = 0
      <3>1. client' = [client EXCEPT ![p] = [@ EXCEPT !.todo = Tail(c.todo)]]
        BY <1>3, <2>1
      <3>2. QED  BY <2>1, <3>1, ClientAt
    <2>2. CASE text # 0
      <3>1. client' = [client EXCEPT ![p] = [@ EXCEPT !.pc = "embed", !.text = text]]
        BY <1>3, <2>2
      <3>2. QED  BY <2>2, <3>1, ClientAt
    <2>3. QED  BY <2>1, <2>2
  <1>7. /\ d1 \in Clients /\ d1.pc = "next" /\ d1.cmd = c.cmd /\ d1.embedder = c.embedder
        /\ d1.nodes = c.nodes /\ d1.apart = c.apart /\ d1.moved = c.moved /\ d1.todo = Tail(c.todo)
    BY <1>1, <1>2 DEF Clients
  <1>8. /\ d2 \in Clients /\ d2.pc = "embed" /\ d2.cmd = c.cmd /\ d2.embedder = c.embedder
        /\ d2.nodes = c.nodes /\ d2.apart = c.apart /\ d2.moved = c.moved /\ d2.todo = c.todo
        /\ d2.text = text
    BY <1>1, <1>4 DEF Clients
  <1> HIDE DEF d1, d2
  <1>9. CASE text = 0
    <2>1. ASSUME c.cmd = "index", OnFiles(c, memoryEntries, ticketText) PROVE OnFiles(d1, memoryEntries, ticketText)
      BY <1>2, <1>4, <1>7, <1>9, <2>1 DEF OnFiles, FilesDone
    <2>2. c.cmd = "index" /\ ~c.apart /\ ~c.moved => Progress(d1, memoryEntries, ticketText, graphEdges)
      BY <1>1, <1>7, <2>1 DEF ClientFits, Fits, FitsNext, OpenPc, Progress
    <2>3. Fits(d1)
      BY <1>1, <1>7, <2>2 DEF ClientFits, Fits, FitsNext, OpenPc
    <2>4. QED  BY <1>1, <1>6, <1>7, <1>9, <2>3, OneClient DEF indexTaskFiles
  <1>10. CASE text # 0
    <2>1. ASSUME c.cmd = "index", OnFiles(c, memoryEntries, ticketText)
          PROVE  OnFiles(d2, memoryEntries, ticketText) /\ d2.text = ticketText[Head(d2.todo)]
      BY <1>4, <1>8, <2>1 DEF OnFiles
    <2>2. c.cmd = "index" /\ ~c.apart /\ ~c.moved => Progress(d2, memoryEntries, ticketText, graphEdges)
      BY <1>1, <1>8, <2>1 DEF ClientFits, Fits, FitsNext, OpenPc, Progress
    <2>3. Fits(d2)
      BY <1>1, <1>5, <1>8, <1>10, <2>2 DEF ClientFits, Fits, FitsNext, OpenPc
    <2>4. QED  BY <1>1, <1>6, <1>8, <1>10, <2>3, OneClient DEF indexTaskFiles
  <1>11. QED  BY <1>9, <1>10

LEMMA NextPhaseKeeps ==
    ASSUME MemoryInv, NEW p \in MemoryProcs, IndexWorkspace(p)
    PROVE  MemoryInv'
  <1> DEFINE c == client[p]
             E == {EdgeKey(e) : e \in graphEdges}
             onGraph == c.cmd = "index" /\ graphEdges # {}
             todo == IF c.cmd = "index" THEN SetToSeq(E) ELSE <<>>
             to == IF onGraph THEN "graph" ELSE "done"
             d == [c EXCEPT !.todo = todo, !.pc = to]
  <1>1. c \in Clients /\ Fits(c) /\ c.pc = "next" /\ c.todo = <<>> /\ memoryDB' \in BOOLEAN
    BY ClientAt DEF IndexWorkspace
  <1>2. client' = [client EXCEPT ![p] = d]
    BY ClientAt DEF IndexWorkspace
  <1>3. /\ SetToSeq(E) \in Seq(E) /\ ToSet(SetToSeq(E)) = E /\ (SetToSeq(E) = <<>> <=> E = {})
        /\ E \subseteq EdgeKeys /\ E \subseteq EntryKeys
    <2>1. E \subseteq EdgeKeys
      BY KeyKinds DEF MemoryInv
    <2>2. E \in SUBSET EntryKeys
      BY <2>1, KeyKinds
    <2> HIDE DEF E
    <2>3. IsFiniteSet(E)
      BY <2>2, KeysAreFinite, FS_Subset
    <2>4. QED  BY <2>1, <2>2, <2>3, SetAsSeq
  <1>4. E = {} <=> graphEdges = {}
    OBVIOUS
  <1>5. \A e \in graphEdges : EdgeKey(e) \in E
    OBVIOUS
  <1> HIDE DEF E
  <1>6. todo \in Seq(EntryKeys)
    BY <1>3
  <1>7. /\ ToSet(<<>>) = {}
        /\ c.cmd = "index" => todo = SetToSeq(E)
        /\ onGraph => to = "graph" /\ c.cmd = "index"
        /\ ~onGraph => to = "done"
        /\ c.cmd = "index" /\ ~onGraph => graphEdges = {}
    BY DEF ToSet
  <1> HIDE DEF todo, onGraph, to
  <1>8. /\ d \in Clients /\ d.pc = to /\ d.cmd = c.cmd /\ d.embedder = c.embedder
        /\ d.nodes = c.nodes /\ d.apart = c.apart /\ d.moved = c.moved /\ d.todo = todo
    BY <1>1, <1>6, <1>7 DEF Clients
  <1> HIDE DEF d
  <1>9. ASSUME c.cmd = "index", ~c.apart, ~c.moved PROVE Progress(d, memoryEntries, ticketText, graphEdges)
    <2>1. FilesDone({}, memoryEntries, ticketText)
      BY <1>1, <1>7, <1>9 DEF ClientFits, Fits, FitsNext, OpenPc, Progress, OnFiles
    <2>2. CASE onGraph
      <3>1. d.pc = "graph" /\ ToSet(d.todo) = E
        BY <1>3, <1>7, <1>8, <1>9, <2>2
      <3>2. OnEdges(d, memoryEntries, ticketText, graphEdges)
        BY <1>3, <1>5, <2>1, <3>1 DEF OnEdges, EdgesDone
      <3>3. QED  BY <3>1, <3>2 DEF Progress
    <2>3. CASE ~onGraph
      <3>1. d.pc = "done" /\ EdgesDone({}, memoryEntries, graphEdges)
        BY <1>7, <1>8, <1>9, <2>3 DEF EdgesDone
      <3>2. QED  BY <2>1, <3>1 DEF Progress
    <2>4. QED  BY <2>2, <2>3
  <1>10. Fits(d)
    BY <1>1, <1>7, <1>8, <1>9 DEF ClientFits, Fits, FitsNext, OpenPc
  <1>11. QED  BY <1>1, <1>2, <1>8, <1>10, OneClient DEF IndexWorkspace

LEMMA EdgeKeeps ==
    ASSUME MemoryInv, NEW p \in MemoryProcs, IndexEdge(p)
    PROVE  MemoryInv'
  <1> DEFINE c == client[p]
             to == IF c.todo = <<>> THEN "done" ELSE "embed"
             d == [c EXCEPT !.pc = to, !.text = EdgeText]
  <1>1. c \in Clients /\ Fits(c) /\ c.pc = "graph" /\ memoryDB' \in BOOLEAN
    BY ClientAt DEF IndexEdge
  <1>2. client' = [client EXCEPT ![p] = d]
    BY ClientAt DEF IndexEdge
  <1>3. EdgeText \in Texts /\ EdgeText \in 0 .. MaxTexts
    BY EntriesAre
  <1>4. /\ to \in {"done", "embed"} /\ (to = "embed" => c.todo # <<>>)
        /\ to = "done" => ToSet(c.todo) = {}
    BY DEF ToSet
  <1> HIDE DEF to
  <1>5. /\ d \in Clients /\ d.pc = to /\ d.cmd = c.cmd /\ d.embedder = c.embedder
        /\ d.nodes = c.nodes /\ d.apart = c.apart /\ d.moved = c.moved /\ d.todo = c.todo
        /\ d.text = EdgeText
    BY <1>1, <1>3, <1>4 DEF Clients
  <1> HIDE DEF d
  <1>6. ASSUME c.cmd = "index", ~c.apart, ~c.moved PROVE Progress(d, memoryEntries, ticketText, graphEdges)
    <2>1. OnEdges(c, memoryEntries, ticketText, graphEdges)
      BY <1>1, <1>6 DEF ClientFits, Fits, FitsNext, OpenPc, Progress
    <2>2. QED  BY <1>4, <1>5, <2>1 DEF Progress, OnEdges
  <1>7. Fits(d)
    BY <1>1, <1>3, <1>4, <1>5, <1>6 DEF ClientFits, Fits, FitsNext, OpenPc
  <1>8. QED  BY <1>1, <1>2, <1>5, <1>7, OneClient DEF IndexEdge

LEMMA FailureKeeps ==
    ASSUME MemoryInv, NEW p \in MemoryProcs, EmbedFails(p)
    PROVE  MemoryInv'
  <1> DEFINE c == client[p]
             d == [c EXCEPT !.pc = "next", !.todo = Tail(c.todo)]
  <1>1. c \in Clients /\ Fits(c) /\ c.pc = "embed" /\ memoryDB' \in BOOLEAN
    BY ClientAt DEF EmbedFails
  <1>2. CASE c.cmd = "hook"
    <2>1. client' = [client EXCEPT ![p] = d]
      <3>1. client' = [client EXCEPT ![p] = [@ EXCEPT !.pc = "next", !.todo = Tail(c.todo)]]
        BY <1>2 DEF EmbedFails
      <3>2. QED  BY <3>1, ClientAt
    <2>2. c.todo \in Seq(EntryKeys) /\ c.todo # <<>>
      BY <1>1 DEF Clients, ClientFits, Fits, FitsNext
    <2>3. Tail(c.todo) \in Seq(EntryKeys)
      BY <2>2, FirstAndRest
    <2>4. /\ d \in Clients /\ d.pc = "next" /\ d.cmd = c.cmd /\ d.embedder = c.embedder
          /\ d.nodes = c.nodes /\ d.apart = c.apart /\ d.moved = c.moved
      BY <1>1, <2>3 DEF Clients
    <2> HIDE DEF d
    <2>5. Fits(d)
      BY <1>1, <1>2, <2>4 DEF ClientFits, Fits, FitsNext, OpenPc
    <2>6. QED  BY <1>1, <2>1, <2>4, <2>5, OneClient DEF EmbedFails
  <1>3. CASE c.cmd # "hook"
    <2>1. client' = [client EXCEPT ![p] = NoClient]
      BY <1>3 DEF EmbedFails
    <2>2. QED  BY <2>1, StopKeeps DEF EmbedFails
  <1>4. QED  BY <1>2, <1>3

LEMMA StopsKeep ==
    ASSUME MemoryInv, NEW p \in MemoryProcs, CloseStore(p) \/ ClientDies(p)
    PROVE  MemoryInv'
  BY StopKeeps DEF CloseStore, ClientDies

LEMMA RecordKeeps ==
    ASSUME MemoryInv, NEW p \in MemoryProcs, RecordEmbedderMeta(p)
    PROVE  MemoryInv'
  <1> DEFINE c == client[p]
             d == [c EXCEPT !.pc = "rebuild"]
  <1>1. c \in Clients /\ Fits(c) /\ c.pc = "record" /\ memoryDB' \in BOOLEAN
    BY ClientAt DEF RecordEmbedderMeta
  <1>2. CASE embedderMeta # NoMeta
    BY <1>2, StopKeeps DEF RecordEmbedderMeta
  <1>3. CASE embedderMeta = NoMeta
    <2>1. /\ embedderMeta' = c.embedder /\ client' = [client EXCEPT ![p] = d]
          /\ UNCHANGED <<memoryEntries, memoryDB, ticketText, graphEdges, nested>>
      BY <1>3, ClientAt DEF RecordEmbedderMeta
    <2>2. c.embedder \in Embedders
      BY <1>1 DEF ClientFits, Fits, FitsNext
    <2>3. /\ d \in Clients /\ d.pc = "rebuild" /\ d.cmd = c.cmd /\ d.embedder = c.embedder
          /\ d.apart = c.apart /\ d.moved = c.moved
      BY <1>1 DEF Clients
    <2> HIDE DEF d
    <2>4. client' \in [MemoryProcs -> Clients] /\ client'[p] = d
      BY <2>1, <2>3, ClientAt
    <2>5. ASSUME NEW q \in MemoryProcs PROVE FitsNext(client'[q])
      <3>1. CASE q = p
        BY <1>1, <2>1, <2>3, <2>4, <3>1 DEF ClientFits, Fits, FitsNext, OpenPc
      <3>2. CASE q # p
        <4>1. client'[q] = client[q] /\ Fits(client[q])
          BY <2>1, <3>2, ClientAt
        <4>2. client[q].pc \notin OpenPc \cup {"rebuild"}
          BY <1>3, <4>1, EntriesAre DEF ClientFits, Fits, FitsNext, OpenPc
        <4>3. QED  BY <4>1, <4>2 DEF ClientFits, Fits, FitsNext, OpenPc
      <3>3. QED  BY <3>1, <3>2
    <2>6. StoredIn(memoryEntries) = {}
      <3>1. ASSUME NEW k \in StoredIn(memoryEntries) PROVE FALSE
        <4>1. memoryEntries[k] \in Entries /\ memoryEntries[k] # NoEntry
          BY DEF StoredIn, MemoryInv
        <4>2. memoryEntries[k].by = NoMeta
          BY <1>3 DEF MemoryInv, OneEmbedder
        <4>3. QED  BY <4>1, <4>2, EntriesAre
      <3>2. QED  BY <3>1
    <2>7. OneEmbedder'
      BY <2>1, <2>6 DEF OneEmbedder, StoredIn
    <2>8. QED  BY <2>1, <2>2, <2>4, <2>5, <2>7 DEF MemoryInv, Fits, FitsNext
  <1>4. QED  BY <1>2, <1>3

-----------------------------------------------------------------------------
(* The steps that write to the table, or to what is indexed.               *)

LEMMA ApartKeeps ==
    ASSUME MemoryInv, NEW q \in MemoryProcs, NEW d,
           d = [client[q] EXCEPT !.apart = client[q].apart \/ HasOpen(q)],
           UNCHANGED embedderMeta
    PROVE  d \in Clients /\ FitsNext(d)
  <1> DEFINE c == client[q]
  <1>1. c \in Clients /\ Fits(c)
    BY ClientAt
  <1>2. HasOpen(q) <=> c.pc \in OpenPc
    BY <1>1 DEF HasOpen, Clients, OpenPc
  <1>3. CASE HasOpen(q)
    <2>1. d = [c EXCEPT !.apart = TRUE]
      BY <1>3
    <2>2. /\ d \in Clients /\ d.pc = c.pc /\ d.cmd = c.cmd /\ d.embedder = c.embedder
          /\ d.apart = TRUE /\ d.todo = c.todo /\ d.text = c.text
      BY <1>1, <2>1 DEF Clients
    <2>3. d.pc \in OpenPc
      BY <1>2, <1>3, <2>2
    <2>4. FitsNext(d)
      BY <1>1, <2>2, <2>3 DEF ClientFits, Fits, FitsNext, OpenPc
    <2>5. QED  BY <2>2, <2>4
  <1>4. CASE ~HasOpen(q)
    <2>1. c.apart \in BOOLEAN /\ HasOpen(q) = FALSE
      BY <1>1, <1>4 DEF Clients, HasOpen
    <2>2. (c.apart \/ HasOpen(q)) = c.apart
      BY <2>1
    <2>3. d = c
      <3>1. d = [c EXCEPT !.apart = c.apart]
        BY <2>2
      <3>2. QED  BY <1>1, <3>1 DEF Clients
    <2>4. FitsNext(c)
      BY <1>1, <1>2, <1>4 DEF ClientFits, Fits, FitsNext, OpenPc
    <2>5. QED  BY <1>1, <2>3, <2>4
  <1>5. QED  BY <1>3, <1>4

LEMMA WriteKeeps ==
    ASSUME MemoryInv, NEW p \in MemoryProcs, NEW key \in EntryKeys, NEW entry \in Entries,
           entry # NoEntry => entry.by = embedderMeta,
           memoryEntries' = [memoryEntries EXCEPT ![key] = entry],
           NEW d \in Clients, client' = [Behind(p) EXCEPT ![p] = d], FitsNext(d),
           UNCHANGED <<embedderMeta, memoryDB, ticketText, graphEdges, nested>>
    PROVE  MemoryInv'
  <1>1. memoryEntries' \in [EntryKeys -> Entries] /\ client' \in [MemoryProcs -> Clients]
        /\ \A q \in MemoryProcs : FitsNext(client'[q])
    <2>1. memoryEntries' \in [EntryKeys -> Entries]
      BY DEF MemoryInv
    <2>2. DOMAIN client' = MemoryProcs /\ client'[p] = d
      BY DEF Behind
    <2>3. ASSUME NEW q \in MemoryProcs \ {p}
          PROVE  client'[q] \in Clients /\ FitsNext(client'[q])
      <3>1. client'[q] = [client[q] EXCEPT !.apart = client[q].apart \/ (q # p /\ HasOpen(q))]
        BY DEF Behind
      <3>2. client'[q] = [client[q] EXCEPT !.apart = client[q].apart \/ HasOpen(q)]
        <4>1. (q # p /\ HasOpen(q)) <=> HasOpen(q)
          OBVIOUS
        <4>2. (q # p /\ HasOpen(q)) = HasOpen(q)
          BY <4>1 DEF HasOpen
        <4>3. QED  BY <3>1, <4>2
      <3> DEFINE e == client'[q]
      <3>3. e \in Clients /\ FitsNext(e)
        <4>1. e = [client[q] EXCEPT !.apart = client[q].apart \/ HasOpen(q)]
          BY <3>2
        <4> HIDE DEF e
        <4>2. QED  BY <4>1, ApartKeeps
      <3>4. QED  BY <3>3
    <2>4. client' = [q \in MemoryProcs |-> client'[q]]
      BY <2>2 DEF Behind
    <2>5. QED  BY <2>1, <2>2, <2>3, <2>4
  <1>2. OneEmbedder'
    BY <1>1 DEF OneEmbedder, StoredIn, MemoryInv
  <1>3. QED  BY <1>1, <1>2 DEF MemoryInv, Fits, FitsNext

LEMMA UpsertKeeps ==
    ASSUME MemoryInv, NEW p \in MemoryProcs, Upsert(p)
    PROVE  MemoryInv'
  <1> DEFINE c == client[p]
             key == Head(c.todo)
             entry == [text |-> c.text, by |-> c.embedder]
             table == [c.nodes EXCEPT ![key] = entry]
             to == Onward(p)
             d == [c EXCEPT !.pc = to, !.todo = Tail(c.todo), !.nodes = table]
  <1>1. c \in Clients /\ Fits(c) /\ c.pc = "embed" /\ c.todo # <<>>
        /\ c.todo \in Seq(EntryKeys) /\ c.text \in Texts /\ c.embedder \in Embedders
        /\ c.embedder = embedderMeta /\ c.nodes \in [EntryKeys -> Entries]
    BY ClientAt DEF Upsert, Clients, ClientFits, Fits, FitsNext, OpenPc
  <1>2. /\ key \in EntryKeys /\ Tail(c.todo) \in Seq(EntryKeys)
        /\ ToSet(c.todo) = {key} \cup ToSet(Tail(c.todo))
    BY <1>1, FirstAndRest
  <1>3. entry \in Entries /\ entry.by = embedderMeta /\ entry.text = c.text
    BY <1>1, EntriesAre
  <1>4. memoryEntries' = [memoryEntries EXCEPT ![key] = entry]
        /\ UNCHANGED <<embedderMeta, memoryDB, ticketText, graphEdges, nested>>
    BY DEF Upsert
  <1>5. /\ to \in {"graph", "next"}
        /\ to = "graph" <=> key[1] = GraphNamespace /\ c.cmd = "index"
    BY DEF Onward
  <1>6. client' = [Behind(p) EXCEPT ![p] = d]
    <2>1. Behind(p)[p] = c
      <3>1. Behind(p)[p] = [c EXCEPT !.apart = c.apart \/ (p # p /\ HasOpen(p))]
        BY DEF Behind
      <3>2. c.apart \in BOOLEAN
        BY <1>1 DEF Clients
      <3>3. (c.apart \/ (p # p /\ HasOpen(p))) = c.apart
        BY <3>2
      <3>4. Behind(p)[p] = [c EXCEPT !.apart = c.apart]
        BY <3>1, <3>3
      <3>5. QED  BY <1>1, <3>4 DEF Clients
    <2>2. client' = [Behind(p) EXCEPT ![p].pc = to, ![p].todo = Tail(@),
                                      ![p].nodes = [@ EXCEPT ![key] = entry]]
      BY DEF Upsert
    <2>3. DOMAIN Behind(p) = MemoryProcs
      BY DEF Behind
    <2> DEFINE B == Behind(p)
    <2>4. B[p] = c /\ DOMAIN B = MemoryProcs
          /\ client' = [B EXCEPT ![p].pc = to, ![p].todo = Tail(@),
                                 ![p].nodes = [@ EXCEPT ![key] = entry]]
      BY <2>1, <2>2, <2>3
    <2> HIDE DEF B, key, entry, to
    <2>5. client' = [B EXCEPT ![p] = d]
      BY <1>1, <2>4 DEF Clients
    <2>6. QED  BY <2>5 DEF B
  <1>a. table \in [EntryKeys -> Entries] /\ (c.nodes = memoryEntries => table = memoryEntries')
    BY <1>1, <1>2, <1>3, <1>4
  <1>b. /\ memoryEntries \in [EntryKeys -> Entries] /\ memoryEntries'[key] = entry
        /\ \A k \in EntryKeys \ {key} : memoryEntries'[k] = memoryEntries[k]
    BY <1>2, <1>3, <1>4 DEF MemoryInv
  <1> HIDE DEF key, entry, to, table
  <1>7. /\ d \in Clients /\ d.pc = to /\ d.cmd = c.cmd /\ d.embedder = c.embedder
        /\ d.nodes = table /\ d.apart = c.apart /\ d.moved = c.moved /\ d.todo = Tail(c.todo)
    BY <1>1, <1>2, <1>5, <1>a DEF Clients
  <1> HIDE DEF d
  <1>8. ASSUME c.cmd = "index", ~c.apart, ~c.moved PROVE Progress(d, memoryEntries', ticketText', graphEdges')
    <2>0. Progress(c, memoryEntries, ticketText, graphEdges)
      BY <1>1, <1>8 DEF ClientFits, Fits, FitsNext, OpenPc
    <2>1. CASE OnFiles(c, memoryEntries, ticketText) /\ c.text = ticketText[key]
      <3>1. key \in TicketKeys /\ ToSet(d.todo) \subseteq TicketKeys
        BY <1>2, <1>7, <2>1 DEF OnFiles
      <3>2. to = "next"
        BY <1>5, <3>1 DEF TicketKeys
      <3>3. FilesDone(ToSet(d.todo), memoryEntries', ticketText')
        <4> SUFFICES ASSUME NEW k \in TicketKeys, k[2] \in ToSet(ticketKnowledgeFiles),
                            k \notin ToSet(d.todo), ticketText[k] # 0
                     PROVE  memoryEntries'[k].text = ticketText[k]
          BY <1>4, <1>7 DEF FilesDone
        <4>1. CASE k = key
          BY <1>3, <1>b, <2>1, <4>1
        <4>2. CASE k # key
          <5>1. k \notin ToSet(c.todo) /\ memoryEntries'[k] = memoryEntries[k]
            BY <1>2, <1>7, <1>b, <4>2 DEF TicketKeys
          <5>2. QED  BY <2>1, <5>1 DEF OnFiles, FilesDone
        <4>3. QED  BY <4>1, <4>2
      <3>4. OnFiles(d, memoryEntries', ticketText')
        BY <3>1, <3>3 DEF OnFiles
      <3>5. QED  BY <1>7, <3>2, <3>4 DEF Progress
    <2>2. CASE OnEdges(c, memoryEntries, ticketText, graphEdges) /\ c.text = EdgeText
      <3>1. key \in EdgeKeys /\ ToSet(d.todo) \subseteq EdgeKeys
        BY <1>2, <1>7, <2>2 DEF OnEdges
      <3>2. to = "graph"
        BY <1>5, <1>8, <3>1 DEF EdgeKeys
      <3>3. FilesDone({}, memoryEntries', ticketText')
        <4>1. \A k \in TicketKeys : memoryEntries'[k] = memoryEntries[k]
          BY <1>b, <3>1 DEF TicketKeys, EdgeKeys
        <4>2. FilesDone({}, memoryEntries, ticketText)
          BY <2>2 DEF OnEdges
        <4>3. QED  BY <1>4, <4>1, <4>2 DEF FilesDone
      <3>4. EdgesDone(ToSet(d.todo), memoryEntries', graphEdges')
        <4> SUFFICES ASSUME NEW e \in graphEdges, EdgeKey(e) \notin ToSet(d.todo)
                     PROVE  memoryEntries'[EdgeKey(e)].text = EdgeText
          BY <1>4, <1>7 DEF EdgesDone
        <4>1. EdgeKey(e) \in EntryKeys
          BY KeyKinds DEF MemoryInv
        <4>2. CASE EdgeKey(e) = key
          BY <1>3, <1>b, <2>2, <4>2
        <4>3. CASE EdgeKey(e) # key
          <5>1. EdgeKey(e) \notin ToSet(c.todo) /\ memoryEntries'[EdgeKey(e)] = memoryEntries[EdgeKey(e)]
            BY <1>2, <1>7, <1>b, <4>1, <4>3
          <5>2. QED  BY <2>2, <5>1 DEF OnEdges, EdgesDone
        <4>4. QED  BY <4>2, <4>3
      <3>5. OnEdges(d, memoryEntries', ticketText', graphEdges')
        BY <3>1, <3>3, <3>4 DEF OnEdges
      <3>6. QED  BY <1>7, <3>2, <3>5 DEF Progress
    <2>3. QED  BY <1>1, <2>0, <2>1, <2>2 DEF Progress, key
  <1>9. FitsNext(d)
    BY <1>1, <1>4, <1>5, <1>7, <1>8, <1>a DEF ClientFits, Fits, FitsNext, OpenPc
  <1>10. QED  BY <1>2, <1>3, <1>4, <1>6, <1>7, <1>9, WriteKeeps

LEMMA DeleteKeeps ==
    ASSUME MemoryInv, NEW p \in MemoryProcs, DeleteEntry(p)
    PROVE  MemoryInv'
  <1> DEFINE c == client[p]
             key == Head(c.todo)
             table == [c.nodes EXCEPT ![key] = NoEntry]
             d == [c EXCEPT !.todo = <<>>, !.nodes = table]
  <1>1. c \in Clients /\ Fits(c) /\ c.pc = "done" /\ c.todo # <<>> /\ c.cmd = "delete"
        /\ c.todo \in Seq(EntryKeys) /\ c.nodes \in [EntryKeys -> Entries]
    BY ClientAt DEF DeleteEntry, Clients
  <1>2. key \in EntryKeys
    BY <1>1, FirstAndRest
  <1>3. memoryEntries' = [memoryEntries EXCEPT ![key] = NoEntry] /\ NoEntry \in Entries
        /\ UNCHANGED <<embedderMeta, memoryDB, ticketText, graphEdges, nested>>
    BY EntriesAre DEF DeleteEntry
  <1>4. client' = [Behind(p) EXCEPT ![p] = d]
    <2>1. Behind(p)[p] = c
      <3>1. Behind(p)[p] = [c EXCEPT !.apart = c.apart \/ (p # p /\ HasOpen(p))]
        BY DEF Behind
      <3>2. c.apart \in BOOLEAN
        BY <1>1 DEF Clients
      <3>3. (c.apart \/ (p # p /\ HasOpen(p))) = c.apart
        BY <3>2
      <3>4. Behind(p)[p] = [c EXCEPT !.apart = c.apart]
        BY <3>1, <3>3
      <3>5. QED  BY <1>1, <3>4 DEF Clients
    <2> DEFINE B == Behind(p)
    <2>2. B[p] = c /\ DOMAIN B = MemoryProcs
          /\ client' = [B EXCEPT ![p].todo = <<>>, ![p].nodes = [@ EXCEPT ![key] = NoEntry]]
      BY <2>1 DEF DeleteEntry, Behind
    <2> HIDE DEF B, key
    <2>3. client' = [B EXCEPT ![p] = d]
      BY <1>1, <2>2 DEF Clients
    <2>4. QED  BY <2>3 DEF B
  <1>5. table \in [EntryKeys -> Entries] /\ (c.nodes = memoryEntries => table = memoryEntries')
    BY <1>1, <1>2, <1>3
  <1> HIDE DEF key, table
  <1>6. /\ d \in Clients /\ d.pc = "done" /\ d.cmd = "delete" /\ d.embedder = c.embedder
        /\ d.nodes = table /\ d.apart = c.apart /\ d.moved = c.moved
    <2>1. <<>> \in Seq(EntryKeys)
      OBVIOUS
    <2>2. QED  BY <1>1, <1>5, <2>1 DEF Clients
  <1> HIDE DEF d
  <1>7. FitsNext(d)
    BY <1>1, <1>3, <1>5, <1>6 DEF ClientFits, Fits, FitsNext, OpenPc
  <1>8. QED  BY <1>2, <1>3, <1>4, <1>6, <1>7, WriteKeeps

LEMMA RewriteKeeps ==
    ASSUME MemoryInv, Rewrite
    PROVE  MemoryInv'
  <1>1. /\ graphEdges' \subseteq GraphEdges /\ ticketText' \in [EntryKeys -> 0 .. MaxTexts]
        /\ \A k \in EdgeKeys : ticketText'[k] = 0
    <2>1. CASE \E k \in EntryKeys, text \in 0 .. MaxTexts :
                  /\ k[1] # GraphNamespace /\ text # ticketText[k]
                  /\ ticketText' = [ticketText EXCEPT ![k] = text]
                  /\ UNCHANGED graphEdges
      BY <2>1 DEF MemoryInv, EdgeKeys
    <2>2. CASE \E e \in GraphEdges :
                  /\ graphEdges' = (graphEdges \ {e}) \cup ({e} \ graphEdges)
                  /\ UNCHANGED ticketText
      BY <2>2 DEF MemoryInv
    <2>3. QED  BY <2>1, <2>2 DEF Rewrite
  <1>2. /\ UNCHANGED <<embedderMeta, memoryEntries, memoryDB, nested>>
        /\ client' = [p \in MemoryProcs |->
                        [client[p] EXCEPT !.moved = @ \/ (HasOpen(p) /\ client[p].cmd = "index")]]
    BY DEF Rewrite
  <1>3. ASSUME NEW p \in MemoryProcs
        PROVE  client'[p] \in Clients /\ FitsNext(client'[p])
    <2> DEFINE c == client[p]
               b == c.moved \/ (HasOpen(p) /\ c.cmd = "index")
               d == [c EXCEPT !.moved = b]
    <2>1. c \in Clients /\ Fits(c) /\ c.moved \in BOOLEAN
      BY ClientAt DEF Clients
    <2>2. client'[p] = d
      BY <1>2
    <2>3. HasOpen(p) <=> c.pc \in OpenPc
      BY <2>1 DEF HasOpen, Clients, OpenPc
    <2>4. b \in BOOLEAN
      OBVIOUS
    <2>5. CASE HasOpen(p) /\ c.cmd = "index"
      <3>1. b = TRUE
        BY <2>5
      <3> HIDE DEF b
      <3>2. /\ d \in Clients /\ d.pc = c.pc /\ d.cmd = c.cmd /\ d.embedder = c.embedder
            /\ d.nodes = c.nodes /\ d.apart = c.apart /\ d.moved = TRUE /\ d.todo = c.todo
            /\ d.text = c.text
        BY <2>1, <3>1 DEF Clients
      <3> HIDE DEF d
      <3>3. d.pc \in OpenPc
        BY <2>3, <2>5, <3>2
      <3>4. FitsNext(d)
        BY <1>2, <2>1, <3>2, <3>3 DEF ClientFits, Fits, FitsNext, OpenPc
      <3>5. QED  BY <2>2, <3>2, <3>4
    <2>6. CASE ~(HasOpen(p) /\ c.cmd = "index")
      <3>1. (HasOpen(p) /\ c.cmd = "index") = FALSE
        BY <2>6
      <3>2. b = c.moved
        BY <2>1, <3>1
      <3> HIDE DEF b
      <3>3. d = c
        BY <2>1, <3>2 DEF Clients
      <3> HIDE DEF d
      <3>4. FitsNext(c)
        BY <1>2, <2>1, <2>3, <2>6 DEF ClientFits, Fits, FitsNext, OpenPc
      <3>5. QED  BY <2>1, <2>2, <3>3, <3>4
    <2>7. QED  BY <2>5, <2>6
  <1>4. client' \in [MemoryProcs -> Clients]
    <2>1. client' = [p \in MemoryProcs |-> client'[p]]
      BY <1>2
    <2>2. QED  BY <1>3, <2>1
  <1>5. OneEmbedder'
    BY <1>2 DEF OneEmbedder, StoredIn, MemoryInv
  <1>6. QED  BY <1>1, <1>2, <1>3, <1>4, <1>5 DEF MemoryInv, Fits, FitsNext

-----------------------------------------------------------------------------

LEMMA MemoryStart == MemoryInit => MemoryInv
  <1> SUFFICES ASSUME MemoryInit PROVE MemoryInv
    OBVIOUS
  <1>1. NoEntries \in [EntryKeys -> Entries] /\ StoredIn(NoEntries) = {}
    BY EntriesAre DEF NoEntries, StoredIn
  <1>2. MaxTexts \in Texts /\ 1 \in 0 .. MaxTexts /\ 0 \in 0 .. MaxTexts
    BY MemoryAssumption DEF Texts
  <1>3. /\ embedderMeta \in Embedders \cup {NoMeta} /\ memoryEntries \in [EntryKeys -> Entries]
        /\ OneEmbedder /\ memoryDB \in BOOLEAN
    <2>1. CASE embedderMeta = NoMeta /\ memoryEntries = NoEntries /\ memoryDB = FALSE
      BY <1>1, <2>1 DEF OneEmbedder
    <2>2. CASE \E e \in Embedders :
                 /\ embedderMeta = e /\ memoryDB = TRUE
                 /\ memoryEntries = [k \in EntryKeys |-> [text |-> MaxTexts, by |-> e]]
      <3>1. PICK e \in Embedders :
              /\ embedderMeta = e /\ memoryDB = TRUE
              /\ memoryEntries = [k \in EntryKeys |-> [text |-> MaxTexts, by |-> e]]
        BY <2>2
      <3>2. [text |-> MaxTexts, by |-> e] \in Entries
        BY <1>2, EntriesAre
      <3>3. QED  BY <3>1, <3>2 DEF OneEmbedder, StoredIn
    <2>3. QED  BY <2>1, <2>2 DEF MemoryInit
  <1>4. ticketText \in [EntryKeys -> 0 .. MaxTexts] /\ \A k \in EdgeKeys : ticketText[k] = 0
    BY <1>2 DEF MemoryInit, EdgeKeys
  <1>5. client \in [MemoryProcs -> Clients] /\ \A p \in MemoryProcs : Fits(client[p])
    BY NoClientFits DEF MemoryInit
  <1>6. graphEdges \subseteq GraphEdges /\ nested \in BOOLEAN
    BY DEF MemoryInit
  <1>7. QED  BY <1>3, <1>4, <1>5, <1>6 DEF MemoryInv

LEMMA MemoryStep ==
    ASSUME MemoryInv, [MemoryNext]_memoryVars
    PROVE  MemoryInv'
  <1>1. CASE UNCHANGED memoryVars
    <2>1. UNCHANGED <<embedderMeta, memoryEntries, memoryDB, ticketText, graphEdges, nested, client>>
      BY <1>1 DEF memoryVars
    <2>2. OneEmbedder'
      BY <2>1 DEF OneEmbedder, StoredIn, MemoryInv
    <2>3. \A p \in MemoryProcs : Fits(client[p])'
      BY <2>1 DEF MemoryInv, Fits
    <2>4. QED  BY <2>1, <2>2, <2>3 DEF MemoryInv
  <1>2. ASSUME NEW p \in MemoryProcs,
               \/ newMemoryStoreCmd(p) \/ newMemorySearchCmd(p) \/ newMemoryDeleteCmd(p)
               \/ newMemoryListCmd(p) \/ newMemoryIndexCmd(p)
               \/ handleSearchKnowledge(p) \/ indexTaskIntoMemory(p) \/ indexSessionIntoMemory(p)
        PROVE  MemoryInv'
    <2>1. PICK e \in Embedders, cmd \in {"store", "read", "delete", "index", "hook"} :
            OpenSQLiteStore(p, cmd, e)
      BY <1>2 DEF newMemoryStoreCmd, newMemorySearchCmd, newMemoryDeleteCmd, newMemoryListCmd,
         newMemoryIndexCmd, handleSearchKnowledge, indexTaskIntoMemory, indexSessionIntoMemory
    <2>2. QED  BY <2>1, OpenKeeps
  <1>3. ASSUME NEW p \in MemoryProcs,
               \/ RecordEmbedderMeta(p) \/ rebuildIndex(p)
               \/ indexTaskFiles(p) \/ IndexWorkspace(p) \/ IndexEdge(p)
               \/ Upsert(p) \/ EmbedFails(p) \/ DeleteEntry(p) \/ CloseStore(p) \/ ClientDies(p)
        PROVE  MemoryInv'
    BY <1>3, RecordKeeps, RebuildKeeps, ReadFileKeeps, NextPhaseKeeps, EdgeKeeps, UpsertKeeps,
       FailureKeeps, DeleteKeeps, StopsKeep
  <1>4. CASE Rewrite
    BY <1>4, RewriteKeeps
  <1>5. QED  BY <1>1, <1>2, <1>3, <1>4 DEF MemoryNext

LEMMA MemoryIsInvariant == MemorySpec => []MemoryInv
  <1>1. MemoryInv /\ [MemoryNext]_memoryVars => MemoryInv'
    BY MemoryStep
  <1>2. QED  BY <1>1, MemoryStart, PTL DEF MemorySpec

(* However the first opens of a database overlap and whatever embedders    *)
(* later commands ask for, every vector was made by the embedder on        *)
(* record, and an index that ended undisturbed left every ticket file and  *)
(* every edge in the database as it is (OpenSQLiteStore, IndexWorkspace).  *)
THEOREM MemoryIndexIsSound == MemorySpec => []IndexIsSound
  <1>1. MemoryInv => IndexIsSound
    <2> SUFFICES ASSUME MemoryInv PROVE IndexIsSound
      OBVIOUS
    <2>1. MemoryTypeOK
      <3>1. ASSUME NEW p \in MemoryProcs
            PROVE  /\ client[p].pc \in {"idle", "record", "rebuild", "next", "graph", "embed", "done"}
                   /\ client[p].nodes \in [EntryKeys -> Entries]
                   /\ client[p].pc = "idle" <=> client[p] = NoClient
                   /\ client[p].pc \in {"next", "graph", "embed"} =>
                        client[p].cmd \in {"store", "index", "hook"}
        <4> DEFINE c == client[p]
        <4>1. c \in Clients /\ Fits(c)
          BY ClientAt
        <4> HIDE DEF c
        <4>2. c.pc = "idle" <=> c = NoClient
          BY <4>1, NoClientFits DEF Fits, ClientFits
        <4>3. QED  BY <4>1, <4>2 DEF Clients, Fits, ClientFits, c
      <3>2. QED  BY <3>1 DEF MemoryTypeOK, MemoryInv
    <2>2. IndexReflects
      <3> SUFFICES ASSUME NEW p \in MemoryProcs, client[p].pc = "done", client[p].cmd = "index",
                          ~client[p].apart, ~client[p].moved
                   PROVE  /\ \A k \in EntryKeys :
                               k[2] \in ToSet(ticketKnowledgeFiles) /\ ticketText[k] # 0 =>
                                 memoryEntries[k].text = ticketText[k]
                          /\ \A e \in graphEdges : memoryEntries[EdgeKey(e)].text = EdgeText
        BY DEF IndexReflects
      <3>1. FilesDone({}, memoryEntries, ticketText) /\ EdgesDone({}, memoryEntries, graphEdges)
        BY ClientAt DEF Fits, ClientFits, OpenPc, Progress
      <3>2. \A k \in EntryKeys : ticketText[k] # 0 => k \in TicketKeys
        BY KeyKinds DEF MemoryInv
      <3>3. QED  BY <3>1, <3>2 DEF FilesDone, EdgesDone
    <2>3. QED  BY <2>1, <2>2 DEF IndexIsSound, MemoryInv
  <1>2. QED  BY <1>1, MemoryIsInvariant, PTL

-----------------------------------------------------------------------------
(* The hits of a search.                                                   *)

Of(nodes, ns) == {key \in StoredIn(nodes) : key[1] = ns}

LEMMA StoredIsFinite ==
    ASSUME NEW nodes \in [EntryKeys -> Entries], NEW ns
    PROVE  /\ IsFiniteSet(StoredIn(nodes)) /\ IsFiniteSet(Of(nodes, ns))
           /\ StoredIn(nodes) \subseteq EntryKeys /\ Of(nodes, ns) \subseteq StoredIn(nodes)
  <1>1. StoredIn(nodes) \in SUBSET EntryKeys /\ Of(nodes, ns) \in SUBSET EntryKeys
    BY DEF StoredIn, Of
  <1>2. QED  BY <1>1, KeysAreFinite, FS_Subset DEF Of

LEMMA TextIsNat ==
    ASSUME NEW nodes \in [EntryKeys -> Entries], NEW k \in StoredIn(nodes)
    PROVE  nodes[k].text \in Nat
  <1>1. nodes[k] \in Entries /\ nodes[k] # NoEntry
    BY DEF StoredIn
  <1>2. QED  BY <1>1, EntriesAre, MemoryAssumption DEF Texts

OwnHits(nodes, ns, near) == Sublist(near, {key \in DOMAIN nodes : key[1] = ns})
FirstOf(found, k) == {found[i] : i \in 1 .. (IF Len(found) < k THEN Len(found) ELSE k)}

(* The first of the graph's hits that are in the namespace: as many as the *)
(* search is for or all that the graph returned, nearest first.            *)
LEMMA SeenAre ==
    ASSUME NEW nodes \in [EntryKeys -> Entries], NEW ns, NEW k \in Nat,
           NEW near \in ApproximateHits(nodes), NEW seen, seen = FirstOf(OwnHits(nodes, ns, near), k)
    PROVE  /\ seen \subseteq Of(nodes, ns) /\ IsFiniteSet(seen) /\ Cardinality(seen) <= k
           /\ \A a \in ToSet(near) \cap Of(nodes, ns) : \A b \in seen :
                a \notin seen => nodes[b].text >= nodes[a].text
           /\ (ToSet(near) \cap Of(nodes, ns)) \ seen # {} => Cardinality(seen) = k
           /\ seen \subseteq ToSet(near)
  <1> DEFINE S == {key \in DOMAIN nodes : key[1] = ns}
             found == OwnHits(nodes, ns, near)
             len == Len(found)
             n == IF len < k THEN len ELSE k
  <1>1. near \in Seq(StoredIn(nodes)) /\ Ordered(nodes, near)
    <2>1. PICK m \in 0 .. MaxWants : near \in [1 .. m -> StoredIn(nodes)]
      BY DEF ApproximateHits, BoundedSeq, SeqOf
    <2>2. m \in Nat
      BY MemoryAssumption
    <2>3. near \in Seq(StoredIn(nodes))
      BY <2>1, <2>2
    <2>4. QED  BY <2>3 DEF ApproximateHits
  <1>2. /\ found \in Seq(StoredIn(nodes)) /\ ToSet(found) = ToSet(near) \cap S
        /\ \A x, y \in DOMAIN found : x < y =>
             \E i, j \in DOMAIN near : i < j /\ found[x] = near[i] /\ found[y] = near[j]
    <2>1. found = Sublist(near, S)
      BY DEF OwnHits
    <2> HIDE DEF S, found
    <2>2. QED  BY <1>1, <2>1, SublistIs
  <1>3. ToSet(near) \subseteq StoredIn(nodes)
    BY <1>1 DEF ToSet
  <1>4. ToSet(found) = ToSet(near) \cap Of(nodes, ns)
    BY <1>2, <1>3 DEF Of, StoredIn
  <1>5. \A x, y \in DOMAIN found : x < y =>
          found[x] # found[y] /\ nodes[found[x]].text >= nodes[found[y]].text
    BY <1>1, <1>2 DEF Ordered
  <1> HIDE DEF S, found
  <1>6. DOMAIN found = 1 .. len /\ len \in Nat
    BY <1>2
  <1>8. seen = {found[i] : i \in 1 .. n}
    BY DEF FirstOf, found
  <1> HIDE DEF len
  <1>7. n \in Nat /\ n <= k /\ n <= len /\ (n < k => n = len)
    BY <1>6
  <1> HIDE DEF n
  <1>9. \A i \in 1 .. n : i \in DOMAIN found
    BY <1>6, <1>7
  <1>10. IsFiniteSet(seen) /\ Cardinality(seen) = n
    <2> DEFINE f == [i \in 1 .. n |-> found[i]]
    <2>1. \A i, j \in 1 .. n : found[i] = found[j] => i = j
      BY <1>5, <1>7, <1>9
    <2>2. f \in Bijection(1 .. n, seen)
      BY <1>8, <2>1 DEF Bijection, Injection, Surjection, IsInjective
    <2>3. IsFiniteSet(1 .. n) /\ Cardinality(1 .. n) = n
      BY <1>7, FS_Interval
    <2> HIDE DEF f
    <2>4. QED  BY <2>2, <2>3, FS_Bijection DEF ExistsBijection
  <1>11. seen \subseteq ToSet(found)
    BY <1>8, <1>9 DEF ToSet
  <1>12. ASSUME NEW a \in ToSet(found), a \notin seen
         PROVE  n = k /\ \A b \in seen : nodes[b].text >= nodes[a].text
    <2>1. PICK y \in DOMAIN found : a = found[y]
      BY DEF ToSet
    <2>2. y \notin 1 .. n
      BY <1>8, <1>12, <2>1
    <2>3. y > n /\ y \in Nat
      BY <1>6, <1>7, <2>2
    <2>4. n = k
      BY <1>6, <1>7, <2>3
    <2>5. ASSUME NEW b \in seen PROVE nodes[b].text >= nodes[a].text
      <3>1. PICK x \in 1 .. n : b = found[x]
        BY <1>8
      <3>2. x < y /\ x \in DOMAIN found
        BY <1>7, <1>9, <2>3
      <3>3. QED  BY <1>5, <2>1, <3>1, <3>2
    <2>6. QED  BY <2>4, <2>5
  <1>13. QED  BY <1>4, <1>7, <1>10, <1>11, <1>12

LEMMA SearchIs ==
    ASSUME NEW nodes \in [EntryKeys -> Entries], NEW ns, NEW k \in Nat,
           NEW near \in ApproximateHits(nodes), NEW hits \in Search(nodes, ns, k, near)
    PROVE  /\ hits \subseteq Of(nodes, ns) /\ IsFiniteSet(hits)
           /\ Cardinality(hits) = SmallerOf(k, Cardinality(Of(nodes, ns)))
           /\ near \in ExactHits(nodes) =>
                \A a \in Of(nodes, ns) \ hits, b \in hits : nodes[b].text >= nodes[a].text
  <1> DEFINE seen == FirstOf(OwnHits(nodes, ns, near), k)
             all == Of(nodes, ns)
             rest == all \ seen
             x == Cardinality(rest)
             s == Cardinality(seen)
             room == IF x < k - s THEN x ELSE k - s
  <1>1. /\ seen \subseteq all /\ IsFiniteSet(seen) /\ s <= k
        /\ \A a \in ToSet(near) \cap all : \A b \in seen :
             a \notin seen => nodes[b].text >= nodes[a].text
        /\ seen \subseteq ToSet(near)
    <2> DEFINE t == seen
    <2>1. t = seen
      OBVIOUS
    <2> HIDE DEF t
    <2>2. /\ t \subseteq Of(nodes, ns) /\ IsFiniteSet(t) /\ Cardinality(t) <= k
          /\ \A a \in ToSet(near) \cap Of(nodes, ns) : \A b \in t :
               a \notin t => nodes[b].text >= nodes[a].text
          /\ t \subseteq ToSet(near)
      BY <2>1, SeenAre DEF seen
    <2>3. QED  BY <2>1, <2>2
  <1> HIDE DEF seen
  <1>2. PICK r \in Nearest(nodes, room, rest) : hits = seen \cup r
    <2>1. hits \in SearchFrom(nodes, ns, k, seen)
      BY DEF Search, seen, FirstOf, OwnHits
    <2>2. QED  BY <2>1 DEF SearchFrom, Of
  <1>3. IsFiniteSet(all) /\ IsFiniteSet(rest) /\ x \in Nat /\ s \in Nat /\ Cardinality(all) \in Nat
        /\ x = Cardinality(all) - s /\ s <= Cardinality(all)
    <2>1. IsFiniteSet(all) /\ all \cap seen = seen
      BY <1>1, StoredIsFinite
    <2> HIDE DEF all
    <2>2. IsFiniteSet(rest) /\ x = Cardinality(all) - Cardinality(all \cap seen)
      BY <2>1, FS_Difference
    <2>3. s <= Cardinality(all)
      BY <1>1, <2>1, FS_Subset
    <2> HIDE DEF rest
    <2>4. x \in Nat /\ s \in Nat /\ Cardinality(all) \in Nat
      BY <1>1, <2>1, <2>2, FS_CardinalityType
    <2>5. QED  BY <2>1, <2>2, <2>3, <2>4
  <1>4. r \in SUBSET rest /\ Cardinality(r) = room
        /\ \A b \in r, a \in rest \ r : nodes[b].text >= nodes[a].text
    BY <1>2 DEF Nearest, kSubset
  <1>5. hits \subseteq all /\ seen \cap r = {}
    BY <1>1, <1>2, <1>4
  <1>6. IsFiniteSet(r)
    <2> HIDE DEF rest
    <2>1. QED  BY <1>3, <1>4, FS_Subset
  <1>7. IsFiniteSet(hits) /\ Cardinality(hits) = SmallerOf(k, Cardinality(all))
    <2>1. /\ IsFiniteSet(seen \cup r)
          /\ Cardinality(seen \cup r) = s + room - Cardinality(seen \cap r)
      BY <1>1, <1>4, <1>6, FS_Union
    <2>2. Cardinality(seen \cap r) = 0
      BY <1>5, FS_EmptySet
    <2> DEFINE c == Cardinality(all)
    <2>3. x \in Nat /\ s \in Nat /\ c \in Nat /\ s <= k /\ s <= c /\ x = c - s
      BY <1>1, <1>3
    <2>a. room = IF x < k - s THEN x ELSE k - s
      OBVIOUS
    <2> HIDE DEF x, s, c, room
    <2>4. room \in Nat /\ s + room = SmallerOf(k, c) /\ SmallerOf(k, c) \in Nat
      BY <2>3, <2>a DEF SmallerOf
    <2>5. Cardinality(seen \cup r) = SmallerOf(k, c)
      BY <2>1, <2>2, <2>3, <2>4
    <2>6. QED  BY <1>2, <2>1, <2>5 DEF c
  <1>8. ASSUME near \in ExactHits(nodes), NEW a \in all \ hits, NEW b \in hits
        PROVE  nodes[b].text >= nodes[a].text
    <2>1. CASE b \in r
      BY <1>2, <1>4, <1>8, <2>1
    <2>2. CASE b \in seen /\ a \in ToSet(near)
      BY <1>1, <1>2, <1>8, <2>2
    <2>3. CASE b \in seen /\ a \notin ToSet(near)
      <3>1. PICK i \in DOMAIN near : b = near[i]
        BY <1>1, <2>3 DEF ToSet
      <3>2. a \in StoredIn(nodes) \ ToSet(near)
        BY <1>8, <2>3 DEF Of
      <3>3. QED  BY <1>8, <3>1, <3>2 DEF ExactHits
    <2>4. QED  BY <1>2, <2>1, <2>2, <2>3
  <1>9. QED  BY <1>5, <1>7, <1>8

(* The best of the hits of every namespace are the best of all entries.    *)
LEMMA KnowledgeIs ==
    ASSUME NEW nodes \in [EntryKeys -> Entries], NEW limit \in Nat, NEW near \in ExactHits(nodes),
           memoryEntries = nodes, NEW hits \in searchKnowledge(nodes, limit, near)
    PROVE  hits \in Nearest(nodes, SmallerOf(limit, Cardinality(StoredIn(nodes))), StoredIn(nodes))
  <1> DEFINE stored == StoredIn(nodes)
             in(all, ns) == {k \in all : k[1] = ns}
             n == Cardinality(stored)
  <1>1. PICK all \in AllHits(nodes, limit, near) :
          hits \in Nearest(nodes, IF Cardinality(all) < limit THEN Cardinality(all) ELSE limit, all)
    BY DEF searchKnowledge
  <1> DEFINE m == Cardinality(all)
  <1>2. all \subseteq stored
        /\ \A ns \in ListNamespaces : in(all, ns) \in Search(nodes, ns, limit, near)
    BY DEF AllHits
  <1>3. \A k \in stored : k[1] \in ListNamespaces
    BY DEF ListNamespaces
  <1>4. near \in ApproximateHits(nodes)
    BY DEF ExactHits
  <1>5. IsFiniteSet(stored) /\ IsFiniteSet(all) /\ n \in Nat /\ m \in Nat /\ m <= n
    <2>1. IsFiniteSet(stored)
      BY StoredIsFinite
    <2> HIDE DEF stored
    <2>2. QED  BY <1>2, <2>1, FS_Subset, FS_CardinalityType
  <1>6. ASSUME NEW b \in stored \ all
        PROVE  /\ m >= limit /\ Cardinality(in(all, b[1])) = limit
               /\ \A c \in in(all, b[1]) : nodes[c].text >= nodes[b].text
    <2> DEFINE ns == b[1]
               mine == Of(nodes, ns)
               got == in(all, ns)
    <2>1. /\ got \subseteq mine /\ IsFiniteSet(got)
          /\ Cardinality(got) = SmallerOf(limit, Cardinality(mine))
          /\ \A a \in mine \ got, c \in got : nodes[c].text >= nodes[a].text
      <3>1. got \in Search(nodes, ns, limit, near)
        BY <1>2, <1>3
      <3> HIDE DEF got, ns
      <3>2. QED  BY <1>4, <3>1, SearchIs
    <2>2. b \in mine /\ b \notin got
      BY <1>6 DEF Of
    <2>3. IsFiniteSet(mine)
      <3> HIDE DEF ns
      <3>1. QED  BY StoredIsFinite
    <2>4. got \subseteq all
      OBVIOUS
    <2> HIDE DEF mine, got
    <2>5. Cardinality(got) # Cardinality(mine) /\ Cardinality(mine) \in Nat
          /\ Cardinality(got) <= m /\ Cardinality(got) \in Nat
      BY <1>5, <2>1, <2>2, <2>3, <2>4, FS_Subset, FS_CardinalityType
    <2>6. Cardinality(got) = limit
      BY <2>1, <2>5 DEF SmallerOf
    <2>7. \A c \in got : nodes[c].text >= nodes[b].text
      BY <2>1, <2>2
    <2>8. QED  BY <1>5, <2>5, <2>6, <2>7 DEF got
  <1>7. hits \in SUBSET all /\ Cardinality(hits) = (IF m < limit THEN m ELSE limit)
        /\ \A a \in hits, b \in all \ hits : nodes[a].text >= nodes[b].text
    BY <1>1 DEF Nearest, kSubset
  <1>8. Cardinality(hits) = SmallerOf(limit, n)
    <2>1. all = stored \/ m >= limit
      BY <1>2, <1>6
    <2>2. m = n \/ m >= limit
      BY <2>1
    <2> HIDE DEF m, n
    <2>3. QED  BY <1>5, <1>7, <2>2 DEF SmallerOf
  <1>9. ASSUME NEW a \in hits, NEW b \in stored \ hits
        PROVE  nodes[a].text >= nodes[b].text
    <2>1. CASE b \in all
      BY <1>7, <1>9, <2>1
    <2>2. CASE b \notin all
      <3> DEFINE got == in(all, b[1])
      <3>1. m >= limit /\ Cardinality(got) = limit
            /\ \A c \in got : nodes[c].text >= nodes[b].text
        BY <1>6, <1>9, <2>2
      <3>2. CASE a \in got
        BY <3>1, <3>2
      <3>3. CASE a \notin got
        <4>1. IsFiniteSet(hits) /\ Cardinality(hits) = limit
          <5> HIDE DEF m
          <5>1. IsFiniteSet(hits)
            BY <1>5, <1>7, FS_Subset
          <5>2. QED  BY <1>5, <1>7, <3>1, <5>1
        <4>2. \E c \in got : c \notin hits
          <5> SUFFICES ASSUME got \subseteq hits PROVE FALSE
            OBVIOUS
          <5> HIDE DEF got
          <5>1. got = hits
            BY <3>1, <4>1, FS_Subset
          <5>2. QED  BY <1>9, <3>3, <5>1
        <4>3. PICK c \in got : c \notin hits
          BY <4>2
        <4>4. nodes[a].text >= nodes[c].text /\ nodes[c].text >= nodes[b].text
          BY <1>7, <1>9, <3>1, <4>3
        <4>5. nodes[a].text \in Nat /\ nodes[b].text \in Nat /\ nodes[c].text \in Nat
          <5>1. a \in stored /\ b \in stored /\ c \in stored
            BY <1>2, <1>7, <1>9, <4>3
          <5>2. QED  BY <5>1, TextIsNat
        <4>6. QED  BY <4>4, <4>5
      <3>4. QED  BY <3>2, <3>3
    <2>3. QED  BY <2>1, <2>2
  <1>10. hits \in SUBSET stored
    BY <1>2, <1>7
  <1> HIDE DEF stored
  <1>11. QED  BY <1>8, <1>9, <1>10 DEF Nearest, kSubset, stored

(* What searches return is, of what the database holds, as many entries as *)
(* were asked for or all there are: in one namespace whatever the graph    *)
(* index misses, and when it misses nothing of what it is asked for the    *)
(* nearest ones, also over all namespaces (Search, searchKnowledge).       *)
THEOREM SearchesFindTheNearest == MemorySpec => []SearchesAreRight
  <1>1. MemoryInv => SearchesAreRight
    <2> SUFFICES ASSUME MemoryInv PROVE SearchesAreRight
      OBVIOUS
    <2>1. ASSUME NEW p \in MemoryProcs
          PROVE  client[p].nodes \in [EntryKeys -> Entries]
      BY ClientAt DEF Clients
    <2>2. CopyIsTable
      <3>1. ASSUME NEW p \in MemoryProcs, HasOpen(p) PROVE client[p].pc \in OpenPc
        BY <3>1, ClientAt DEF HasOpen, Clients, OpenPc
      <3>2. QED  BY <3>1, ClientAt DEF CopyIsTable, Fits, ClientFits
    <2>3. SearchFills
      <3> SUFFICES ASSUME NEW p \in MemoryProcs, NEW ns, NEW k \in 1 .. 2,
                          NEW near \in ApproximateHits(client[p].nodes),
                          NEW hits \in Search(client[p].nodes, ns, k, near)
                   PROVE  /\ hits \subseteq Of(client[p].nodes, ns)
                          /\ Cardinality(hits) = SmallerOf(k, Cardinality(Of(client[p].nodes, ns)))
        BY DEF SearchFills, Of
      <3> DEFINE nodes == client[p].nodes
      <3>1. nodes \in [EntryKeys -> Entries] /\ k \in Nat
        BY <2>1
      <3> HIDE DEF nodes
      <3>2. near \in ApproximateHits(nodes) /\ hits \in Search(nodes, ns, k, near)
        BY DEF nodes
      <3>3. /\ hits \subseteq Of(nodes, ns)
            /\ Cardinality(hits) = SmallerOf(k, Cardinality(Of(nodes, ns)))
        BY <3>1, <3>2, SearchIs
      <3>4. QED  BY <3>3 DEF nodes
    <2>4. SearchIsNearest
      <3> SUFFICES ASSUME NEW p \in MemoryProcs, NEW ns, NEW k \in 1 .. 2,
                          NEW near \in ExactHits(client[p].nodes),
                          NEW hits \in Search(client[p].nodes, ns, k, near),
                          NEW a \in StoredIn(client[p].nodes) \ hits, NEW b \in hits, a[1] = ns
                   PROVE  client[p].nodes[a].text <= client[p].nodes[b].text
        BY DEF SearchIsNearest
      <3> DEFINE nodes == client[p].nodes
      <3>1. nodes \in [EntryKeys -> Entries] /\ k \in Nat
        BY <2>1
      <3> HIDE DEF nodes
      <3>2. /\ near \in ExactHits(nodes) /\ hits \in Search(nodes, ns, k, near)
            /\ a \in StoredIn(nodes) \ hits
        BY DEF nodes
      <3>3. near \in ApproximateHits(nodes) /\ a \in Of(nodes, ns) \ hits
        BY <3>2 DEF ExactHits, Of
      <3>4. hits \subseteq Of(nodes, ns) /\ nodes[b].text >= nodes[a].text
        BY <3>1, <3>2, <3>3, SearchIs
      <3>5. nodes[a].text \in Nat /\ nodes[b].text \in Nat
        BY <3>1, <3>2, <3>4, TextIsNat DEF Of
      <3>6. nodes[a].text <= nodes[b].text
        BY <3>4, <3>5
      <3>7. QED  BY <3>6 DEF nodes
    <2>5. KnowledgeIsNearest
      <3> SUFFICES ASSUME NEW p \in MemoryProcs, Searching(p), ~client[p].apart,
                          NEW limit \in 1 .. 2, NEW near \in ExactHits(client[p].nodes),
                          NEW hits \in searchKnowledge(client[p].nodes, limit, near)
                   PROVE  hits \in Nearest(client[p].nodes,
                                           SmallerOf(limit, Cardinality(StoredIn(client[p].nodes))),
                                           StoredIn(client[p].nodes))
        BY DEF KnowledgeIsNearest
      <3> DEFINE nodes == client[p].nodes
      <3>1. nodes \in [EntryKeys -> Entries] /\ limit \in Nat
        BY <2>1
      <3>2. memoryEntries = nodes
        BY <2>2 DEF CopyIsTable, HasOpen, Searching
      <3> HIDE DEF nodes
      <3>3. near \in ExactHits(nodes) /\ hits \in searchKnowledge(nodes, limit, near)
        BY DEF nodes
      <3>4. hits \in Nearest(nodes, SmallerOf(limit, Cardinality(StoredIn(nodes))), StoredIn(nodes))
        BY <3>1, <3>2, <3>3, KnowledgeIs
      <3>5. QED  BY <3>4 DEF nodes
    <2>6. QED  BY <2>2, <2>3, <2>4, <2>5 DEF SearchesAreRight
  <1>2. QED  BY <1>1, MemoryIsInvariant, PTL

-----------------------------------------------------------------------------
(***************************************************************************)
(* The clones.                                                             *)
(***************************************************************************)

(* A clone: commits are sequences of edits.                                *)
Clones ==
    [local : [Branches -> Seq(Nat)], tracking : [Branches -> Seq(Nat)],
     remote : [Branches -> Seq(Nat)], upstream : SUBSET Branches, held : SUBSET Branches,
     head : Branches \cup {NoBranch}, detached : Seq(Nat), dirty : BOOLEAN,
     default : Branches \cup {NoBranch}]
PullSteps == {"idle", "fetch", "default", "head", "status", "upstream", "pull"}
Pulls ==
    [pc : PullSteps, todo : Seq(Repos), plan : SUBSET Repos, results : SUBSET Repos,
     branch : Branches \cup {NoBranch}, default : Branches \cup {NoBranch}, disturbed : BOOLEAN]
Syncs ==
    [pc : {"idle", "waiting", "fetch", "current", "ancestor", "merge", "list", "delete", "done"},
     branch : Branches \cup {NoBranch}, merged : Seq(Branches), disturbed : BOOLEAN]

(* A pull has a result or still a turn for each repo of its plan, and what *)
(* it has read of the clone at hand is so until a user works there.        *)
PullFits(q, c) ==
    /\ q.pc \in {"head", "status", "upstream", "pull"} =>
         q.default = c.default /\ q.default # NoBranch
    /\ q.pc \in {"status", "upstream", "pull"} /\ ~q.disturbed => c.head = q.default
    /\ q.pc \in {"upstream", "pull"} /\ ~q.disturbed => ~c.dirty
PlanFits(q) ==
    /\ q.pc = "idle" <=> q.todo = <<>>
    /\ q.results \cup ToSet(q.todo) = q.plan
    /\ q.plan # Repos => q.plan \subseteq DOMAIN buildRepoRegistry

(* A sync that is about to forward goes to an upstream, of the branch that *)
(* is checked out until a user works there.                                *)
SyncFits(s, c) ==
    /\ s.pc \in {"ancestor", "merge"} => s.branch \in Branches /\ (~s.disturbed => c.head = s.branch)
    /\ s.pc = "merge" => s.branch \in c.upstream

PullOK(p) ==
    /\ puller[p] \in Pulls /\ PlanFits(puller[p])
    /\ puller[p].pc # "idle" => PullFits(puller[p], clone[PulledRepo(p)])
SyncOK(r) == syncer[r] \in Syncs /\ SyncFits(syncer[r], clone[r])

ReposInv ==
    /\ clone \in [Repos -> Clones] /\ work \in Nat /\ remoteWork \in Nat
    /\ DOMAIN puller = Pullers /\ DOMAIN syncer = TopRepos
    /\ \A p \in Pullers : PullOK(p)
    /\ \A r \in TopRepos : SyncOK(r)

-----------------------------------------------------------------------------

(* What is an ancestor of an ancestor.                                     *)
LEMMA AncestorsGrow ==
    ASSUME NEW a \in Seq(Nat), NEW b \in Seq(Nat), IsPrefix(a, b)
    PROVE  Ancestors(a) \subseteq Ancestors(b)
  <1> SUFFICES ASSUME NEW n \in 1 .. Len(a)
               PROVE  SubSeq(a, 1, n) \in Ancestors(b)
    BY DEF Ancestors
  <1>1. Len(a) \in Nat /\ Len(b) \in Nat /\ Len(a) <= Len(b)
    BY DEF IsPrefix
  <1>2. \A i \in 1 .. Len(a) : a[i] = b[i]
    BY <1>1 DEF IsPrefix
  <1>3. SubSeq(a, 1, n) = SubSeq(b, 1, n)
    BY <1>1, <1>2
  <1>4. QED  BY <1>1, <1>3 DEF Ancestors

(* Steps of git that leave alone what a clone has checked out.             *)
Quiet(c, d) == d \in Clones /\ d.head = c.head /\ d.dirty = c.dirty /\ d.default = c.default
KeepsCommits(c, d) == Kept(c) \subseteq Kept(d) \cup KeptForRemote(d)
OnlyTo(c, d, b, target) == \A a \in Branches : d.local[a] = c.local[a] \/ (a = b /\ d.local[a] = target)

LEMMA FetchIsQuiet ==
    ASSUME NEW c \in Clones
    PROVE  LET d == Fetched(c)
           IN /\ Quiet(c, d) /\ KeepsCommits(c, d) /\ d.local = c.local /\ d.upstream = c.upstream
  <1> DEFINE d == Fetched(c)
  <1>1. /\ d \in Clones /\ d.head = c.head /\ d.dirty = c.dirty /\ d.default = c.default
        /\ d.local = c.local /\ d.upstream = c.upstream /\ d.detached = c.detached
    BY DEF Fetched, Clones
  <1>2. Kept(d) = Kept(c)
    BY <1>1 DEF Kept, HeadCommit
  <1>3. QED  BY <1>1, <1>2 DEF Quiet, KeepsCommits

LEMMA HeadIsKept ==
    ASSUME NEW c \in Clones
    PROVE  HeadCommit(c) \in Seq(Nat)
  BY DEF Clones, HeadCommit

LEMMA ForwardIsQuiet ==
    ASSUME NEW c \in Clones, NEW target \in Seq(Nat), CanForward(c, target)
    PROVE  LET d == Forwarded(c, target)
           IN /\ Quiet(c, d) /\ KeepsCommits(c, d) /\ OnlyTo(c, d, c.head, target)
              /\ d.upstream = c.upstream /\ d.tracking = c.tracking
  <1> DEFINE d == Forwarded(c, target)
  <1>1. Ancestors(HeadCommit(c)) \subseteq Ancestors(target)
    BY HeadIsKept, AncestorsGrow DEF CanForward, IsAncestor
  <1>2. CASE c.head = NoBranch
    <2>1. /\ d \in Clones /\ d.head = c.head /\ d.dirty = c.dirty /\ d.default = c.default
          /\ d.local = c.local /\ d.upstream = c.upstream /\ d.tracking = c.tracking
          /\ d.detached = target
      BY <1>2 DEF Forwarded, Clones
    <2>2. HeadCommit(d) = target
      BY <1>2, <2>1 DEF HeadCommit
    <2>3. Kept(c) \subseteq Kept(d)
      BY <1>1, <2>1, <2>2 DEF Kept
    <2>4. QED  BY <2>1, <2>3 DEF Quiet, KeepsCommits, OnlyTo
  <1>3. CASE c.head # NoBranch
    <2>1. c.head \in Branches /\ HeadCommit(c) = c.local[c.head]
      BY <1>3 DEF Clones, HeadCommit
    <2> DEFINE l == [c.local EXCEPT ![c.head] = target]
    <2>2. /\ l \in [Branches -> Seq(Nat)] /\ c.upstream \in SUBSET Branches
          /\ d = [c EXCEPT !.local = l, !.upstream = c.upstream]
      BY <1>3, <2>1 DEF Forwarded, Clones
    <2>3. /\ d \in Clones /\ d.head = c.head /\ d.dirty = c.dirty /\ d.default = c.default
          /\ d.upstream = c.upstream /\ d.tracking = c.tracking /\ d.local = l
      <3> HIDE DEF l, d
      <3>1. d \in Clones
        BY <2>2 DEF Clones
      <3>2. /\ d.head = c.head /\ d.dirty = c.dirty /\ d.default = c.default
            /\ d.upstream = c.upstream /\ d.tracking = c.tracking /\ d.local = l
        BY <2>2 DEF Clones
      <3>3. QED  BY <3>1, <3>2
    <2>4. /\ \A b \in Branches \ {c.head} : d.local[b] = c.local[b]
          /\ d.local[c.head] = target
      BY <2>1, <2>3 DEF Clones
    <2>5. HeadCommit(d) = target
      BY <1>3, <2>3, <2>4 DEF HeadCommit
    <2>6. \A b \in Branches : Ancestors(c.local[b]) \subseteq Ancestors(d.local[b])
      BY <1>1, <2>1, <2>4
    <2>7. Kept(c) \subseteq Kept(d)
      BY <1>1, <2>5, <2>6 DEF Kept
    <2>8. QED  BY <2>3, <2>4, <2>7 DEF Quiet, KeepsCommits, OnlyTo
  <1>4. QED  BY <1>2, <1>3

LEMMA DeleteIsQuiet ==
    ASSUME NEW c \in Clones, NEW b \in Branches, SafeToDelete(c, b)
    PROVE  LET d == Deleted(c, b)
           IN Quiet(c, d) /\ KeepsCommits(c, d) /\ OnlyTo(c, d, b, Gone)
  <1> DEFINE d == Deleted(c, b)
  <1> DEFINE l == [c.local EXCEPT ![b] = Gone]
             u == c.upstream \ {b}
  <1>a. Gone \in Seq(Nat)
    BY DEF Gone
  <1>b. l \in [Branches -> Seq(Nat)] /\ u \in SUBSET Branches
    BY <1>a DEF Clones
  <1>c. d = [c EXCEPT !.local = l, !.upstream = u]
    BY DEF Deleted, Clones
  <1>1. /\ d \in Clones /\ d.head = c.head /\ d.dirty = c.dirty /\ d.default = c.default
        /\ d.tracking = c.tracking /\ d.detached = c.detached /\ d.local = l
    <2> HIDE DEF l, u, d
    <2>1. d \in Clones
      BY <1>b, <1>c DEF Clones
    <2>2. /\ d.head = c.head /\ d.dirty = c.dirty /\ d.default = c.default
          /\ d.tracking = c.tracking /\ d.detached = c.detached /\ d.local = l
      BY <1>b, <1>c DEF Clones
    <2>3. QED  BY <2>1, <2>2
  <1>2. /\ \A a \in Branches \ {b} : d.local[a] = c.local[a]
        /\ d.local[b] = Gone
    BY <1>1 DEF Clones
  <1>3. HeadCommit(d) = HeadCommit(c) /\ HeadCommit(c) \in Seq(Nat)
    BY <1>1, <1>2, HeadIsKept DEF HeadCommit, SafeToDelete, Clones
  <1>4. c.local[b] \in Seq(Nat) /\ c.tracking[b] \in Seq(Nat)
    BY DEF Clones
  <1>5. \/ Ancestors(c.local[b]) \subseteq Ancestors(c.tracking[b])
        \/ Ancestors(c.local[b]) \subseteq Ancestors(HeadCommit(c))
    BY <1>3, <1>4, AncestorsGrow DEF SafeToDelete, IsAncestor
  <1>6. Ancestors(c.local[b]) \subseteq Kept(d) \cup KeptForRemote(d)
    BY <1>1, <1>3, <1>5 DEF Kept, KeptForRemote
  <1>7. Kept(c) \subseteq Kept(d) \cup KeptForRemote(d)
    <2> SUFFICES ASSUME NEW x \in Kept(c) PROVE x \in Kept(d) \cup KeptForRemote(d)
      OBVIOUS
    <2>1. CASE x \in Ancestors(HeadCommit(c))
      BY <1>3, <2>1 DEF Kept
    <2>2. ASSUME NEW a \in Branches, x \in Ancestors(c.local[a])
          PROVE  x \in Kept(d) \cup KeptForRemote(d)
      BY <1>2, <1>6, <2>2 DEF Kept
    <2>3. QED  BY <2>1, <2>2 DEF Kept
  <1>8. QED  BY <1>1, <1>2, <1>7 DEF Quiet, KeepsCommits, OnlyTo

-----------------------------------------------------------------------------

(* What a step that is no user's leaves of a clone.                        *)
QuietStep == clone' \in [Repos -> Clones] /\ \A r \in Repos : Quiet(clone[r], clone'[r])

LEMMA QuietAt ==
    ASSUME ReposInv, NEW r \in Repos, NEW d, Quiet(clone[r], d),
           clone' = [clone EXCEPT ![r] = d]
    PROVE  QuietStep /\ clone'[r] = d /\ \A x \in Repos \ {r} : clone'[x] = clone[x]
  BY DEF QuietStep, Quiet, ReposInv

LEMMA NothingIsQuiet ==
    ASSUME ReposInv, clone' = clone
    PROVE  QuietStep
  BY DEF QuietStep, Quiet, ReposInv

LEMMA PulledIsRepo ==
    ASSUME ReposInv, NEW p \in Pullers, puller[p].pc # "idle"
    PROVE  PulledRepo(p) \in Repos
  <1>1. puller[p].todo \in Seq(Repos) /\ puller[p].todo # <<>>
    BY DEF ReposInv, PullOK, PlanFits, Pulls
  <1>2. QED  BY <1>1, FirstAndRest DEF PulledRepo

LEMMA OtherPulls ==
    ASSUME ReposInv, QuietStep, NEW p \in Pullers, puller'[p] = puller[p]
    PROVE  PullOK(p)'
  <1>1. PullOK(p)
    BY DEF ReposInv
  <1>2. PulledRepo(p)' = PulledRepo(p)
    BY DEF PulledRepo
  <1>3. ASSUME puller[p].pc # "idle"
        PROVE  PullFits(puller[p], clone'[PulledRepo(p)])
    <2>1. Quiet(clone[PulledRepo(p)], clone'[PulledRepo(p)])
      BY <1>3, PulledIsRepo DEF QuietStep
    <2>2. PullFits(puller[p], clone[PulledRepo(p)])
      BY <1>1, <1>3 DEF PullOK
    <2>3. QED  BY <2>1, <2>2 DEF Quiet, PullFits
  <1>4. QED  BY <1>1, <1>2, <1>3 DEF PullOK

LEMMA OtherSyncs ==
    ASSUME ReposInv, QuietStep, NEW r \in TopRepos, syncer'[r] = syncer[r],
           clone[r].upstream \subseteq clone'[r].upstream
    PROVE  SyncOK(r)'
  <1>1. Quiet(clone[r], clone'[r])
    BY ReposAssumption DEF QuietStep
  <1>2. SyncOK(r)
    BY DEF ReposInv
  <1>3. SyncFits(syncer[r], clone'[r])
    BY <1>1, <1>2 DEF SyncOK, SyncFits, Quiet
  <1>4. QED  BY <1>2, <1>3 DEF SyncOK

(* A pull goes on, and leaves the syncs alone.                             *)
LEMMA PullGoesOn ==
    ASSUME ReposInv, QuietStep, NEW p \in Pullers, NEW q, puller' = [puller EXCEPT ![p] = q],
           syncer' = syncer, work' = work, remoteWork' = remoteWork,
           \A r \in TopRepos : clone[r].upstream \subseteq clone'[r].upstream,
           q \in Pulls, PlanFits(q), q.pc # "idle" => PullFits(q, clone'[Head(q.todo)])
    PROVE  ReposInv'
  <1>1. DOMAIN puller = Pullers /\ DOMAIN syncer = TopRepos
    BY DEF ReposInv
  <1>2. puller'[p] = q /\ DOMAIN puller' = Pullers
    BY <1>1
  <1>3. PullOK(p)'
    BY <1>2 DEF PullOK, PulledRepo
  <1>4. \A x \in Pullers \ {p} : PullOK(x)'
    BY <1>1, OtherPulls
  <1>5. \A r \in TopRepos : SyncOK(r)'
    BY OtherSyncs
  <1>6. QED  BY <1>1, <1>2, <1>3, <1>4, <1>5 DEF ReposInv, QuietStep

(* A repo of a pull has its result.                                        *)
LEMMA AfterRepoKeeps ==
    ASSUME ReposInv, QuietStep, NEW p \in Pullers, puller[p].pc # "idle", NEW a,
           puller' = AfterRepo(p, a),
           syncer' = syncer, work' = work, remoteWork' = remoteWork,
           \A r \in TopRepos : clone[r].upstream \subseteq clone'[r].upstream
    PROVE  ReposInv'
  <1> DEFINE o == puller[p]
             q == [o EXCEPT !.todo = Tail(@), !.pc = IF Len(o.todo) = 1 THEN "idle" ELSE "fetch",
                            !.results = @ \cup {PulledRepo(p)},
                            !.branch = NoBranch, !.default = NoBranch, !.disturbed = FALSE]
  <1>1. o \in Pulls /\ PlanFits(o) /\ o.todo \in Seq(Repos) /\ o.todo # <<>>
    BY DEF ReposInv, PullOK, PlanFits, Pulls
  <1>2. /\ Head(o.todo) \in Repos /\ Tail(o.todo) \in Seq(Repos)
        /\ ToSet(o.todo) = {Head(o.todo)} \cup ToSet(Tail(o.todo))
        /\ Len(o.todo) = 1 <=> Tail(o.todo) = <<>>
    BY <1>1, FirstAndRest
  <1>3. puller' = [puller EXCEPT ![p] = q]
    BY DEF AfterRepo, ReposInv
  <1>4. /\ q.todo = Tail(o.todo) /\ q.pc = (IF Len(o.todo) = 1 THEN "idle" ELSE "fetch")
        /\ q.results = o.results \cup {Head(o.todo)} /\ q.plan = o.plan
    BY <1>1 DEF Pulls, PulledRepo
  <1>5. q \in Pulls
    BY <1>1, <1>2 DEF Pulls, PullSteps, PulledRepo
  <1> HIDE DEF q, o
  <1>6. PlanFits(q)
    BY <1>1, <1>2, <1>4 DEF PlanFits
  <1>7. q.pc # "idle" => PullFits(q, clone'[Head(q.todo)])
    BY <1>4 DEF PullFits
  <1>8. QED  BY <1>3, <1>5, <1>6, <1>7, PullGoesOn

-----------------------------------------------------------------------------

(* What a step that is no user's does to the commits and branches.         *)
WorkIsSafe == \A r \in Repos : ~ByUser /\ clone'[r] # clone[r] => KeepsWork(r) /\ FollowsUpstream(r)

LEMMA NothingIsSafe == ASSUME clone' = clone PROVE WorkIsSafe
  BY DEF WorkIsSafe

LEMMA QuietUpstreams ==
    ASSUME ReposInv, clone' = clone
    PROVE  \A r \in TopRepos : clone[r].upstream \subseteq clone'[r].upstream
  OBVIOUS

LEMMA PlanKeeps ==
    ASSUME ReposInv, NEW p \in Pullers, NEW repos \in SUBSET Repos,
           repos # Repos => repos \subseteq DOMAIN buildRepoRegistry, PullAllRepos(p, repos)
    PROVE  ReposInv' /\ WorkIsSafe
  <1> DEFINE q == [NotPulling EXCEPT !.pc = "fetch", !.plan = repos, !.todo = SetToSeq(repos)]
             s == SetToSeq(repos)
  <1>1. IsFiniteSet(repos)
    BY ReposAssumption, FS_Subset
  <1>2. s \in Seq(repos) /\ ToSet(s) = repos /\ s # <<>>
    BY <1>1, SetAsSeq DEF PullAllRepos
  <1>3. s \in Seq(Repos)
    BY <1>2, SeqMonotonic
  <1>4. /\ q.pc = "fetch" /\ q.todo = s /\ q.plan = repos /\ q.results = {}
        /\ q \in Pulls
    BY <1>3 DEF NotPulling, Pulls, PullSteps, NoBranch
  <1>5. puller' = [puller EXCEPT ![p] = q] /\ clone' = clone /\ syncer' = syncer
        /\ work' = work /\ remoteWork' = remoteWork
    BY DEF PullAllRepos
  <1> HIDE DEF q, s
  <1>6. PlanFits(q)
    BY <1>2, <1>4 DEF PlanFits
  <1>7. q.pc # "idle" => PullFits(q, clone'[Head(q.todo)])
    BY <1>4 DEF PullFits
  <1>8. QED  BY <1>4, <1>5, <1>6, <1>7, PullGoesOn, NothingIsQuiet, NothingIsSafe, QuietUpstreams

LEMMA PullCommandKeeps ==
    ASSUME ReposInv, NEW p \in Pullers, newReposPullCmd(p)
    PROVE  ReposInv' /\ WorkIsSafe
  <1>1. ASSUME NEW T \in SUBSET RepoTasks
        PROVE  distinctRepos(T) \in SUBSET Repos /\ distinctRepos(T) \subseteq DOMAIN buildRepoRegistry
    BY ReposAssumption DEF distinctRepos, Live, buildRepoRegistry
  <1>2. CASE PullAllRepos(p, Repos)
    BY <1>2, PlanKeeps
  <1>3. ASSUME NEW t \in RepoTasks, PullAllRepos(p, distinctRepos({t}))
        PROVE  ReposInv' /\ WorkIsSafe
    <2>1. {t} \in SUBSET RepoTasks
      OBVIOUS
    <2>2. QED  BY <1>1, <1>3, <2>1, PlanKeeps
  <1>4. ASSUME NEW t \in RepoTasks,
               PullAllRepos(p, distinctRepos({u \in RepoTasks : u.initiative = t.initiative}))
        PROVE  ReposInv' /\ WorkIsSafe
    <2> DEFINE T == {u \in RepoTasks : u.initiative = t.initiative}
    <2>1. T \in SUBSET RepoTasks
      OBVIOUS
    <2>2. PullAllRepos(p, distinctRepos(T))
      BY <1>4
    <2> HIDE DEF T
    <2>3. QED  BY <1>1, <2>1, <2>2, PlanKeeps
  <1>5. QED  BY <1>2, <1>3, <1>4 DEF newReposPullCmd

(* What a puller that is not idle has at hand.                             *)
LEMMA AtHand ==
    ASSUME ReposInv, NEW p \in Pullers, puller[p].pc # "idle"
    PROVE  /\ PulledRepo(p) \in Repos /\ clone[PulledRepo(p)] \in Clones
           /\ puller[p] \in Pulls /\ PlanFits(puller[p])
           /\ PullFits(puller[p], clone[PulledRepo(p)])
           /\ DOMAIN puller = Pullers /\ PulledRepo(p) = Head(puller[p].todo)
  <1>1. PulledRepo(p) \in Repos
    BY PulledIsRepo
  <1>2. QED  BY <1>1 DEF ReposInv, PullOK, PulledRepo

(* A pull that reads: nothing moves, and it goes on with a new record or   *)
(* has its result.                                                         *)
LEMMA PullReads ==
    ASSUME ReposInv, NEW p \in Pullers, puller[p].pc # "idle",
           NEW a, NEW q, puller' = AfterRepo(p, a) \/ puller' = [puller EXCEPT ![p] = q],
           UNCHANGED <<clone, syncer, work, remoteWork>>,
           q \in Pulls, q.pc # "idle", q.todo = puller[p].todo, q.plan = puller[p].plan,
           q.results = puller[p].results, PullFits(q, clone[PulledRepo(p)])
    PROVE  ReposInv' /\ WorkIsSafe
  <1>1. PlanFits(puller[p])
    BY AtHand
  <1>2. PlanFits(q)
    BY <1>1 DEF PlanFits
  <1>3. PullFits(q, clone'[Head(q.todo)])
    BY DEF PulledRepo
  <1>4. QuietStep /\ WorkIsSafe /\ \A r \in TopRepos : clone[r].upstream \subseteq clone'[r].upstream
    BY NothingIsQuiet, NothingIsSafe, QuietUpstreams
  <1>5. CASE puller' = AfterRepo(p, a)
    BY <1>4, <1>5, AfterRepoKeeps
  <1>6. CASE puller' = [puller EXCEPT ![p] = q]
    BY <1>2, <1>3, <1>4, <1>6, PullGoesOn
  <1>7. QED  BY <1>5, <1>6

LEMMA ReadDefaultKeeps ==
    ASSUME ReposInv, NEW p \in Pullers, ReadDefault(p)
    PROVE  ReposInv' /\ WorkIsSafe
  <1> DEFINE d == clone[PulledRepo(p)].default
             o == puller[p]
             q == [o EXCEPT !.pc = "head", !.default = d]
  <1>1. o.pc = "default" /\ UNCHANGED <<clone, syncer, work, remoteWork>>
    BY DEF ReadDefault
  <1>2. o \in Pulls /\ clone[PulledRepo(p)] \in Clones /\ d \in Branches \cup {NoBranch}
    BY <1>1, AtHand DEF Clones
  <1>3. puller' = AfterRepo(p, "fetched") \/ (d # NoBranch /\ puller' = [puller EXCEPT ![p] = q])
    BY DEF ReadDefault
  <1>4. /\ q \in Pulls /\ q.pc = "head" /\ q.todo = o.todo /\ q.plan = o.plan
        /\ q.results = o.results /\ q.default = d
    BY <1>2 DEF Pulls, PullSteps
  <1> HIDE DEF q
  <1>5. CASE puller' = AfterRepo(p, "fetched")
    BY <1>1, <1>5, AfterRepoKeeps, NothingIsQuiet, NothingIsSafe, QuietUpstreams
  <1>6. CASE d # NoBranch /\ puller' = [puller EXCEPT ![p] = q]
    <2>1. PullFits(q, clone[PulledRepo(p)])
      BY <1>4, <1>6 DEF PullFits
    <2>2. QED  BY <1>1, <1>4, <1>6, <2>1, PullReads
  <1>7. QED  BY <1>3, <1>5, <1>6

LEMMA ReadHeadKeeps ==
    ASSUME ReposInv, NEW p \in Pullers, ReadHead(p)
    PROVE  ReposInv' /\ WorkIsSafe
  <1> DEFINE c == clone[PulledRepo(p)]
             o == puller[p]
             q == [o EXCEPT !.pc = "status", !.branch = c.head, !.disturbed = FALSE]
  <1>1. o.pc = "head" /\ UNCHANGED <<clone, syncer, work, remoteWork>>
    BY DEF ReadHead
  <1>2. o \in Pulls /\ c \in Clones /\ c.head \in Branches \cup {NoBranch} /\ PullFits(o, c)
    BY <1>1, AtHand DEF Clones
  <1>3. \/ puller' = AfterRepo(p, "skipped-branch")
        \/ c.head = o.default /\ puller' = [puller EXCEPT ![p] = q]
    BY DEF ReadHead
  <1>4. /\ q \in Pulls /\ q.pc = "status" /\ q.todo = o.todo /\ q.plan = o.plan
        /\ q.results = o.results /\ q.default = o.default
    BY <1>2 DEF Pulls, PullSteps
  <1> HIDE DEF q
  <1>5. CASE puller' = AfterRepo(p, "skipped-branch")
    BY <1>1, <1>5, AfterRepoKeeps, NothingIsQuiet, NothingIsSafe, QuietUpstreams
  <1>6. CASE c.head = o.default /\ puller' = [puller EXCEPT ![p] = q]
    <2>1. PullFits(q, c)
      BY <1>1, <1>2, <1>4, <1>6 DEF PullFits
    <2>2. QED  BY <1>1, <1>4, <1>6, <2>1, PullReads
  <1>7. QED  BY <1>3, <1>5, <1>6

LEMMA ReadStatusKeeps ==
    ASSUME ReposInv, NEW p \in Pullers, ReadStatus(p)
    PROVE  ReposInv' /\ WorkIsSafe
  <1> DEFINE c == clone[PulledRepo(p)]
             o == puller[p]
             q == [o EXCEPT !.pc = "upstream"]
  <1>1. o.pc = "status" /\ UNCHANGED <<clone, syncer, work, remoteWork>>
    BY DEF ReadStatus
  <1>2. o \in Pulls /\ c \in Clones /\ PullFits(o, c) /\ DOMAIN puller = Pullers
    BY <1>1, AtHand
  <1>3. \/ puller' = AfterRepo(p, "skipped-dirty")
        \/ ~c.dirty /\ puller' = [puller EXCEPT ![p] = q]
    BY <1>2 DEF ReadStatus
  <1>4. /\ q \in Pulls /\ q.pc = "upstream" /\ q.todo = o.todo /\ q.plan = o.plan
        /\ q.results = o.results /\ q.default = o.default /\ q.disturbed = o.disturbed
    BY <1>2 DEF Pulls, PullSteps
  <1> HIDE DEF q
  <1>5. CASE puller' = AfterRepo(p, "skipped-dirty")
    BY <1>1, <1>5, AfterRepoKeeps, NothingIsQuiet, NothingIsSafe, QuietUpstreams
  <1>6. CASE ~c.dirty /\ puller' = [puller EXCEPT ![p] = q]
    <2>1. PullFits(q, c)
      BY <1>1, <1>2, <1>4, <1>6 DEF PullFits
    <2>2. QED  BY <1>1, <1>4, <1>6, <2>1, PullReads
  <1>7. QED  BY <1>3, <1>5, <1>6

LEMMA ReadUpstreamKeeps ==
    ASSUME ReposInv, NEW p \in Pullers, ReadUpstream(p)
    PROVE  ReposInv' /\ WorkIsSafe
  <1> DEFINE c == clone[PulledRepo(p)]
             o == puller[p]
             q == [o EXCEPT !.pc = "pull"]
  <1>1. o.pc = "upstream" /\ UNCHANGED <<clone, syncer, work, remoteWork>>
    BY DEF ReadUpstream
  <1>2. o \in Pulls /\ c \in Clones /\ PullFits(o, c) /\ DOMAIN puller = Pullers
    BY <1>1, AtHand
  <1>3. \/ puller' = AfterRepo(p, "skipped-no-upstream")
        \/ puller' = [puller EXCEPT ![p] = q]
    BY <1>2 DEF ReadUpstream
  <1>4. /\ q \in Pulls /\ q.pc = "pull" /\ q.todo = o.todo /\ q.plan = o.plan
        /\ q.results = o.results /\ q.default = o.default /\ q.disturbed = o.disturbed
    BY <1>2 DEF Pulls, PullSteps
  <1> HIDE DEF q
  <1>5. CASE puller' = AfterRepo(p, "skipped-no-upstream")
    BY <1>1, <1>5, AfterRepoKeeps, NothingIsQuiet, NothingIsSafe, QuietUpstreams
  <1>6. CASE puller' = [puller EXCEPT ![p] = q]
    <2>1. PullFits(q, c)
      BY <1>1, <1>2, <1>4, <1>6 DEF PullFits
    <2>2. QED  BY <1>1, <1>4, <1>6, <2>1, PullReads
  <1>7. QED  BY <1>3, <1>5, <1>6

(* One clone moves: no commit is lost, and a branch goes to its upstream.  *)
LEMMA MoveIsSafe ==
    ASSUME ReposInv, NEW r \in Repos, NEW d, Quiet(clone[r], d), KeepsCommits(clone[r], d),
           clone' = [clone EXCEPT ![r] = d],
           \A b \in Branches :
             \/ d.local[b] \in {clone[r].local[b], Gone}
             \/ b \in clone[r].upstream /\ d.local[b] = d.tracking[b]
             \/ r \in TopRepos /\ syncer[r].disturbed
    PROVE  WorkIsSafe
  <1>1. clone'[r] = d /\ \A x \in Repos \ {r} : clone'[x] = clone[x]
    BY QuietAt
  <1>2. KeepsWork(r)
    BY <1>1 DEF KeepsWork, KeepsCommits
  <1>3. FollowsUpstream(r)
    BY <1>1 DEF FollowsUpstream
  <1>4. QED  BY <1>1, <1>2, <1>3 DEF WorkIsSafe

LEMMA UpstreamsStay ==
    ASSUME ReposInv, NEW r \in Repos, NEW d, Quiet(clone[r], d), d.upstream = clone[r].upstream,
           clone' = [clone EXCEPT ![r] = d]
    PROVE  \A x \in TopRepos : clone[x].upstream \subseteq clone'[x].upstream
  <1>1. clone'[r] = d /\ \A x \in Repos \ {r} : clone'[x] = clone[x]
    BY QuietAt
  <1>2. QED  BY <1>1, ReposAssumption

LEMMA PullFetchKeeps ==
    ASSUME ReposInv, NEW p \in Pullers, PullFetch(p)
    PROVE  ReposInv' /\ WorkIsSafe
  <1> DEFINE r == PulledRepo(p)
             c == clone[r]
             o == puller[p]
             q == [o EXCEPT !.pc = "default"]
             d == Fetched(c)
  <1>1. o.pc = "fetch" /\ UNCHANGED <<syncer, work, remoteWork>>
    BY DEF PullFetch
  <1>2. o \in Pulls /\ r \in Repos /\ c \in Clones /\ PlanFits(o) /\ DOMAIN puller = Pullers
    BY <1>1, AtHand
  <1>3. \/ puller' = AfterRepo(p, "error") /\ clone' = clone
        \/ /\ clone' = [clone EXCEPT ![r] = d]
           /\ puller' = AfterRepo(p, "fetched") \/ puller' = [puller EXCEPT ![p] = q]
    BY <1>2 DEF PullFetch, ReposInv
  <1>4. Quiet(c, d) /\ KeepsCommits(c, d) /\ d.local = c.local /\ d.upstream = c.upstream
    BY <1>2, FetchIsQuiet
  <1>5. /\ q \in Pulls /\ q.pc = "default" /\ q.todo = o.todo /\ q.plan = o.plan
        /\ q.results = o.results
    BY <1>2 DEF Pulls, PullSteps
  <1> HIDE DEF q, d
  <1>6. PlanFits(q) /\ PullFits(q, clone'[Head(q.todo)])
    BY <1>1, <1>2, <1>5 DEF PlanFits, PullFits
  <1>7. CASE puller' = AfterRepo(p, "error") /\ clone' = clone
    BY <1>1, <1>7, AfterRepoKeeps, NothingIsQuiet, NothingIsSafe, QuietUpstreams
  <1>8. CASE clone' = [clone EXCEPT ![r] = d]
    <2>1. QuietStep /\ \A x \in TopRepos : clone[x].upstream \subseteq clone'[x].upstream
      BY <1>2, <1>4, <1>8, QuietAt, UpstreamsStay
    <2>2. WorkIsSafe
      BY <1>2, <1>4, <1>8, MoveIsSafe
    <2>3. CASE puller' = AfterRepo(p, "fetched")
      BY <1>1, <2>1, <2>2, <2>3, AfterRepoKeeps
    <2>4. CASE puller' = [puller EXCEPT ![p] = q]
      BY <1>1, <1>5, <1>6, <2>1, <2>2, <2>4, PullGoesOn
    <2>5. QED  BY <1>3, <1>8, <1>1, <2>3, <2>4, <2>2, AfterRepoKeeps, <2>1
  <1>9. QED  BY <1>3, <1>7, <1>8

(* What a git pull may leave.                                              *)
LEMMA PulledIsSafe ==
    ASSUME NEW c \in Clones, NEW d, NEW f, f = Fetched(c),
           \/ d = f
           \/ /\ f.head # NoBranch /\ HasUpstream(f, f.head) /\ CanForward(f, f.tracking[f.head])
              /\ d = Forwarded(f, f.tracking[f.head])
    PROVE  /\ Quiet(c, d) /\ KeepsCommits(c, d) /\ d.upstream = c.upstream
           /\ \A b \in Branches : \/ d.local[b] = c.local[b]
                                  \/ b \in c.upstream /\ d.local[b] = d.tracking[b]
  <1>1. /\ f \in Clones /\ Quiet(c, f) /\ KeepsCommits(c, f) /\ f.local = c.local
        /\ f.upstream = c.upstream
    BY FetchIsQuiet DEF Quiet
  <1>2. CASE d = f
    BY <1>1, <1>2
  <1>3. CASE /\ f.head # NoBranch /\ HasUpstream(f, f.head) /\ CanForward(f, f.tracking[f.head])
             /\ d = Forwarded(f, f.tracking[f.head])
    <2> DEFINE target == f.tracking[f.head]
    <2>1. f.head \in Branches /\ target \in Seq(Nat)
      BY <1>1, <1>3 DEF Clones
    <2>2. /\ Quiet(f, d) /\ KeepsCommits(f, d) /\ OnlyTo(f, d, f.head, target)
          /\ d.upstream = f.upstream /\ d.tracking = f.tracking
      BY <1>1, <1>3, <2>1, ForwardIsQuiet
    <2>3. Quiet(c, d)
      BY <1>1, <2>2 DEF Quiet
    <2>4. Kept(f) = Kept(c)
      <3>1. f.head = c.head /\ f.local = c.local /\ f.detached = c.detached
        BY <1>1 DEF Quiet, Fetched, Clones
      <3>2. QED  BY <3>1 DEF Kept, HeadCommit
    <2>5. KeepsCommits(c, d)
      BY <2>2, <2>4 DEF KeepsCommits
    <2>6. \A b \in Branches : d.local[b] = c.local[b] \/ (b \in c.upstream /\ d.local[b] = d.tracking[b])
      BY <1>1, <1>3, <2>2 DEF OnlyTo, HasUpstream
    <2>7. QED  BY <1>1, <2>2, <2>3, <2>5, <2>6
  <1>4. QED  BY <1>2, <1>3

LEMMA FastForwardKeeps ==
    ASSUME ReposInv, NEW p \in Pullers, FastForwardPull(p)
    PROVE  ReposInv' /\ WorkIsSafe
  <1> DEFINE r == PulledRepo(p)
             c == clone[r]
             f == Fetched(c)
  <1>1. puller[p].pc = "pull" /\ UNCHANGED <<syncer, work, remoteWork>>
    BY DEF FastForwardPull
  <1>2. r \in Repos /\ c \in Clones
    BY <1>1, AtHand
  <1>3. CASE clone' = clone /\ puller' = AfterRepo(p, "error")
    BY <1>1, <1>3, AfterRepoKeeps, NothingIsQuiet, NothingIsSafe, QuietUpstreams
  <1>4. ASSUME NEW outcome \in Pulled(p), clone' = [clone EXCEPT ![r] = outcome[1]],
               puller' = AfterRepo(p, outcome[2])
        PROVE  ReposInv' /\ WorkIsSafe
    <2> DEFINE d == outcome[1]
    <2>1. \/ d = f
          \/ /\ f.head # NoBranch /\ HasUpstream(f, f.head) /\ CanForward(f, f.tracking[f.head])
             /\ d = Forwarded(f, f.tracking[f.head])
      BY DEF Pulled
    <2> HIDE DEF d, f
    <2>2. f = Fetched(c)
      BY DEF f
    <2>3. /\ Quiet(c, d) /\ KeepsCommits(c, d) /\ d.upstream = c.upstream
          /\ \A b \in Branches : \/ d.local[b] = c.local[b]
                                 \/ b \in c.upstream /\ d.local[b] = d.tracking[b]
      BY <1>2, <2>1, <2>2, PulledIsSafe
    <2>4. clone' = [clone EXCEPT ![r] = d]
      BY <1>4 DEF d
    <2>5. QuietStep /\ \A x \in TopRepos : clone[x].upstream \subseteq clone'[x].upstream
      BY <1>2, <2>3, <2>4, QuietAt, UpstreamsStay
    <2>6. WorkIsSafe
      <3>1. \A b \in Branches : \/ d.local[b] \in {clone[r].local[b], Gone}
                                \/ b \in clone[r].upstream /\ d.local[b] = d.tracking[b]
                                \/ r \in TopRepos /\ syncer[r].disturbed
        BY <2>3
      <3>2. Quiet(clone[r], d) /\ KeepsCommits(clone[r], d)
        BY <2>3
      <3> HIDE DEF r
      <3>3. r \in Repos
        BY <1>2
      <3>4. QED  BY <2>4, <3>1, <3>2, <3>3, MoveIsSafe, Zenon
    <2>7. QED  BY <1>1, <1>4, <2>5, <2>6, AfterRepoKeeps
  <1>5. QED  BY <1>3, <1>4 DEF FastForwardPull

-----------------------------------------------------------------------------

(* A sync goes on, and leaves the pulls alone.                             *)
LEMMA SyncGoesOn ==
    ASSUME ReposInv, QuietStep, NEW r \in TopRepos, NEW s, syncer' = [syncer EXCEPT ![r] = s],
           puller' = puller, work' = work, remoteWork' = remoteWork,
           \A x \in TopRepos \ {r} : clone[x].upstream \subseteq clone'[x].upstream,
           s \in Syncs, SyncFits(s, clone'[r])
    PROVE  ReposInv'
  <1>1. DOMAIN puller = Pullers /\ DOMAIN syncer = TopRepos
    BY DEF ReposInv
  <1>2. syncer'[r] = s /\ DOMAIN syncer' = TopRepos
    BY <1>1
  <1>3. SyncOK(r)'
    BY <1>2 DEF SyncOK
  <1>4. \A x \in TopRepos \ {r} : SyncOK(x)'
    BY <1>1, OtherSyncs
  <1>5. \A p \in Pullers : PullOK(p)'
    BY OtherPulls
  <1>6. QED  BY <1>1, <1>2, <1>3, <1>4, <1>5 DEF ReposInv, QuietStep

LEMMA SyncAtHand ==
    ASSUME ReposInv, NEW r \in TopRepos
    PROVE  /\ r \in Repos /\ clone[r] \in Clones /\ syncer[r] \in Syncs
           /\ SyncFits(syncer[r], clone[r]) /\ DOMAIN syncer = TopRepos
  BY ReposAssumption DEF ReposInv, SyncOK

(* A sync that only reads.                                                 *)
LEMMA SyncReads ==
    ASSUME ReposInv, NEW r \in TopRepos, NEW s, syncer' = [syncer EXCEPT ![r] = s],
           UNCHANGED <<clone, puller, work, remoteWork>>, s \in Syncs, SyncFits(s, clone[r])
    PROVE  ReposInv' /\ WorkIsSafe
  <1>1. QuietStep /\ WorkIsSafe
    BY NothingIsQuiet, NothingIsSafe
  <1>2. SyncFits(s, clone'[r])
    OBVIOUS
  <1>3. QED  BY <1>1, <1>2, SyncGoesOn

LEMMA SyncStartsKeeps ==
    ASSUME ReposInv, SyncAll \/ SyncReturns
    PROVE  ReposInv' /\ WorkIsSafe
  <1>1. UNCHANGED <<clone, puller, work, remoteWork>>
    BY DEF SyncAll, SyncReturns
  <1> DEFINE s == [NotSyncing EXCEPT !.pc = "waiting"]
  <1>2. syncer' = [r \in TopRepos |-> s] \/ syncer' = [r \in TopRepos |-> NotSyncing]
    BY DEF SyncAll, SyncReturns
  <1>3. /\ s \in Syncs /\ NotSyncing \in Syncs
        /\ s.pc = "waiting" /\ NotSyncing.pc = "idle"
    <2>1. <<>> \in Seq(Branches)
      OBVIOUS
    <2>2. QED  BY <2>1 DEF NotSyncing, Syncs, NoBranch
  <1> HIDE DEF s
  <1>4. DOMAIN syncer' = TopRepos /\ \A r \in TopRepos : SyncOK(r)'
    BY <1>2, <1>3 DEF SyncOK, SyncFits
  <1>5. \A p \in Pullers : PullOK(p)'
    BY <1>1, OtherPulls, NothingIsQuiet
  <1>6. QED  BY <1>1, <1>4, <1>5, NothingIsSafe DEF ReposInv

LEMMA SyncToIs ==
    ASSUME ReposInv, NEW r \in TopRepos, NEW to, NEW s, s = [syncer[r] EXCEPT !.pc = to],
           to \in {"fetch", "current", "merge", "list", "done"}
    PROVE  /\ SyncTo(r, to) = [syncer EXCEPT ![r] = s]
           /\ s \in Syncs /\ s.pc = to /\ s.branch = syncer[r].branch
           /\ s.disturbed = syncer[r].disturbed
  <1>1. syncer[r] \in Syncs /\ DOMAIN syncer = TopRepos
    BY SyncAtHand
  <1>2. s \in Syncs /\ s.pc = to /\ s.branch = syncer[r].branch /\ s.disturbed = syncer[r].disturbed
    BY <1>1 DEF Syncs
  <1>3. SyncTo(r, to) = [syncer EXCEPT ![r] = s]
    BY <1>1 DEF SyncTo
  <1>4. QED  BY <1>2, <1>3

LEMMA SyncRepoKeeps ==
    ASSUME ReposInv, NEW r \in TopRepos, SyncRepo(r)
    PROVE  ReposInv' /\ WorkIsSafe
  <1> DEFINE s == [syncer[r] EXCEPT !.pc = "fetch"]
  <1>1. syncer' = SyncTo(r, "fetch") /\ UNCHANGED <<clone, puller, work, remoteWork>>
    BY DEF SyncRepo, SyncTo
  <1>2. syncer' = [syncer EXCEPT ![r] = s] /\ s \in Syncs /\ s.pc = "fetch"
    BY <1>1, SyncToIs
  <1> HIDE DEF s
  <1>3. SyncFits(s, clone[r])
    BY <1>2 DEF SyncFits
  <1>4. QED  BY <1>1, <1>2, <1>3, SyncReads

LEMMA GitFetchKeeps ==
    ASSUME ReposInv, NEW r \in TopRepos, gitFetch(r)
    PROVE  ReposInv' /\ WorkIsSafe
  <1> DEFINE c == clone[r]
             d == Fetched(c)
             s == [syncer[r] EXCEPT !.pc = "current"]
             e == [syncer[r] EXCEPT !.pc = "done"]
  <1>1. /\ UNCHANGED <<puller, work, remoteWork>>
        /\ \/ clone' = [clone EXCEPT ![r] = d] /\ syncer' = SyncTo(r, "current")
           \/ clone' = clone /\ syncer' = SyncTo(r, "done")
    BY SyncAtHand DEF gitFetch, ReposInv
  <1>2. /\ SyncTo(r, "current") = [syncer EXCEPT ![r] = s] /\ s \in Syncs /\ s.pc = "current"
        /\ SyncTo(r, "done") = [syncer EXCEPT ![r] = e] /\ e \in Syncs /\ e.pc = "done"
    BY SyncToIs
  <1>3. Quiet(c, d) /\ KeepsCommits(c, d) /\ d.local = c.local /\ d.upstream = c.upstream
    BY SyncAtHand, FetchIsQuiet
  <1> HIDE DEF s, e, d
  <1>4. \A x : SyncFits(s, x) /\ SyncFits(e, x)
    BY <1>2 DEF SyncFits
  <1>5. CASE clone' = clone /\ syncer' = SyncTo(r, "done")
    BY <1>1, <1>2, <1>4, <1>5, SyncReads
  <1>6. CASE clone' = [clone EXCEPT ![r] = d] /\ syncer' = SyncTo(r, "current")
    <2>1. QuietStep /\ \A x \in TopRepos \ {r} : clone[x].upstream \subseteq clone'[x].upstream
      BY <1>3, <1>6, QuietAt, UpstreamsStay, SyncAtHand
    <2>2. WorkIsSafe
      BY <1>3, <1>6, MoveIsSafe, SyncAtHand
    <2>3. QED  BY <1>1, <1>2, <1>4, <1>6, <2>1, <2>2, SyncGoesOn
  <1>7. QED  BY <1>1, <1>5, <1>6

LEMMA CurrentBranchKeeps ==
    ASSUME ReposInv, NEW r \in TopRepos, getCurrentBranch(r)
    PROVE  ReposInv' /\ WorkIsSafe
  <1> DEFINE b == clone[r].head
             s == [syncer[r] EXCEPT !.branch = b, !.disturbed = FALSE,
                                    !.pc = IF b = NoBranch THEN "list" ELSE "ancestor"]
  <1>1. clone[r] \in Clones /\ syncer[r] \in Syncs /\ DOMAIN syncer = TopRepos
        /\ b \in Branches \cup {NoBranch}
    BY SyncAtHand DEF Clones
  <1>2. syncer' = [syncer EXCEPT ![r] = s] /\ UNCHANGED <<clone, puller, work, remoteWork>>
    BY <1>1 DEF getCurrentBranch
  <1>3. /\ s \in Syncs /\ s.branch = b
        /\ s.pc = IF b = NoBranch THEN "list" ELSE "ancestor"
    BY <1>1 DEF Syncs
  <1> HIDE DEF s
  <1>4. SyncFits(s, clone[r])
    BY <1>1, <1>3 DEF SyncFits
  <1>5. QED  BY <1>2, <1>3, <1>4, SyncReads

LEMMA CheckForwardKeeps ==
    ASSUME ReposInv, NEW r \in TopRepos, CheckForward(r)
    PROVE  ReposInv' /\ WorkIsSafe
  <1> DEFINE s == [syncer[r] EXCEPT !.pc = "merge"]
             e == [syncer[r] EXCEPT !.pc = "list"]
  <1>1. /\ syncer[r].pc = "ancestor" /\ UNCHANGED <<clone, puller, work, remoteWork>>
        /\ \/ syncer' = SyncTo(r, "merge") /\ syncer[r].branch \in clone[r].upstream
           \/ syncer' = SyncTo(r, "list")
    BY DEF CheckForward, HasUpstream
  <1>2. /\ SyncTo(r, "merge") = [syncer EXCEPT ![r] = s] /\ s \in Syncs /\ s.pc = "merge"
        /\ s.branch = syncer[r].branch /\ s.disturbed = syncer[r].disturbed
        /\ SyncTo(r, "list") = [syncer EXCEPT ![r] = e] /\ e \in Syncs /\ e.pc = "list"
    BY SyncToIs
  <1>3. SyncFits(syncer[r], clone[r])
    BY SyncAtHand
  <1> HIDE DEF s, e
  <1>4. CASE syncer' = SyncTo(r, "merge") /\ syncer[r].branch \in clone[r].upstream
    <2>1. SyncFits(s, clone[r])
      BY <1>1, <1>2, <1>3, <1>4 DEF SyncFits
    <2>2. QED  BY <1>1, <1>2, <1>4, <2>1, SyncReads
  <1>5. CASE syncer' = SyncTo(r, "list")
    <2>1. SyncFits(e, clone[r])
      BY <1>2 DEF SyncFits
    <2>2. QED  BY <1>1, <1>2, <1>5, <2>1, SyncReads
  <1>6. QED  BY <1>1, <1>4, <1>5

LEMMA MergeKeeps ==
    ASSUME ReposInv, NEW r \in TopRepos, gitFFMerge(r)
    PROVE  ReposInv' /\ WorkIsSafe
  <1> DEFINE c == clone[r]
             b == syncer[r].branch
             target == c.tracking[b]
             d == Forwarded(c, target)
             s == [syncer[r] EXCEPT !.pc = "list"]
  <1>1. /\ syncer[r].pc = "merge" /\ UNCHANGED <<puller, work, remoteWork>>
        /\ syncer' = SyncTo(r, "list")
        /\ \/ clone' = clone
           \/ CanForward(c, target) /\ clone' = [clone EXCEPT ![r] = d]
    BY SyncAtHand DEF gitFFMerge, ReposInv
  <1>2. SyncTo(r, "list") = [syncer EXCEPT ![r] = s] /\ s \in Syncs /\ s.pc = "list"
    BY SyncToIs
  <1>3. /\ c \in Clones /\ r \in Repos /\ b \in c.upstream /\ b \in Branches
        /\ ~syncer[r].disturbed => c.head = b
    BY <1>1, SyncAtHand DEF SyncFits
  <1>4. target \in Seq(Nat)
    BY <1>3 DEF Clones
  <1> HIDE DEF s, d, target
  <1>5. \A x : SyncFits(s, x)
    BY <1>2 DEF SyncFits
  <1>6. CASE clone' = clone
    BY <1>1, <1>2, <1>5, <1>6, SyncReads
  <1>7. CASE CanForward(c, target) /\ clone' = [clone EXCEPT ![r] = d]
    <2>1. /\ Quiet(c, d) /\ KeepsCommits(c, d) /\ OnlyTo(c, d, c.head, target)
          /\ d.upstream = c.upstream /\ d.tracking = c.tracking
      BY <1>3, <1>4, <1>7, ForwardIsQuiet DEF d
    <2>2. \A a \in Branches : \/ d.local[a] \in {clone[r].local[a], Gone}
                              \/ a \in clone[r].upstream /\ d.local[a] = d.tracking[a]
                              \/ r \in TopRepos /\ syncer[r].disturbed
      BY <1>3, <2>1 DEF OnlyTo, target
    <2>3. QuietStep /\ \A x \in TopRepos \ {r} : clone[x].upstream \subseteq clone'[x].upstream
      BY <1>3, <1>7, <2>1, QuietAt, UpstreamsStay
    <2>4. WorkIsSafe
      BY <1>3, <1>7, <2>1, <2>2, MoveIsSafe
    <2>5. QED  BY <1>1, <1>2, <1>5, <2>3, <2>4, SyncGoesOn
  <1>8. QED  BY <1>1, <1>6, <1>7

LEMMA ListMergedKeeps ==
    ASSUME ReposInv, NEW r \in TopRepos, ListMerged(r)
    PROVE  ReposInv' /\ WorkIsSafe
  <1> DEFINE c == clone[r]
             merged == {b \in Branches : /\ IsAncestor(c.local[b], HeadCommit(c))
                                         /\ b \notin {c.head, "main", "master"} \cup c.held}
             m == SetToSeq(merged)
             s == [NotSyncing EXCEPT !.pc = "delete", !.merged = m]
  <1>1. syncer' = [syncer EXCEPT ![r] = s] /\ UNCHANGED <<clone, puller, work, remoteWork>>
    BY DEF ListMerged
  <1>2. merged \subseteq Branches
    OBVIOUS
  <1>3. m \in Seq(Branches)
    <2> HIDE DEF merged
    <2>1. IsFiniteSet(merged)
      BY <1>2, ReposAssumption, FS_Subset
    <2>2. m \in Seq(merged)
      BY <2>1, SetAsSeq
    <2>3. QED  BY <1>2, <2>2, SeqMonotonic
  <1> HIDE DEF m
  <1>4. s \in Syncs /\ s.pc = "delete"
    BY <1>3 DEF NotSyncing, Syncs, NoBranch
  <1> HIDE DEF s
  <1>5. SyncFits(s, clone[r])
    BY <1>4 DEF SyncFits
  <1>6. QED  BY <1>1, <1>4, <1>5, SyncReads

LEMMA CleanupKeeps ==
    ASSUME ReposInv, NEW r \in TopRepos, gitCleanupBranches(r)
    PROVE  ReposInv' /\ WorkIsSafe
  <1> DEFINE c == clone[r]
             m == syncer[r].merged
             b == Head(m)
             d == Deleted(c, b)
             s == [syncer[r] EXCEPT !.pc = "done"]
             t == [syncer[r] EXCEPT !.merged = Tail(@)]
  <1>1. /\ syncer[r].pc = "delete" /\ UNCHANGED <<puller, work, remoteWork>>
        /\ \/ m = <<>> /\ syncer' = SyncTo(r, "done") /\ clone' = clone
           \/ /\ m # <<>> /\ syncer' = [syncer EXCEPT ![r] = t]
              /\ \/ clone' = clone
                 \/ SafeToDelete(c, b) /\ clone' = [clone EXCEPT ![r] = d]
    BY SyncAtHand DEF gitCleanupBranches, ReposInv
  <1>2. SyncTo(r, "done") = [syncer EXCEPT ![r] = s] /\ s \in Syncs /\ s.pc = "done"
    BY SyncToIs
  <1>3. c \in Clones /\ r \in Repos /\ m \in Seq(Branches) /\ syncer[r] \in Syncs
    BY SyncAtHand DEF Syncs
  <1>4. CASE m = <<>> /\ syncer' = SyncTo(r, "done") /\ clone' = clone
    <2> HIDE DEF s
    <2>1. SyncFits(s, clone[r])
      BY <1>2 DEF SyncFits
    <2>2. QED  BY <1>1, <1>2, <1>4, <2>1, SyncReads
  <1>5. CASE m # <<>> /\ syncer' = [syncer EXCEPT ![r] = t]
    <2>1. b \in Branches /\ Tail(m) \in Seq(Branches)
      BY <1>3, <1>5, FirstAndRest
    <2>2. t \in Syncs /\ t.pc = "delete"
      BY <1>1, <1>3, <2>1 DEF Syncs
    <2> HIDE DEF t, b, m
    <2>3. \A x : SyncFits(t, x)
      BY <2>2 DEF SyncFits
    <2>4. CASE clone' = clone
      BY <1>1, <1>5, <2>2, <2>3, <2>4, SyncReads
    <2>5. CASE SafeToDelete(c, b) /\ clone' = [clone EXCEPT ![r] = d]
      <3>1. Quiet(c, d) /\ KeepsCommits(c, d) /\ OnlyTo(c, d, b, Gone)
        BY <1>3, <2>1, <2>5, DeleteIsQuiet
      <3> HIDE DEF d
      <3>2. \A a \in Branches : d.local[a] \in {clone[r].local[a], Gone}
        BY <3>1 DEF OnlyTo
      <3>3. QuietStep /\ \A x \in TopRepos \ {r} : clone[x].upstream \subseteq clone'[x].upstream
        <4>1. QuietStep /\ \A x \in Repos \ {r} : clone'[x] = clone[x]
          BY <1>3, <2>5, <3>1, QuietAt
        <4>2. QED  BY <4>1, ReposAssumption
      <3>4. WorkIsSafe
        BY <1>3, <2>5, <3>1, <3>2, MoveIsSafe
      <3>5. QED  BY <1>1, <1>5, <2>2, <2>3, <3>3, <3>4, SyncGoesOn
    <2>6. m # <<>>
      BY <1>5
    <2>7. QED  BY <1>1, <1>5, <2>4, <2>5, <2>6
  <1>6. QED  BY <1>1, <1>4, <1>5

-----------------------------------------------------------------------------

(* A user may do anything in a clone but change its default branch: what a *)
(* command has read there is disturbed.                                    *)
LEMMA UserKeeps ==
    ASSUME ReposInv, NEW r \in Repos, NEW c \in Clones, WorkOn(r, c),
           c.default = clone[r].default, clone[r].upstream \subseteq c.upstream
    PROVE  ReposInv' /\ WorkIsSafe
  <1>1. /\ clone' = [clone EXCEPT ![r] = c] /\ work' = work + 1 /\ remoteWork' = remoteWork
        /\ syncer' = [q \in TopRepos |-> [syncer[q] EXCEPT !.disturbed = @ \/
                        (q = r /\ syncer[q].pc \in {"ancestor", "merge"})]]
        /\ puller' = [p \in Pullers |-> [puller[p] EXCEPT !.disturbed = @ \/
                        (puller[p].pc \in {"status", "upstream", "pull"} /\ PulledRepo(p) = r)]]
    BY DEF WorkOn
  <1>2. /\ clone \in [Repos -> Clones] /\ work \in Nat /\ remoteWork \in Nat
    BY DEF ReposInv
  <1>3. clone' \in [Repos -> Clones] /\ clone'[r] = c /\ \A x \in Repos \ {r} : clone'[x] = clone[x]
    BY <1>1, <1>2
  <1>4. ASSUME NEW p \in Pullers
        PROVE  PullOK(p)'
    <2> DEFINE o == puller[p]
               q == puller'[p]
               m == o.disturbed \/ (o.pc \in {"status", "upstream", "pull"} /\ PulledRepo(p) = r)
    <2>1. o \in Pulls /\ PlanFits(o)
      BY DEF ReposInv, PullOK
    <2>2. q = [o EXCEPT !.disturbed = m]
      BY <1>1
    <2>3. m \in BOOLEAN
      BY <2>1 DEF Pulls
    <2> HIDE DEF m
    <2>4. /\ q \in Pulls /\ q.pc = o.pc /\ q.todo = o.todo /\ q.plan = o.plan
          /\ q.results = o.results /\ q.default = o.default /\ q.disturbed = m
      <3> HIDE DEF o, q
      <3>1. q \in Pulls
        BY <2>1, <2>2, <2>3 DEF Pulls
      <3>2. QED  BY <2>1, <2>2, <3>1 DEF Pulls
    <2>5. PlanFits(q)
      BY <2>1, <2>4 DEF PlanFits
    <2>6. ASSUME q.pc # "idle"
          PROVE  PullFits(q, clone'[PulledRepo(p)])
      <3>1. PulledRepo(p) \in Repos /\ PullFits(o, clone[PulledRepo(p)])
        BY <2>4, <2>6, AtHand
      <3>2. CASE PulledRepo(p) = r
        BY <1>3, <2>4, <3>1, <3>2 DEF PullFits, m
      <3>3. CASE PulledRepo(p) # r
        BY <1>3, <2>4, <3>1, <3>3 DEF PullFits, m
      <3>4. QED  BY <3>2, <3>3
    <2>7. PulledRepo(p)' = PulledRepo(p)
      BY <2>4 DEF PulledRepo
    <2>8. QED  BY <2>4, <2>5, <2>6, <2>7 DEF PullOK
  <1>5. ASSUME NEW x \in TopRepos
        PROVE  SyncOK(x)'
    <2> DEFINE o == syncer[x]
               s == syncer'[x]
               m == o.disturbed \/ (x = r /\ o.pc \in {"ancestor", "merge"})
    <2>1. o \in Syncs /\ SyncFits(o, clone[x]) /\ x \in Repos
      BY SyncAtHand
    <2>2. s = [o EXCEPT !.disturbed = m]
      BY <1>1
    <2>3. m \in BOOLEAN
      BY <2>1 DEF Syncs
    <2> HIDE DEF m
    <2>4. s \in Syncs /\ s.pc = o.pc /\ s.branch = o.branch /\ s.disturbed = m
      BY <2>1, <2>2, <2>3 DEF Syncs
    <2>5. SyncFits(s, clone'[x])
      <3>1. CASE x = r
        BY <1>3, <2>1, <2>4, <3>1 DEF SyncFits, m
      <3>2. CASE x # r
        BY <1>3, <2>1, <2>4, <3>2 DEF SyncFits, m
      <3>3. QED  BY <3>1, <3>2
    <2>6. QED  BY <2>4, <2>5 DEF SyncOK
  <1>6. ReposInv'
    BY <1>1, <1>2, <1>3, <1>4, <1>5 DEF ReposInv
  <1>7. WorkIsSafe
    BY <1>1, <1>2 DEF WorkIsSafe, ByUser
  <1>8. QED  BY <1>6, <1>7

(* What the users' steps leave is a clone.                                 *)
LEMMA SwitchKeeps ==
    ASSUME ReposInv, NEW r \in Repos, Switch(r)
    PROVE  ReposInv' /\ WorkIsSafe
  <1>1. clone[r] \in Clones
    BY DEF ReposInv
  <1>2. PICK b \in Branches : WorkOn(r, [clone[r] EXCEPT !.head = b, !.detached = Root])
    BY DEF Switch
  <1> DEFINE c == [clone[r] EXCEPT !.head = b, !.detached = Root]
  <1>3. Root \in Seq(Nat)
    BY DEF Root
  <1>4. c \in Clones /\ c.default = clone[r].default /\ c.upstream = clone[r].upstream
    BY <1>1, <1>3 DEF Clones
  <1>5. WorkOn(r, c)
    BY <1>2
  <1> HIDE DEF c
  <1>6. QED  BY <1>4, <1>5, UserKeeps

LEMMA DetachKeeps ==
    ASSUME ReposInv, NEW r \in Repos, Detach(r)
    PROVE  ReposInv' /\ WorkIsSafe
  <1> DEFINE h == HeadCommit(clone[r])
             c == [clone[r] EXCEPT !.head = NoBranch, !.detached = h]
  <1>1. clone[r] \in Clones /\ h \in Seq(Nat)
    BY HeadIsKept DEF ReposInv
  <1> HIDE DEF h
  <1>2. c \in Clones /\ c.default = clone[r].default /\ c.upstream = clone[r].upstream
    BY <1>1 DEF Clones
  <1>3. WorkOn(r, c)
    BY DEF Detach, h
  <1> HIDE DEF c
  <1>4. QED  BY <1>2, <1>3, UserKeeps

LEMMA NewBranchKeeps ==
    ASSUME ReposInv, NEW r \in Repos, NewBranch(r)
    PROVE  ReposInv' /\ WorkIsSafe
  <1>1. PICK b \in Branches :
          \/ WorkOn(r, [clone[r] EXCEPT !.local[b] = HeadCommit(clone[r]), !.head = b])
          \/ WorkOn(r, [clone[r] EXCEPT !.local[b] = HeadCommit(clone[r]), !.held = @ \cup {b}])
          \/ WorkOn(r, [clone[r] EXCEPT !.local[b] = clone[r].tracking[b], !.upstream = @ \cup {b}])
    BY DEF NewBranch
  <1> DEFINE o == clone[r]
             l == [o.local EXCEPT ![b] = HeadCommit(o)]
             m == [o.local EXCEPT ![b] = o.tracking[b]]
             worktrees == o.held \cup {b}
             ups == o.upstream \cup {b}
             c1 == [o EXCEPT !.local = l, !.head = b]
             c2 == [o EXCEPT !.local = l, !.held = worktrees]
             c3 == [o EXCEPT !.local = m, !.upstream = ups]
  <1>2. o \in Clones /\ HeadCommit(o) \in Seq(Nat)
    BY HeadIsKept DEF ReposInv
  <1>3. o.tracking[b] \in Seq(Nat)
    BY <1>2 DEF Clones
  <1>4. /\ l \in [Branches -> Seq(Nat)] /\ m \in [Branches -> Seq(Nat)]
        /\ worktrees \in SUBSET Branches /\ ups \in SUBSET Branches
    BY <1>2, <1>3 DEF Clones
  <1>5. WorkOn(r, c1) \/ WorkOn(r, c2) \/ WorkOn(r, c3)
    <2>1. /\ c1 = [clone[r] EXCEPT !.local[b] = HeadCommit(clone[r]), !.head = b]
          /\ c2 = [clone[r] EXCEPT !.local[b] = HeadCommit(clone[r]), !.held = @ \cup {b}]
          /\ c3 = [clone[r] EXCEPT !.local[b] = clone[r].tracking[b], !.upstream = @ \cup {b}]
      BY <1>2 DEF Clones
    <2> HIDE DEF c1, c2, c3
    <2>2. QED  BY <1>1, <2>1
  <1>6. o.upstream \subseteq ups
    OBVIOUS
  <1> HIDE DEF l, m, worktrees, ups, o
  <1>7. /\ c1 \in Clones /\ c1.default = o.default /\ c1.upstream = o.upstream
        /\ c2 \in Clones /\ c2.default = o.default /\ c2.upstream = o.upstream
        /\ c3 \in Clones /\ c3.default = o.default /\ c3.upstream = ups
    BY <1>2, <1>4 DEF Clones
  <1> HIDE DEF c1, c2, c3
  <1>8. QED  BY <1>5, <1>6, <1>7, UserKeeps DEF o

LEMMA EditKeeps ==
    ASSUME ReposInv, NEW r \in Repos, EditClone(r)
    PROVE  ReposInv' /\ WorkIsSafe
  <1> DEFINE c == [clone[r] EXCEPT !.dirty = TRUE]
  <1>1. clone[r] \in Clones /\ WorkOn(r, c)
    BY DEF ReposInv, EditClone
  <1>2. c \in Clones /\ c.default = clone[r].default /\ c.upstream = clone[r].upstream
    BY <1>1 DEF Clones
  <1> HIDE DEF c
  <1>3. QED  BY <1>1, <1>2, UserKeeps

LEMMA CommitKeeps ==
    ASSUME ReposInv, NEW r \in Repos, Commit(r)
    PROVE  ReposInv' /\ WorkIsSafe
  <1> DEFINE o == clone[r]
             a == Append(HeadCommit(o), work + 1)
             f == Forwarded(o, a)
             c == [f EXCEPT !.dirty = FALSE]
  <1>1. o \in Clones /\ HeadCommit(o) \in Seq(Nat) /\ work \in Nat /\ WorkOn(r, c)
    BY HeadIsKept DEF ReposInv, Commit
  <1>2. a \in Seq(Nat)
    BY <1>1
  <1> HIDE DEF a
  <1>3. f \in Clones /\ f.default = o.default /\ f.upstream = o.upstream
    <2>1. CASE o.head = NoBranch
      BY <1>1, <1>2, <2>1 DEF Forwarded, Clones
    <2>2. CASE o.head # NoBranch
      <3> DEFINE l == [o.local EXCEPT ![o.head] = a]
      <3>1. l \in [Branches -> Seq(Nat)] /\ f = [o EXCEPT !.local = l]
        BY <1>1, <1>2, <2>2 DEF Forwarded, Clones
      <3> HIDE DEF l, f
      <3>2. QED  BY <1>1, <3>1 DEF Clones
    <2>3. QED  BY <2>1, <2>2
  <1> HIDE DEF f
  <1>4. c \in Clones /\ c.default = o.default /\ c.upstream = o.upstream
    BY <1>3 DEF Clones
  <1> HIDE DEF c
  <1>5. QED  BY <1>1, <1>4, UserKeeps

LEMMA PushKeeps ==
    ASSUME ReposInv, NEW r \in Repos, PushBranch(r)
    PROVE  ReposInv' /\ WorkIsSafe
  <1>1. PICK b \in Branches :
          WorkOn(r, [clone[r] EXCEPT !.remote[b] = clone[r].local[b],
                       !.tracking[b] = clone[r].local[b], !.upstream = @ \cup {b}])
    BY DEF PushBranch
  <1> DEFINE o == clone[r]
             rem == [o.remote EXCEPT ![b] = o.local[b]]
             tr == [o.tracking EXCEPT ![b] = o.local[b]]
             ups == o.upstream \cup {b}
             c == [o EXCEPT !.remote = rem, !.tracking = tr, !.upstream = ups]
  <1>2. o \in Clones
    BY DEF ReposInv
  <1>3. o.local[b] \in Seq(Nat)
    BY <1>2 DEF Clones
  <1>4. /\ rem \in [Branches -> Seq(Nat)] /\ tr \in [Branches -> Seq(Nat)]
        /\ ups \in SUBSET Branches /\ o.upstream \subseteq ups
    BY <1>2, <1>3 DEF Clones
  <1>5. WorkOn(r, c)
    <2>1. c = [clone[r] EXCEPT !.remote[b] = clone[r].local[b],
                 !.tracking[b] = clone[r].local[b], !.upstream = @ \cup {b}]
      BY <1>2 DEF Clones
    <2> HIDE DEF c
    <2>2. QED  BY <1>1, <2>1
  <1> HIDE DEF rem, tr, ups, o
  <1>6. c \in Clones /\ c.default = o.default /\ c.upstream = ups
    BY <1>2, <1>4 DEF Clones
  <1> HIDE DEF c
  <1>7. QED  BY <1>4, <1>5, <1>6, UserKeeps DEF o

LEMMA OthersKeep ==
    ASSUME ReposInv, NEW r \in Repos, Others(r)
    PROVE  ReposInv' /\ WorkIsSafe
  <1> DEFINE o == clone[r]
  <1>1. PICK b \in Branches, v \in Seq(Nat) : clone' = [clone EXCEPT ![r].remote[b] = v]
    <2>1. PICK b \in Branches :
            \/ clone' = [clone EXCEPT ![r].remote[b] =
                           Append(IF @ = Gone THEN Root ELSE @, MaxWork + remoteWork + 1)]
            \/ clone' = [clone EXCEPT ![r].remote[b] = Gone]
      BY DEF Others
    <2>2. Gone \in Seq(Nat) /\ Root \in Seq(Nat)
      BY DEF Gone, Root
    <2> DEFINE old == IF o.remote[b] = Gone THEN Root ELSE o.remote[b]
               v == Append(old, MaxWork + remoteWork + 1)
    <2>3. old \in Seq(Nat)
      <3>1. o \in Clones
        BY DEF ReposInv
      <3>2. o.remote[b] \in Seq(Nat)
        BY <3>1 DEF Clones
      <3>3. QED  BY <2>2, <3>2
    <2>4. MaxWork + remoteWork + 1 \in Nat
      <3>1. MaxWork \in Nat /\ remoteWork \in Nat
        BY ReposAssumption DEF ReposInv
      <3>2. QED  BY <3>1
    <2>a. v \in Seq(Nat)
      BY <2>3, <2>4
    <2>5. CASE clone' = [clone EXCEPT ![r].remote[b] = Gone]
      BY <2>2, <2>5
    <2>6. CASE clone' = [clone EXCEPT ![r].remote[b] =
                           Append(IF @ = Gone THEN Root ELSE @, MaxWork + remoteWork + 1)]
      <3>1. clone' = [clone EXCEPT ![r].remote[b] = v]
        BY <2>6 DEF ReposInv, Clones
      <3>2. QED  BY <2>a, <3>1
    <2>7. QED  BY <2>1, <2>5, <2>6
  <1> DEFINE m == [o.remote EXCEPT ![b] = v]
             d == [o EXCEPT !.remote = m]
  <1>2. o \in Clones
    BY DEF ReposInv
  <1>3. m \in [Branches -> Seq(Nat)]
    BY <1>2 DEF Clones
  <1>4. clone' = [clone EXCEPT ![r] = d]
    BY <1>1, <1>2 DEF ReposInv, Clones
  <1> HIDE DEF m
  <1>5. /\ d \in Clones /\ d.head = o.head /\ d.dirty = o.dirty /\ d.default = o.default
        /\ d.upstream = o.upstream /\ d.local = o.local /\ d.detached = o.detached
    BY <1>2, <1>3 DEF Clones
  <1> HIDE DEF d
  <1>6. Quiet(o, d) /\ KeepsCommits(o, d)
    BY <1>5 DEF Quiet, KeepsCommits, Kept, HeadCommit
  <1>7. QuietStep /\ \A x \in TopRepos : clone[x].upstream \subseteq clone'[x].upstream
    BY <1>4, <1>5, <1>6, QuietAt, UpstreamsStay
  <1>8. WorkIsSafe
    BY <1>4, <1>5, <1>6, MoveIsSafe
  <1>9. UNCHANGED <<puller, syncer, work>> /\ remoteWork' \in Nat
    BY DEF Others, ReposInv
  <1>10. (\A p \in Pullers : PullOK(p)') /\ (\A x \in TopRepos : SyncOK(x)')
    BY <1>7, <1>9, OtherPulls, OtherSyncs
  <1>11. QED  BY <1>7, <1>8, <1>9, <1>10 DEF ReposInv, QuietStep

-----------------------------------------------------------------------------

LEMMA ReposStart == ReposInit => ReposInv
  <1> SUFFICES ASSUME ReposInit PROVE ReposInv
    OBVIOUS
  <1>1. Gone \in Seq(Nat) /\ Root \in Seq(Nat) /\ "main" \in Branches
    <2>1. Gone \in Seq(Nat) /\ Root \in Seq(Nat)
      BY DEF Gone, Root
    <2>2. QED  BY <2>1, ReposAssumption
  <1>2. ASSUME NEW B, NEW d \in Branches \cup {NoBranch}
        PROVE  NewClone(B, d) \in Clones
    <2> DEFINE l == [b \in Branches |-> IF b \in B THEN Root ELSE Gone]
               t == [b \in Branches |-> IF b = "main" THEN Root ELSE Gone]
    <2>1. l \in [Branches -> Seq(Nat)] /\ t \in [Branches -> Seq(Nat)]
      BY <1>1
    <2>2. NewClone(B, d) =
            [local |-> l, tracking |-> t, remote |-> t, upstream |-> {"main"}, held |-> {},
             head |-> "main", detached |-> Root, dirty |-> FALSE, default |-> d]
      BY DEF NewClone
    <2> HIDE DEF l, t
    <2>3. QED  BY <1>1, <2>1, <2>2 DEF Clones
  <1>3. clone \in [Repos -> Clones]
    <2>1. NewClone({"main"}, "main") \in Clones /\ NewClone(Branches, "main") \in Clones
          /\ NewClone({"main"}, NoBranch) \in Clones
      BY <1>1, <1>2
    <2>2. clone \in [Repos -> {NewClone({"main"}, "main"), NewClone(Branches, "main"),
                               NewClone({"main"}, NoBranch)}]
      BY DEF ReposInit
    <2>3. QED  BY <2>1, <2>2
  <1>4. NotPulling \in Pulls /\ PlanFits(NotPulling) /\ NotPulling.pc = "idle"
    <2>1. NotPulling.pc = "idle" /\ NotPulling.todo = <<>> /\ NotPulling.plan = {}
          /\ NotPulling.results = {}
      BY DEF NotPulling
    <2>2. ToSet(<<>>) = {}
      BY DEF ToSet
    <2>3. PlanFits(NotPulling)
      BY <2>1, <2>2 DEF PlanFits
    <2>4. NotPulling \in Pulls
      BY DEF NotPulling, Pulls, PullSteps
    <2>5. QED  BY <2>1, <2>3, <2>4
  <1>5. NotSyncing \in Syncs /\ NotSyncing.pc = "idle"
    BY DEF NotSyncing, Syncs
  <1>6. \A p \in Pullers : PullOK(p)
    BY <1>4 DEF ReposInit, PullOK
  <1>7. \A r \in TopRepos : SyncOK(r)
    BY <1>5 DEF ReposInit, SyncOK, SyncFits
  <1>8. QED  BY <1>3, <1>6, <1>7 DEF ReposInit, ReposInv

LEMMA ReposStep ==
    ASSUME ReposInv, [ReposNext]_reposVars
    PROVE  ReposInv' /\ WorkIsSafe
  <1>1. CASE UNCHANGED reposVars
    <2>1. /\ clone' = clone /\ puller' = puller /\ syncer' = syncer /\ work' = work
          /\ remoteWork' = remoteWork
      BY <1>1 DEF reposVars
    <2>2. QuietStep /\ WorkIsSafe
      BY <2>1, NothingIsQuiet, NothingIsSafe
    <2>3. (\A p \in Pullers : PullOK(p)') /\ (\A r \in TopRepos : SyncOK(r)')
      BY <2>1, <2>2, OtherPulls, OtherSyncs
    <2>4. QED  BY <2>1, <2>2, <2>3 DEF ReposInv
  <1>2. ASSUME NEW p \in Pullers, newReposPullCmd(p) \/ pullOneRepo(p)
        PROVE  ReposInv' /\ WorkIsSafe
    BY <1>2, PullCommandKeeps, PullFetchKeeps, ReadDefaultKeeps, ReadHeadKeeps, ReadStatusKeeps,
       ReadUpstreamKeeps, FastForwardKeeps DEF pullOneRepo
  <1>3. ASSUME SyncAll \/ SyncReturns PROVE ReposInv' /\ WorkIsSafe
    BY <1>3, SyncStartsKeeps
  <1>4. ASSUME NEW r \in TopRepos,
               \/ SyncRepo(r) \/ gitFetch(r) \/ getCurrentBranch(r) \/ CheckForward(r)
               \/ gitFFMerge(r) \/ ListMerged(r) \/ gitCleanupBranches(r)
        PROVE  ReposInv' /\ WorkIsSafe
    BY <1>4, SyncRepoKeeps, GitFetchKeeps, CurrentBranchKeeps, CheckForwardKeeps, MergeKeeps,
       ListMergedKeeps, CleanupKeeps
  <1>5. ASSUME NEW r \in Repos,
               \/ Switch(r) \/ Detach(r) \/ NewBranch(r) \/ EditClone(r) \/ Commit(r)
               \/ PushBranch(r) \/ Others(r)
        PROVE  ReposInv' /\ WorkIsSafe
    BY <1>5, SwitchKeeps, DetachKeeps, NewBranchKeeps, EditKeeps, CommitKeeps, PushKeeps,
       OthersKeep
  <1>6. QED  BY <1>1, <1>2, <1>3, <1>4, <1>5 DEF ReposNext

LEMMA PullsEndWell ==
    ASSUME ReposInv, ReposInv', NEW p \in Pullers
    PROVE  PullsCleanDefault(p) /\ WalkIsComplete(p)
  <1>1. PullsCleanDefault(p)
    BY AtHand DEF PullsCleanDefault, PullFits
  <1>2. WalkIsComplete(p)
    <2>1. puller'[p] \in Pulls /\ PlanFits(puller'[p])
      BY DEF ReposInv, PullOK
    <2>2. ToSet(<<>>) = {}
      BY DEF ToSet
    <2>3. QED  BY <2>1, <2>2 DEF WalkIsComplete, PlanFits
  <1>3. QED  BY <1>1, <1>2

(* Whatever people do in their clones and at the remotes between two git   *)
(* commands of the pulls and of SyncAll, and whatever command fails: no    *)
(* step of theirs takes from the branches and HEAD of a clone a commit     *)
(* that is kept nowhere else, they move a branch only to its own upstream  *)
(* unless the user switched it from under SyncAll, a pull forwards a clone *)
(* nobody worked in only on its default branch and clean, and the walk     *)
(* ends with a result for every clone of its plan (pullOneRepo,            *)
(* PullAllRepos, SyncRepo, gitCleanupBranches).                            *)
THEOREM ClonesKeepWork == ReposSpec => WorkKept
  <1> DEFINE A == /\ \A r \in Repos : ~ByUser /\ clone'[r] # clone[r] =>
                                        KeepsWork(r) /\ FollowsUpstream(r)
                  /\ \A p \in Pullers : PullsCleanDefault(p) /\ WalkIsComplete(p)
  <1>1. ReposInv /\ [ReposNext]_reposVars => ReposInv'
    BY ReposStep
  <1>2. ReposInv /\ [ReposNext]_reposVars => A
    <2> SUFFICES ASSUME ReposInv, [ReposNext]_reposVars PROVE A
      OBVIOUS
    <2>1. ReposInv' /\ WorkIsSafe
      BY ReposStep
    <2>2. QED  BY <2>1, PullsEndWell DEF WorkIsSafe
  <1> HIDE DEF A
  <1>3. ReposSpec => [][A]_reposVars
    BY <1>1, <1>2, ReposStart, PTL DEF ReposSpec
  <1>4. QED  BY <1>3 DEF WorkKept, A

=============================================================================
