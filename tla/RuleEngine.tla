----------------------------- MODULE RuleEngine -----------------------------
(***************************************************************************)
(* The declarative rules (core/rules.go, core/ruleactions.go): a rule that *)
(* is fired passes its gate, runs its action and then applies its outputs. *)
(* A template is the set of payload fields it names; a command's own       *)
(* effects are left out.  The outputs on disk are told apart by rule,      *)
(* event and place: artifacts are overwritten and edges not added twice.   *)
(***************************************************************************)
EXTENDS Naturals, Sequences, Sublists

CONSTANTS RuleSet,        \* the rules of automation/rules.yaml, in author order
          RuleFaults      \* which of "graph", "action" and "output" may fail

\* A rule has one trigger and one action; its templates name payload fields.
Validate(r) ==
    /\ r.on # "" /\ r.enabled \in BOOLEAN
    /\ r.run \in {"skill", "exec"}
    /\ r.entity # {}
    /\ \A i \in DOMAIN r.write : "none" \notin r.write[i]

Rule == [on : STRING, enabled : BOOLEAN, entity : SUBSET STRING, run : STRING,
         args : SUBSET STRING, write : Seq(SUBSET STRING)]

ASSUME RulesAssumption ==
    /\ RuleSet \in Seq(Rule)
    /\ \A i \in DOMAIN RuleSet : Validate(RuleSet[i])

VARIABLES ran,        \* history: the actions that ran, as <<rule, event>>
          fired,      \* history: the firings reported as fired
          applied     \* the outputs on disk, as <<rule, event, place>>

ruleVars == <<ran, fired, applied>>

RuleInit == ran = {} /\ fired = {} /\ applied = {}

-----------------------------------------------------------------------------

IsEnabled(r) == RuleSet[r].enabled

TimeRules == {r \in DOMAIN RuleSet : RuleSet[r].on = "schedule" /\ IsEnabled(r)}

(* The rules that an event of this type fires, in author order.            *)
Rules(type) ==
    Sublist([r \in DOMAIN RuleSet |-> r], {r \in DOMAIN RuleSet : RuleSet[r].on = type})

(* A template whose field the payload lacks does not expand.               *)
expandTemplate(fields, payload) == fields \subseteq payload

(* What the graph says of the entity's edges.                              *)
Neighbors == {"edge", "noEdge"} \cup (IF "graph" \in RuleFaults THEN {"error"} ELSE {})

(* The gate in front of a rule's action.                                   *)
Gate(r, payload, edges) ==
    IF ~IsEnabled(r) THEN "skipped"
    ELSE IF RuleSet[r].entity = {"none"} THEN "open"
    ELSE IF ~expandTemplate(RuleSet[r].entity, payload) THEN "skipped"
    ELSE CASE edges = "error"  -> "error"
           [] edges = "noEdge" -> "skipped"
           [] edges = "edge"   -> "open"

(* A command fails by itself, or because the daemon was told to stop; a    *)
(* skill request is a new file.                                            *)
RunExec(cancelled) ==
    IF cancelled THEN {"error"}
    ELSE {"ok"} \cup (IF "action" \in RuleFaults THEN {"error"} ELSE {})

runAction(r, payload, cancelled) ==
    IF RuleSet[r].run = "skill" THEN {"ok"}
    ELSE IF ~expandTemplate(RuleSet[r].args, payload) THEN {"error"}
    ELSE RunExec(cancelled)

Places(r) == DOMAIN RuleSet[r].write
Resolves(r, i, payload) == expandTemplate(RuleSet[r].write[i], payload)

\* Mutant: each output is resolved when its turn comes.
applyOutputsEach(r, payload) ==
    {k \in {0} \cup Places(r) :
       /\ \A i \in 1 .. k : Resolves(r, i, payload)
       /\ k + 1 \in Places(r) => ~Resolves(r, k + 1, payload)}

(* How many outputs are applied: none unless all of them resolve, and then *)
(* all, or those before the one that fails.                                *)
applyOutputs(r, payload) ==
    IF \E i \in Places(r) : ~Resolves(r, i, payload) THEN {0}
    ELSE IF "output" \in RuleFaults THEN {0} \cup Places(r)
    ELSE {Len(RuleSet[r].write)}

=============================================================================
