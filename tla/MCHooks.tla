------------------------------- MODULE MCHooks -------------------------------
(***************************************************************************)
(* Small instances for TLC of the hooks and of the vector memory that they *)
(* and commands fill.  They share no state, so each behaviour is of one of *)
(* them.                                                                   *)
(***************************************************************************)
EXTENDS Hooks, Memory, TLC

VARIABLE part  \* the one whose behaviour this is

MCSymmetry == Permutations(Agents) \cup Permutations(MemoryProcs)
MCEmbedders == {[name |-> "fake", dim |-> 64], [name |-> "fake", dim |-> 8]}

\* The other one stays in one initial state.
MCInit ==
    /\ part \in {"hooks", "memory"}
    /\ Init /\ MemoryInit
    /\ part # "memory" => ~memoryDB /\ ~nested

MCNext ==
    \/ part = "hooks" /\ Next /\ UNCHANGED <<part, memoryVars>>
    \/ part = "memory" /\ MemoryNext /\ UNCHANGED <<part, vars>>

MCSpec == MCInit /\ [][MCNext]_<<part, vars, memoryVars>>
=============================================================================
