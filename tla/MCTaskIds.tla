----------------------------- MODULE MCTaskIds -----------------------------
(***************************************************************************)
(* Small instances for TLC of what hands out numbers: the counter of task  *)
(* ids, the session index and the registries.  They share no state, so a   *)
(* behaviour in which all of them step is an interleaving of three that do *)
(* not meet: each behaviour here is of one part.                           *)
(***************************************************************************)
EXTENDS TaskIds, SessionStore, Records, TLC

VARIABLE part  \* the part whose behaviour this is

MCSymmetry == Permutations(Callers)

\* The other parts stay in one initial state.
NumbersInit ==
    /\ part \in {"tasks", "sessions", "records"}
    /\ Init /\ SessionInit /\ RecordsInit
    /\ part # "records" => registry = "adr"

NumbersNext ==
    \/ part = "tasks" /\ Next /\ UNCHANGED <<part, sessionVars, recordVars>>
    \/ part = "sessions" /\ SessionNext /\ UNCHANGED <<part, vars, recordVars>>
    \/ part = "records" /\ RecordsNext /\ UNCHANGED <<part, vars, sessionVars>>

NumbersSpec ==
    NumbersInit /\ [][NumbersNext]_<<part, vars, sessionVars, recordVars>>
=============================================================================
