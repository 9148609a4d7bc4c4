-------------------------- MODULE MCFileRegistry --------------------------
(* A small instance of FileRegistry for TLC.                               *)
EXTENDS FileRegistry, TLC

CONSTANTS t1, t2, p1, p2, id1, id2

\* Two threads, each a process of its own.
MCProcOf == (t1 :> p1) @@ (t2 :> p2)

\* A migration rewrites the retired type "bug" to "fix".
MCMigrated == ("bug" :> "fix") @@ ("fix" :> "fix")

=============================================================================
