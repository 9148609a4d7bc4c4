---------------------------- MODULE MCIssueSync ----------------------------
(* Small instances of IssueSync for TLC.                                   *)
EXTENDS IssueSync, TLC

MCBoth == [direction |-> "both", dryRun |-> FALSE]
MCRuns == {MCBoth, [direction |-> "push", dryRun |-> FALSE],
           [direction |-> "pull", dryRun |-> FALSE], [direction |-> "both", dryRun |-> TRUE]}

=============================================================================
