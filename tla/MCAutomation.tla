---------------------------- MODULE MCAutomation ----------------------------
(* Small instances of Automation for TLC.                                  *)
EXTENDS Automation, TLC

\* Of two rules for one event, the second output of the first needs what the
\* event lacks; the third is a time rule.
MCRules == <<
  [on |-> "changed", enabled |-> TRUE, entity |-> {"none"}, run |-> "skill", args |-> {},
   write |-> <<{}, {"priority"}>>],
  [on |-> "changed", enabled |-> TRUE, entity |-> {"task"}, run |-> "exec", args |-> {"task"},
   write |-> <<{}, {"task"}>>],
  [on |-> "schedule", enabled |-> TRUE, entity |-> {"none"}, run |-> "skill", args |-> {},
   write |-> <<{}>>] >>

MCPayload(e) == {"task"}
MCType(e) == IF e = 1 THEN "changed" ELSE "other"

MCSymmetry == Permutations(Daemons) \cup Permutations(Clis)

=============================================================================
