---------------------------- MODULE MCAutopilot ----------------------------
(* Two builders.  The second task follows the first, in the same territory *)
(* but with another builder, whose lane it shares with the third.          *)
EXTENDS Autopilot

TwoOwners == [t \in Task |-> IF t = 1 THEN "GB" ELSE "S5"]
InSequence == [t \in Task |-> IF t = 2 THEN {1} ELSE {}]
FirstIsHigh == [t \in Task |-> IF t = 1 THEN 0 ELSE 2]
Shared == [t \in Task |-> IF t = 3 THEN {"scripts"} ELSE {"lib"}]
Own1 == [term |-> "OWNERSHIP_CONFLICT", text |-> FALSE]
Tool1 == [term |-> "TOOLING_FAILURE", text |-> FALSE]
OwnAndTool == {Own1, Tool1}
OnlyOwn == {Own1}
=============================================================================
