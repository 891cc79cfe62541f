---------------------------- MODULE MCUsageLedger ----------------------------
(* Small instances of UsageLedger for TLC: grants of one principal, with one *)
(* unit of turnover, and one action more in every version.                   *)
EXTENDS UsageLedger, TLC

CONSTANTS p1

MCOwner == [g \in Grants |-> p1]
MCTurnover == [v \in Versions |-> 1]
MCActions == [v \in Versions |-> v]

UsageSymmetry == Permutations(Intents) \cup Permutations(Grants)
=============================================================================
