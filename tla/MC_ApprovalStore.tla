-------------------------- MODULE MC_ApprovalStore ---------------------------
(* Three approvals in a store that holds two.                                *)
EXTENDS ApprovalStore, TLC

CONSTANTS a1, a2, a3

ThreeIds == {a1, a2, a3}
IdsAlike == Permutations(ThreeIds)
==============================================================================
