-------------------------- MODULE MCMatchingEngine --------------------------
(* Instances of MatchingEngine for TLC: order ids are interchangeable.     *)
EXTENDS MatchingEngine, TLC

IdSymmetry == Permutations(OrderIds)
=============================================================================
