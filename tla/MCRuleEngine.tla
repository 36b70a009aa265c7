---------------------------- MODULE MCRuleEngine ----------------------------
(* The instance of RuleEngine that TLC checks. *)
EXTENDS RuleEngine, TLC

MCSymmetry == Permutations(Rules) \cup Permutations(Entities)
=============================================================================
