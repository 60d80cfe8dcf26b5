------------------------------ MODULE MCRuleFile ------------------------------
(***************************************************************************)
(* Model-checking instances of RuleFile.                                   *)
(***************************************************************************)
EXTENDS RuleFile, TLC

(* The image ships a direct list of typed rules and an empty proxy list. *)
DirectDefault == [typed |-> Rule, short |-> {}, bad |-> FALSE, comments |-> FALSE]
ProxyDefault == Empty

RuleSymmetry == Permutations(Rule)
=============================================================================
