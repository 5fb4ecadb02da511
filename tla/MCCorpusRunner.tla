--------------------------- MODULE MCCorpusRunner ---------------------------
(* CorpusRunner over five cases of three tiers, one of which no policy      *)
(* gates.                                                                   *)
EXTENDS CorpusRunner

MCTiers == <<"easy", "hard", "new", "hard", "new">>
MCPolicies == {[tier |-> "easy", zero |-> TRUE, floor |-> 100, prior |-> Unset],
               [tier |-> "hard", zero |-> FALSE, floor |-> 40, prior |-> 60]}
=============================================================================
