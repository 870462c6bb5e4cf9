--------------------------- MODULE MCRulesFetcher ---------------------------
(* A small instance of RulesFetcher: the tokens of alice, bob and nobody.    *)
EXTENDS RulesFetcher, TLC

CONSTANTS t1, t2, t3, alice, bob, nobody

MCUser == (t1 :> alice) @@ (t2 :> bob) @@ (t3 :> nobody)
=============================================================================
