---------------------------- MODULE MCRulesCache ----------------------------
(* Instances of RulesCache for TLC. *)
EXTENDS RulesCache, TLC

CONSTANTS t1, t2, p1

\* Half of version 2 is as long as version 1, and does not parse.
Sizes == (1 :> 1 @@ 2 :> 2)
=============================================================================
