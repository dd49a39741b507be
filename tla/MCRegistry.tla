----------------------------- MODULE MCRegistry -----------------------------
(* Two servers on one file; a name with three contents of its owner, one   *)
(* of them also with its rules in another order, and a push by somebody    *)
(* else; a name that is refused.                                           *)
EXTENDS RegistryHistory, TLC

CONSTANTS s1, s2

ServerSymmetry == Permutations({s1, s2})

MCRulesets == {"stop", "halt", "slow", "slow-reordered", "foreign", "Bad"}
MCNameOf == [rs \in MCRulesets |-> IF rs = "Bad" THEN "ACME" ELSE "acme"]
MCOwnerOf == [rs \in MCRulesets |-> IF rs = "foreign" THEN "robot/9" ELSE "robot/7"]
MCDigestOf == [rs \in MCRulesets |-> IF rs = "slow-reordered" THEN "slow" ELSE rs]
=============================================================================
