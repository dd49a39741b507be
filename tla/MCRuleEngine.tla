---------------------------- MODULE MCRuleEngine ----------------------------
(***************************************************************************)
(* The engine on small rulesets shaped like the ones of docs/RULES.md: the *)
(* sensor topics robot/<id>/local/zone and .../human_present, and the two  *)
(* event topics of one zone.                                               *)
(***************************************************************************)
EXTENDS RuleEngineHistory

CONSTANTS zoneT, humanT, enteredT, clearedT

\* Builds the predicates; MCEval is the evaluator, on those of the engine.
P == INSTANCE Predicates WITH EPSILON <- 1, Preds <- {}, Height <- <<>>

Near == P!Value("num", 0)
Far == P!Value("num", 2)
Safety == P!Value("str", 1)
Aisle == P!Value("str", 2)

\* One payload domain for both sensor topics; NoFields is a payload that decoded to
\* something without the fields the predicates read.
NoFields == [f \in {} |-> Near]
MCPayloads == {
    [separation_distance |-> Near, zone_id |-> Aisle],
    [separation_distance |-> Far, zone_id |-> Safety],
    NoFields}

MCTopics == {zoneT, humanT, enteredT, clearedT}
MCZoneTopics == {enteredT, clearedT}
MCEnteredTopics == {enteredT}
MCZoneOf == [t \in {enteredT, clearedT} |-> "safety"]
\* Robot ids are strings; SameZoneAs reads them by their rank.
MCRobots == {1, 2}

in_zone == P!Comparison("Eq", P!Prim("Zone"), P!Lit(Safety))
not_in_zone == P!Not(in_zone)
near_human == P!Comparison("Lt", P!Prim("HumanPresence"), P!Lit(P!Value("num", 1)))
not_near_human == P!Comparison("Ge", P!Prim("HumanPresence"), P!Lit(P!Value("num", 1)))
\* The payload's zone_id doubles as a robot id here: robots 1 and 2.
same_zone == P!Comparison("SameZoneAs", P!Field("zone_id"), P!Lit(P!Value("str", 2)))
MCPreds == {in_zone, not_in_zone, near_human, not_near_human, same_zone, P!NoPred}

\* The engine's Preds has NoPred too.
E == INSTANCE Predicates WITH
        EPSILON <- 1,
        Preds <- {p \in Preds : p.node # "None"},
        Height <- [p \in Preds |-> IF p.node = "Not" THEN 1 ELSE 0]
MCEval(p, d, z) == E!eval_predicate(p, d, z)

Edge(t, p) == [topic |-> t, pred |-> p, mode |-> "Edge"]
Level(t, p) == [topic |-> t, pred |-> p, mode |-> "Level"]
All(s) == [all |-> s, any |-> <<>>]
Any(s) == [all |-> <<>>, any |-> s]

\* protective-stop and resume of docs/RULES.md section 3.2.
StopAndResume == <<
    Any(<<Edge(zoneT, in_zone), Level(humanT, near_human)>>),
    All(<<Level(humanT, not_near_human), Edge(zoneT, not_in_zone)>>)>>

\* The same topics at the same positions, with other outcomes; an empty guard; a
\* guard with both lists.
Replacement == <<
    All(<<Edge(zoneT, not_in_zone)>>),
    All(<<>>),
    [all |-> <<Edge(humanT, near_human)>>,
     any |-> <<Level(humanT, not_near_human), Edge(zoneT, P!NoPred)>>]>>

\* Zone membership, and a trigger on a zone event topic.
ZoneRules == <<
    All(<<Edge(zoneT, same_zone)>>),
    Any(<<Level(enteredT, P!NoPred), Edge(clearedT, P!NoPred)>>)>>

MCRulesets == {StopAndResume, Replacement, ZoneRules}
=============================================================================
