SPECIFICATION HSpec
CONSTANTS
    zoneT = zoneT
    humanT = humanT
    enteredT = enteredT
    clearedT = clearedT
    NoSample = NoSample
    NoRobot = NoRobot
    Topics <- MCTopics
    ZoneTopics <- MCZoneTopics
    EnteredTopics <- MCEnteredTopics
    ZoneOf <- MCZoneOf
    Payloads <- MCPayloads
    Robots <- MCRobots
    Preds <- MCPreds
    EvalPredicate <- MCEval
    Rulesets <- MCRulesets
    HasTimeout = TRUE
    MaxGen = 2
INVARIANT NoActionWithoutData
PROPERTY SwapFiresNoEdge
PROPERTY EdgesAreWitnessed
 
