SPECIFICATION Spec
CONSTANTS
    EPSILON = 2
    Hyphened <- MCHyphened
    Zones <- MCZones
    RobotId <- MCRobotId
    Preds <- MCPreds
    Height <- MCHeight
    Whens <- MCWhens
    Depth <- MCDepth
    Inputs <- MCInputs
CHECK_DEADLOCK FALSE
INVARIANT NestingIsRejected
