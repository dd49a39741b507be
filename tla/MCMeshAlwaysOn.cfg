SPECIFICATION Spec
CONSTANTS
    NoRobot = NoRobot
    Robots = {"a", "b", "c"}
    PeersOf <- MCPeersOf
    Cameras = {"b"}
    MaxRuns <- MCMaxRuns
    MaxStarts = 1
    MaxIce = 1
    Hyphened <- NoHyphen
CHECK_DEADLOCK FALSE
PROPERTY AlwaysOn
