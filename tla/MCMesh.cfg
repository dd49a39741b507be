SPECIFICATION Spec
CONSTANTS
    NoRobot = NoRobot
    Robots = {"a", "b", "c"}
    PeersOf <- MCPeersOf
    Cameras = {"b"}
    MaxRuns <- MCMaxRuns
    MaxStarts = 3
    MaxIce = 1
    Hyphened <- NoHyphen
CHECK_DEADLOCK FALSE
INVARIANT SessionsNegotiate
INVARIANT OneCapture
INVARIANT FirstCallAgrees
INVARIANT CandidatesFit
INVARIANT UnansweredHasCause
PROPERTY SessionsStay
