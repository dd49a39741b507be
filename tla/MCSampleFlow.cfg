SPECIFICATION FairSpec
CONSTANTS
    Hyphened <- MCHyphened
    Triggers <- MCTriggers
    Keys <- MCKeys
    ZonePath <- MCZonePath
    ChanCap = 2
    MaxPub = 2
    MaxCross = 3
    MaxTasks = 2
CHECK_DEADLOCK FALSE
INVARIANT DrainedIsCurrent
INVARIANT OnlyOvertakingMisplaces
PROPERTY LoneTaskKeepsOrder
PROPERTY CatchesUp
