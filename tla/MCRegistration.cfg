SPECIFICATION HFairSpec
CONSTANTS
    a = a
    b = b
    Procs = {a, b}
    Robots = {"7"}
    RobotOf <- SharedId
    Expected = {"7"}
    Retries = 2
    MaxRuns <- Runs
    MaxRestarts = 1
    Mortal = {"reg", "dereg", "heartbeat"}
CHECK_DEADLOCK FALSE
INVARIANT TypeOK
INVARIANT AtMostOneAlert
INVARIANT DeathIsPending
INVARIANT AckedIsKnown
PROPERTY Contract
PROPERTY StartupEnds
PROPERTY DeathIsNoticed
