SPECIFICATION Spec
CONSTANTS
    bumper = bumper
    imu = imu
    lidar = lidar
    badTopic = badTopic
    Topics <- MCTopics
    ValidTopics <- MCValidTopics
    Rulesets <- GoodRulesets
    TopicsOf <- GoodTopicsOf
    ReliableTopics <- MCReliableTopics
    MaxGen = 2
CHECK_DEADLOCK FALSE
INVARIANT WatchHoldsLatest
