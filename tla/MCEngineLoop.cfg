SPECIFICATION FairSpec
CONSTANTS
    bumper = bumper
    imu = imu
    lidar = lidar
    badTopic = badTopic
    Topics <- MCTopics
    ValidTopics <- MCValidTopics
    ReliableTopics <- MCReliableTopics
    Rulesets <- MCRulesets
    TopicsOf <- MCTopicsOf
    MaxGen = 4
CHECK_DEADLOCK FALSE
INVARIANT ReadyMeansSubscribed
INVARIANT StoreConverges
INVARIANT SettledMeansSubscribed
INVARIANT TopicsCovered
PROPERTY RulesGetSubscribed
PROPERTY ServingOrDown
