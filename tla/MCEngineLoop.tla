---------------------------- MODULE MCEngineLoop ----------------------------
(* Four rulesets over two reliable topics, one whose subscription may fail *)
(* and a malformed one: overlapping and included topic sets, and rulesets  *)
(* that fail in the middle of a rebuild.                                   *)
EXTENDS EngineLoop

CONSTANTS bumper, imu, lidar, badTopic

MCTopics == {bumper, imu, lidar, badTopic}
MCValidTopics == {bumper, imu, lidar}
MCReliableTopics == {bumper, imu}

MCRulesets == {"imu", "both", "lidar", "bad"}
GoodRulesets == {"imu", "both"}
AllTopicsOf == [imu |-> <<imu>>,
                both |-> <<bumper, imu>>,
                lidar |-> <<bumper, lidar>>,
                bad |-> <<imu, badTopic>>]
MCTopicsOf == [rs \in MCRulesets |-> AllTopicsOf[rs]]
GoodTopicsOf == [rs \in GoodRulesets |-> AllTopicsOf[rs]]
=============================================================================
