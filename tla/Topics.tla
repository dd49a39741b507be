------------------------------- MODULE Topics -------------------------------
(***************************************************************************)
(* The topic contract (src/topic.rs).  A topic string is the sequence of   *)
(* its segments: "robot/7/zone" is <<"robot", "7", "zone">> and the empty  *)
(* string is <<"">>.  A robot id, a site or a resource that a builder puts *)
(* into a topic is a sequence of segments too, because nothing keeps a     *)
(* slash out of it.                                                        *)
(***************************************************************************)
EXTENDS Naturals, Sequences

CONSTANT
    Hyphened   \* the legacy first segments: "robot-7" |-> "7"

Wild == {"*", "**"}

\* A topic or pattern that does not validate; splitting never gives no segment.
TopicErr == <<>>

\* The legacy first segment robot-7 becomes two, robot/7.
canonicalize(s) ==
    IF s[1] \in DOMAIN Hyphened THEN <<"robot", Hyphened[s[1]]>> \o Tail(s) ELSE s

\* A shape of the match tables; "_" stands for any one segment.
Fits(shape, parts) ==
    /\ Len(shape) = Len(parts)
    /\ \A i \in DOMAIN shape : shape[i] \in {"_", parts[i]}

Table ==
    { <<"robot", "_", "local", "_">>, <<"robot", "_", "location", "_">>,
      <<"robot", "_", "signal", "presence">>, <<"robot", "_", "signal", "_", "_">>,
      <<"robot", "_", "zone">>, <<"robot", "_", "site">>,
      <<"robot", "_", "client", "liveliness">>,
      <<"fleet", "registration">>, <<"fleet", "deregistration">>,
      <<"fleet", "registration", "response", "_">>,
      <<"fleet", "deregistration", "response", "_">>,
      <<"fleet", "alerts", "heartbeat", "_">>, <<"fleet", "_", "ruleset", "_">>,
      <<"stop", "_", "cmd">>, <<"lidar", "_", "scan">>,
      <<"zone", "_", "entered">>, <<"zone", "_", "cleared">>,
      <<"zone", "_", "_", "_", "entered">>, <<"zone", "_", "_", "_", "cleared">>,
      <<"sensor", "_">>, <<"actuator", "_">> }

WildTable ==
    { <<"robot", "*", "client", "liveliness">>, <<"robot", "*", "signal", "presence">>,
      <<"robot", "*", "signal", "_", "offer">>, <<"robot", "*", "signal", "_", "answer">>,
      <<"robot", "*", "signal", "_", "ice">>, <<"fleet", "*", "ruleset", "**">>,
      <<"zone", "*", "entered">>, <<"zone", "*", "cleared">>,
      <<"zone", "*", "*", "*", "entered">>, <<"zone", "*", "*", "*", "cleared">> }

\* What starts with "robot-" is no first segment of the table.
ASSUME HyphenedConstants == \A shape \in Table : shape[1] \notin DOMAIN Hyphened

matches_one_of(parts) == \E shape \in Table : Fits(shape, parts)

is_valid_pattern(parts) ==
    \/ \E shape \in WildTable : Fits(shape, parts)
    \/ (\A i \in DOMAIN parts : parts[i] \notin Wild) /\ matches_one_of(parts)

Topic_try_new(s) ==
    LET canon == canonicalize(s)
    IN  IF matches_one_of(canon) THEN canon ELSE TopicErr

\* "//" is refused before the legacy spelling is undone.
Pattern_try_new(s) ==
    LET canon == canonicalize(s)
    IN  IF (\A i \in 2..(Len(s) - 1) : s[i] # "") /\ is_valid_pattern(canon)
        THEN canon ELSE TopicErr

\* AclExpr::try_new on "/robot/{id}/**"; its key expression, or TopicErr.
robot_namespace(id) ==
    IF Len(id) = 1 /\ id[1] # "" /\ id[1] \notin Wild
    THEN <<"", "robot">> \o id \o <<"**">> ELSE TopicErr

-----------------------------------------------------------------------------
(* Builders, those that a decision of another module hangs on.  Each one   *)
(* validates what it built and panics on TopicErr.                         *)

robot_local(id, resource) == Topic_try_new(<<"robot">> \o id \o <<"local">> \o resource)
rules_key(id) == robot_local(id, <<"rules">>)
liveliness_key(id) == Topic_try_new(<<"robot">> \o id \o <<"client", "liveliness">>)
signal_key(self, peer, kind) ==
    Topic_try_new(<<"robot">> \o self \o <<"signal">> \o peer \o <<kind>>)

\* Fault: the pattern hears the signals to everybody.
signal_pattern_open(self, kind) == Pattern_try_new(<<"robot", "*", "signal", "*">> \o <<kind>>)

signal_pattern(self, kind) ==
    Pattern_try_new(<<"robot", "*", "signal">> \o self \o <<kind>>)
zone_event(zone, verb) == Topic_try_new(<<"zone">> \o zone \o <<verb>>)
zone_pattern(verb) == Pattern_try_new(<<"zone", "*", verb>>)

-----------------------------------------------------------------------------
\* zenoh: a subscription to `pattern` hears what is put under `key`.  "*" is one
\* segment, a final "**" any number of them.
Hears(pattern, key) ==
    LET open == pattern[Len(pattern)] = "**"
        fixed == IF open THEN Len(pattern) - 1 ELSE Len(pattern)
    IN  /\ IF open THEN Len(key) >= fixed ELSE Len(key) = fixed
        /\ \A i \in 1..fixed : pattern[i] \in {"*", key[i]}
=============================================================================
