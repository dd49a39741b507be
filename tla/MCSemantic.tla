----------------------------- MODULE MCSemantic -----------------------------
(***************************************************************************)
(* Clients and servers with small predicate trees, conditions nested up to *)
(* three levels, ruleset files of every form and all kinds of command      *)
(* line.                                                                   *)
(***************************************************************************)
EXTENDS Client

MCHyphened == "robot-7" :> "7"
MCRobotId == <<"7">>

Num(n) == Value("num", n)
Str(n) == Value("str", n)
Peer == Str(1)
MCZones == {Str(2)}

-----------------------------------------------------------------------------
(* Files in the runtime's form: one rule with a predicate tree.            *)

Leaves == {
    Comparison("Eq", Prim("Zone"), Lit(Str(2))),
    Comparison("Ne", Prim("Zone"), Lit(Str(2))),
    Comparison("Lt", Prim("HumanPresence"), Lit(Num(4))),
    Comparison("Ge", Prim("HumanPresence"), Lit(Num(4))),
    Comparison("Le", Field("separation_distance"), Lit(Num(4))),
    Comparison("Eq", Field("separation_distance"), Lit(Num(4))),
    Comparison("Gt", Field("zone_id"), Lit(Num(0))),
    Comparison("Lt", Proximity(Peer), Lit(Num(4))),
    Comparison("Lt", Prim("HumanPresence"), Lit(NoValue)),
    Comparison("SameZoneAs", Field("peer_id"), Field("zone_id"))}

Pairs == {<<x, y>> : x \in Leaves, y \in Leaves}
Shallow == Leaves \cup {And(p) : p \in Pairs} \cup {Or(p) : p \in Pairs} \cup {And(<<>>), Or(<<>>)}
Trees == Shallow
    \cup {Not(p) : p \in Shallow}
    \cup {And(<<x, Or(<<y, Not(z)>>)>>) : x \in Leaves, y \in Leaves, z \in Leaves}
    \cup {NoPred}

Sample == <<"robot", "7", "local", "sample">>
RawRule(triggers) == [when |-> When(triggers, <<>>), actions |-> <<Action(Sample, "primitive")>>]
Raw(rs) == [form |-> "raw", syntax |-> "toml", rules |-> rs]
RawFiles == {Raw(<<RawRule(<<Trigger(Sample, pred, "Level")>>)>>) : pred \in Trees}

\* Trigger topics in the legacy spelling, with wildcards, and out of the contract,
\* and a rule without triggers.
OddRawFiles ==
    {Raw(<<RawRule(<<Trigger(topic, NoPred, "Edge")>>)>>) :
        topic \in {<<"robot-7", "local", "bumper">>, <<"robot", "*", "local", "bumper">>,
                   <<"zone", "*", "entered">>, <<"robot", "7">>, <<"">>}}
    \cup {Raw(<<RawRule(<<Trigger(Sample, NoPred, "Level")>>), RawRule(<<>>)>>), Raw(<<>>)}

RawSamples ==
    {(Sample :> (("peer_id" :> p) @@ ("zone_id" :> z) @@ ("separation_distance" :> d))) :
        p \in {Peer, Str(2)}, z \in {Str(2), Num(1)}, d \in {Num(2), Num(3), Num(4), Num(5)}}

-----------------------------------------------------------------------------
(* Semantic documents.                                                     *)

Flat(flat) == SemanticWhen(flat, <<>>, <<>>)
Conditions == {
    "in_zone" :> Str(2), "not_in_zone" :> Str(2), "near_human" :> Num(4),
    "not_near_human" :> Num(4), "near" :> [entity |-> Peer, dist |-> Num(4)], "role" :> Str(3)}
OddConditions == {
    "in_zone" :> Str(5), "near_human" :> Num(0), "near_human" :> NoValue, <<>>,
    ("near_human" :> Num(4)) @@ ("not_in_zone" :> Str(2))}
FlatWhens == {Flat(cond) : cond \in Conditions \cup OddConditions}

\* Blocks of one level, and those around them.
Few == {Flat("in_zone" :> Str(2)), Flat("near_human" :> Num(4)),
        Flat("near" :> [entity |-> Peer, dist |-> Num(4)])}
Lists == {<<x>> : x \in Few} \cup {<<x, y>> : x \in Few, y \in FlatWhens}
Blocks == {SemanticWhen(<<>>, ws, <<>>) : ws \in Lists} \cup {SemanticWhen(<<>>, <<>>, ws) : ws \in Lists}
Nested ==
    {SemanticWhen(<<>>, <<x, y>>, <<>>) : x \in Blocks, y \in Few \cup {SemanticWhen(<<>>, <<>>, <<z>>) : z \in Few}}
    \cup {SemanticWhen(<<>>, <<>>, <<x, y>>) : x \in Blocks, y \in Few}
    \cup {SemanticWhen("role" :> Str(3), <<x>>, <<y>>) : x \in Few, y \in Blocks}

Estop == "estop" :> TRUE
Actions == {
    Estop, "resume" :> TRUE, "slow_to" :> Num(1), "slow_to" :> NoValue, "qos" :> "reliable",
    Estop @@ ("resume" :> TRUE), "topic" :> Sample, "topic" :> <<"">>,
    ("topic" :> <<"robot", "7">>) @@ ("payload" :> "primitive") @@ ("qos" :> "reliable"),
    ("topic" :> Sample) @@ ("payload" :> "primitive") @@ ("qos" :> "reliable"),
    ("topic" :> Sample) @@ ("payload" :> "nested") @@ ("qos" :> "reliable")}

Rule(when, action) == [when |-> when, actions |-> <<action>>]
Text(syntax, typo, site, rs) ==
    [form |-> "semantic", syntax |-> syntax, typo |-> typo, site |-> site, rules |-> rs]
Doc(site, rs) == Text("toml", FALSE, site, rs)
SemanticFiles ==
    {Doc(TRUE, <<Rule(when, Estop)>>) : when \in FlatWhens \cup Blocks \cup Nested}
    \cup {Doc(site, <<Rule(when, action)>>) : site \in BOOLEAN, when \in FlatWhens, action \in Actions}
    \cup {Doc(TRUE, <<Rule(x, Estop), Rule(y, action)>>) :
            x \in Few, y \in Few \cup {Flat(<<>>)}, action \in Actions}
    \cup {Text(syntax, typo, site, <<Rule(when, action)>>) :
            syntax \in {"toml", "json"}, typo \in BOOLEAN, site \in BOOLEAN,
            when \in Few \cup {Flat(<<>>)}, action \in Actions}
    \cup {Doc(site, <<>>) : site \in BOOLEAN}

Samples ==
    {(T("zone") :> ("zone_id" :> z)) @@ (T("role") :> ("role" :> r))
     @@ (T("human_present") :> ("separation_distance" :> d))
     @@ (T("proximity") :> (("peer_id" :> p) @@ ("separation_distance" :> d))) :
        z \in {Str(2), Str(4)}, r \in {Str(3)}, d \in {Num(3), Num(4)}, p \in {Peer, Str(2)}}

-----------------------------------------------------------------------------
(* Command lines.                                                          *)

OtherFiles == {[form |-> form] : form \in {"absent", "unreadable", "garbage"}}
SomeFiles == OtherFiles \cup {
    Doc(TRUE, <<Rule(Flat("near_human" :> Num(4)), Estop)>>),
    Raw(<<RawRule(<<Trigger(Sample, NoPred, "Level")>>)>>)}

GoodCred == [c \in Credentials |-> "good"]
Creds == {[GoodCred EXCEPT ![c] = pem] : c \in Credentials, pem \in {"none", "missing", "nopem", "good"}}

GoodConfig == [form |-> "client", keys |-> [k \in ConfigKeys |-> "set"]]
Configs == {GoodConfig}
    \cup {[form |-> form] : form \in {"absent", "unreadable", "garbage"}}
    \cup {[GoodConfig EXCEPT !.keys[k] = "empty"] : k \in {"x", "zone_exit", "zone.topic"}}
    \cup {[GoodConfig EXCEPT !.keys = [k \in ConfigKeys \ {key} |-> @[k]]] : key \in {"y", "site_id"}}

GoodArgs == [binary |-> "client", print |-> FALSE, mode |-> "mtls", insecure |-> FALSE,
             cred |-> GoodCred, connect |-> {}, id |-> RobotId, config |-> GoodConfig]
Args ==
    {[GoodArgs EXCEPT !.config = config, !.binary = binary] :
        config \in Configs, binary \in {"client", "server"}}
    \cup [binary : {"client", "server"}, print : BOOLEAN, mode : AuthMode \cup {"kerberos"},
           insecure : BOOLEAN, cred : Creds, connect : {{}, {"peer"}},
           id : {RobotId, <<"cell", "7">>, <<"">>}, config : {GoodConfig, [form |-> "server"]}]

MCInputs ==
    [file : RawFiles, args : {GoodArgs}, latest : RawSamples,
     zones : {(1 :> {"x"}) @@ (2 :> zs) : zs \in {{}, {"x", "y"}}}]
    \cup [file : SemanticFiles, args : {GoodArgs}, latest : Samples, zones : {<<>>}]
    \cup [file : SomeFiles \cup OddRawFiles, args : Args, latest : {<<>>}, zones : {<<>>}]

-----------------------------------------------------------------------------
(* All predicate trees and conditions of the above.  (TLC evaluates the    *)
(* body of a definition that replaces a constant at every use.)            *)

AllWhens == FlatWhens \cup Blocks \cup Nested
MCWhens == AllWhens
MCDepth == [w \in AllWhens |-> IF w \in FlatWhens THEN 0 ELSE IF w \in Blocks THEN 1 ELSE 2]

Compiled == UNION {{trigger_of(key, w.flat[key]).pred : key \in DOMAIN w.flat} : w \in AllWhens}
SubTrees == {Or(<<y, Not(z)>>) : y \in Leaves, z \in Leaves}
AllPreds == {p \in Trees \cup SubTrees \cup Compiled \cup Range(DemoPred) : p # NoPred}
MCPreds == AllPreds
Heights[p \in AllPreds] ==
    IF p.node = "Comparison" THEN 0 ELSE 1 + Max({0} \cup {Heights[kid] : kid \in ToSet(p.kids)})
MCHeight == Heights
=============================================================================
