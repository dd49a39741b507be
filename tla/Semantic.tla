------------------------------ MODULE Semantic ------------------------------
(***************************************************************************)
(* The compiler of src/semantic.rs: conditions and action verbs of a rules *)
(* document become triggers, guards and actions of the runtime's rules;    *)
(* what `flo rule check` accepts (src/cli.rs); and the choice of rules at  *)
(* start-up (src/runtime.rs).                                              *)
(*                                                                         *)
(* Names of zones, roles and robots are values of Predicates, a distance   *)
(* that is not finite is NoValue, as in resolve_operand.  An Err has the   *)
(* ErrorCode.                                                              *)
(***************************************************************************)
EXTENDS Predicates, SequencesExt, Topics, Results

CONSTANTS
    Zones,    \* names in the [zones] table of the document
    RobotId,  \* the id the document is compiled for, well-formed
    Whens,    \* the conditions in use, each with the blocks nested in it
    Depth     \* a number for each of them, above those of its blocks

\* robot_local(RobotId, resource).
LocalTopics ==
    [resource \in {"zone", "human_present", "proximity", "role", "drive"} |->
        robot_local(RobotId, <<resource>>)]

-----------------------------------------------------------------------------
(* Conditions.  SemanticWhen is the flat keys that are present with their  *)
(* arguments, and two lists of nested blocks.                              *)

Keys == <<"in_zone", "not_in_zone", "near_human", "not_near_human", "near", "role">>
SemanticWhen(flat, all, any) == [flat |-> flat, all |-> all, any |-> any]

when_is_empty(when) == DOMAIN when.flat = {} /\ when.all = <<>> /\ when.any = <<>>

\* near = { entity, dist }: its argument is the pair.
Distance(when, key) == IF key = "near" THEN when.flat[key].dist ELSE when.flat[key]

\* `d <= 0.0` is false of NaN and of +infinity, the distances without a value here, and
\* true of -infinity, which is one of those not above zero.
BadDistance(when) ==
    \E key \in DOMAIN when.flat \cap {"near_human", "not_near_human", "near"} :
        Distance(when, key) # NoValue /\ Distance(when, key).v <= 0

UnknownZone(when) ==
    \E key \in DOMAIN when.flat \cap {"in_zone", "not_in_zone"} : when.flat[key] \notin Zones

Trigger(topic, pred, mode) == [topic |-> topic, pred |-> pred, mode |-> mode]

trigger_of(key, arg) ==
    LET zone == Comparison("Eq", Prim("Zone"), Lit(arg))
        human(op) == Comparison(op, Prim("HumanPresence"), Lit(arg))
    IN  CASE key = "in_zone" -> Trigger(LocalTopics["zone"], zone, "Edge")
          [] key = "not_in_zone" -> Trigger(LocalTopics["zone"], Not(zone), "Edge")
          [] key = "near_human" -> Trigger(LocalTopics["human_present"], human("Lt"), "Level")
          [] key = "not_near_human" -> Trigger(LocalTopics["human_present"], human("Ge"), "Level")
          [] key = "near" ->
                Trigger(LocalTopics["proximity"],
                        Comparison("Lt", Proximity(arg.entity), Lit(arg.dist)), "Level")
          [] key = "role" ->
                Trigger(LocalTopics["role"], Comparison("Eq", Prim("Robot"), Lit(arg)), "Edge")

\* Names are strings, distances numbers.
IsDistance(d) == d = NoValue \/ (d.t = "num" /\ d.v \in Int)
IsArgument(key, arg) ==
    CASE key \in {"in_zone", "not_in_zone", "role"} -> arg.t = "str"
      [] key \in {"near_human", "not_near_human"} -> IsDistance(arg)
      [] key = "near" -> arg.entity.t = "str" /\ IsDistance(arg.dist)

ASSUME WhenConstants ==
    /\ Depth \in [Whens -> Nat]
    /\ \A when \in Whens :
        /\ DOMAIN when.flat \subseteq ToSet(Keys)
        /\ \A key \in DOMAIN when.flat :
            /\ IsArgument(key, when.flat[key])
            /\ trigger_of(key, when.flat[key]).pred \in Preds
        /\ when.all \in Seq(Whens) /\ when.any \in Seq(Whens)
        /\ \A nested \in ToSet(when.all) \cup ToSet(when.any) : Depth[nested] < Depth[when]

\* WhenExpr.
WhenAll(kids) == [node |-> "All", kids |-> kids]
WhenAny(kids) == [node |-> "Any", kids |-> kids]
WhenLeaf(trigger) == [node |-> "Leaf", trigger |-> trigger]

leaf_triggers(when) ==
    FlattenSeq([i \in DOMAIN Keys |->
        IF Keys[i] \in DOMAIN when.flat
        THEN <<WhenLeaf(trigger_of(Keys[i], when.flat[Keys[i]]))>> ELSE <<>>])

\* What `?` in a loop returns: the first of the errors, if there is one.
Failed(results) == {i \in DOMAIN results : IsErr(results[i])}
FirstErr(results) ==
    IF Failed(results) = {} THEN [ok |-> TRUE] ELSE results[Min(Failed(results))]

\* The body of build_when_expr, for the results all and any of the nested blocks.
block_expr(when, all, any) ==
    LET and_parts == leaf_triggers(when) \o all
    IN  CASE when_is_empty(when) -> Err("EmptyWhen")
          [] ~when_is_empty(when) /\ BadDistance(when) -> Err("InvalidDistance")
          [] ~BadDistance(when) /\ UnknownZone(when) -> Err("UnknownZone")
          [] OTHER ->
                IF Failed(all) # {} THEN FirstErr(all)
                ELSE IF Failed(any) # {} THEN FirstErr(any)
                ELSE IF any # <<>> /\ and_parts # <<>> THEN WhenAll(Append(and_parts, WhenAny(any)))
                ELSE IF any # <<>> THEN WhenAny(any)
                ELSE IF Len(and_parts) = 1 THEN and_parts[1]
                ELSE WhenAll(and_parts)

WhenExprs ==
    LET build[w \in Whens] ==
            block_expr(w, [i \in DOMAIN w.all |-> build[w.all[i]]],
                          [i \in DOMAIN w.any |-> build[w.any[i]]])
    IN  [w \in Whens |-> build[w]]
build_when_expr(when) == WhenExprs[when]

\* The expressions of the conditions that pass, with all their parts.
OrGroup(when) == WhenAny([i \in DOMAIN when.any |-> build_when_expr(when.any[i])])
Parts(when) ==
    {build_when_expr(when)} \cup ToSet(leaf_triggers(when))
    \cup (IF when.any = <<>> THEN {} ELSE {OrGroup(when)})
Exprs == UNION {Parts(when) : when \in {w \in Whens : ~IsErr(build_when_expr(w))}}

\* The runtime's guard: one AND group and one OR group.
When(all, any) == [all |-> all, any |-> any]

\* Fault: two OR groups are merged into one.
lower_all_merging(kids) ==
    IF Failed(kids) # {} THEN Err("UnrepresentableNesting")
    ELSE When(FlattenSeq([i \in DOMAIN kids |-> kids[i].all]),
              FlattenSeq([i \in DOMAIN kids |-> kids[i].any]))

\* The runtime has room for one OR group.
lower_all(kids) ==
    IF \/ Failed(kids) # {}
       \/ \E i, j \in DOMAIN kids : i # j /\ kids[i].any # <<>> /\ kids[j].any # <<>>
    THEN Err("UnrepresentableNesting")
    ELSE When(FlattenSeq([i \in DOMAIN kids |-> kids[i].all]),
              FlattenSeq([i \in DOMAIN kids |-> kids[i].any]))

\* An OR element is an OR group or a single trigger.
OrElement(w) == IF w.any = <<>> THEN Len(w.all) = 1 ELSE w.all = <<>>
lower_any(kids) ==
    IF Failed(kids) # {} \/ \E i \in DOMAIN kids : ~OrElement(kids[i])
    THEN Err("UnrepresentableNesting")
    ELSE When(<<>>, FlattenSeq([i \in DOMAIN kids |-> kids[i].all \o kids[i].any]))

\* The arms of lower, where low has the guards of the parts.
lower_node(low, e) ==
    CASE e.node = "Leaf" -> When(<<e.trigger>>, <<>>)
      [] e.node = "All" -> lower_all([i \in DOMAIN e.kids |-> low[e.kids[i]]])
      [] e.node = "Any" -> lower_any([i \in DOMAIN e.kids |-> low[e.kids[i]]])

Guards == LET low[e \in Exprs] == lower_node(low, e) IN [e \in Exprs |-> low[e]]
lower(expr) == Guards[expr]

-----------------------------------------------------------------------------
(* Actions.  SemanticAction is the keys that are present; a payload is     *)
(* primitive or nested.                                                    *)

Verbs == {"estop", "slow_to", "resume", "topic"}
EmptyTopic == <<"">>   \* the empty string

try_from_action(a) ==
    CASE Cardinality(DOMAIN a \cap Verbs) # 1 -> Err("NoActionVerb")
      [] Cardinality(DOMAIN a \cap Verbs) = 1 /\ "payload" \in DOMAIN a /\ a.payload = "nested" ->
            Err("NonPrimitivePayload")
      [] OTHER ->
            IF "slow_to" \in DOMAIN a /\ a.slow_to = NoValue THEN Err("InvalidDistance")
            ELSE IF "topic" \in DOMAIN a /\ a.topic = EmptyTopic THEN Err("InvalidTopic")
            ELSE a

Action(topic, payload) == [topic |-> topic, payload |-> payload]

compile_action(a) ==
    CASE "estop" \in DOMAIN a -> Action(<<"stop", "fleet", "cmd">>, "primitive")
      [] "resume" \in DOMAIN a -> Action(LocalTopics["drive"], "primitive")
      [] "slow_to" \in DOMAIN a -> Action(LocalTopics["drive"], "primitive")
      [] "topic" \in DOMAIN a ->
            IF Topic_try_new(a.topic) = TopicErr THEN Err("InvalidTopic")
            ELSE Action(Topic_try_new(a.topic), IF "payload" \in DOMAIN a THEN a.payload ELSE "null")

-----------------------------------------------------------------------------
(* A document: whether [site].id is there, and its rules.                  *)

check_rule(rule) ==
    LET actions == [i \in DOMAIN rule.actions |-> try_from_action(rule.actions[i])]
    IN  IF Failed(actions) # {} THEN FirstErr(actions) ELSE build_when_expr(rule.when)

validate(doc) == FirstErr([i \in DOMAIN doc.rules |-> check_rule(doc.rules[i])])

compile_rule(rule) ==
    LET built(when, actions) ==
            IF IsErr(when) THEN when
            ELSE IF Failed(actions) # {} THEN FirstErr(actions)
            ELSE [when |-> when, actions |-> actions]
    IN  built(lower(build_when_expr(rule.when)),
              [i \in DOMAIN rule.actions |-> compile_action(rule.actions[i])])

compile(doc) ==
    LET built(rules) == IF Failed(rules) # {} THEN FirstErr(rules) ELSE [rules |-> rules]
    IN  IF IsErr(validate(doc)) THEN validate(doc)
        ELSE IF ~doc.site THEN Err("MissingField")
        ELSE built([i \in DOMAIN doc.rules |-> compile_rule(doc.rules[i])])

-----------------------------------------------------------------------------
(* A ruleset file is absent, unreadable, no rules file, a semantic         *)
(* document, or the runtime's own form.  A semantic document is written in *)
(* TOML or JSON, and may have a misspelt condition key (typo).             *)

ParsesAs(syntaxes, file) ==
    file.form = "semantic" /\ file.syntax \in syntaxes /\ ~file.typo

parse_semantic(file) == ParsesAs({"toml"}, file)
parse_semantic_auto(file) == ParsesAs({"toml", "json"}, file)

\* Rules::from_toml.  A semantic document passes if none of its blocks nest and its
\* actions spell out topic, qos and payload; its condition keys are ignored.
from_toml(file) ==
    CASE file.form = "raw" -> [rules |-> file.rules]
      [] file.form = "semantic" ->
            IF /\ file.syntax = "toml"
               /\ \A i \in DOMAIN file.rules :
                  /\ file.rules[i].when.all = <<>> /\ file.rules[i].when.any = <<>>
                  /\ \A j \in DOMAIN file.rules[i].actions :
                        {"topic", "qos", "payload"} \subseteq DOMAIN file.rules[i].actions[j]
            THEN [rules |-> [i \in DOMAIN file.rules |->
                                [when |-> When(<<>>, <<>>),
                                 actions |-> [j \in DOMAIN file.rules[i].actions |->
                                    Action(file.rules[i].actions[j].topic,
                                           file.rules[i].actions[j].payload)]]]]
            ELSE Err("Parse")
      [] file.form = "garbage" -> Err("Parse")

Triggers(when) == ToSet(when.all) \cup ToSet(when.any)
TriggerTopics(rules) ==
    UNION {{trigger.topic : trigger \in Triggers(rules[i].when)} : i \in DOMAIN rules}

\* Fault: the raw form is accepted as soon as it parses.
rule_check_any_raw(file) ==
    \/ parse_semantic_auto(file) /\ ~IsErr(validate(file))
    \/ ~IsErr(from_toml(file))

\* `flo rule check`: validate does not lower, and the fall-back to the runtime's form
\* wants rules with triggers, whose topics are checked only if the document did not
\* parse.
rule_check(file) ==
    \/ parse_semantic_auto(file) /\ ~IsErr(validate(file))
    \/ LET raw == from_toml(file)
       IN  /\ ~IsErr(raw) /\ raw.rules # <<>>
           /\ \A i \in DOMAIN raw.rules : Triggers(raw.rules[i].when) # {}
           /\ ~parse_semantic_auto(file) =>
                \A topic \in TriggerTopics(raw.rules) : Topic_try_new(topic) # TopicErr

\* Rules::to_toml: TOML has no null, and to_toml expects success.
to_toml_panics(rules) ==
    \E i \in DOMAIN rules : \E j \in DOMAIN rules[i].actions : rules[i].actions[j].payload = "null"

Loaded(rules) == [rules |-> rules]

compile_rules_or_default(file) ==
    LET chosen(compiled, raw) ==
            IF ~IsErr(compiled)
            THEN IF to_toml_panics(compiled.rules) THEN Panic ELSE Loaded(compiled.rules)
            ELSE Loaded(IF IsErr(raw) THEN <<>> ELSE raw.rules)
    IN  chosen(IF parse_semantic(file) THEN compile(file) ELSE Err("Parse"), from_toml(file))

-----------------------------------------------------------------------------
(* Evaluation of a guard on the latest samples, every trigger taken at its *)
(* current outcome (what edge mode adds to that is module RuleEngine's).  *)

trigger_matches(trigger, latest, zones) ==
    /\ trigger.topic \in DOMAIN latest
    /\ eval_predicate(trigger.pred, latest[trigger.topic], zones)

\* Fault: a guard without triggers is true.
GuardHolds_vacuous(when, latest, zones) ==
    /\ \A i \in DOMAIN when.all : trigger_matches(when.all[i], latest, zones)
    /\ when.any = <<>> \/ \E i \in DOMAIN when.any : trigger_matches(when.any[i], latest, zones)

GuardHolds(when, latest, zones) ==
    /\ when.all # <<>> \/ when.any # <<>>
    /\ \A i \in DOMAIN when.all : trigger_matches(when.all[i], latest, zones)
    /\ when.any = <<>> \/ \E i \in DOMAIN when.any : trigger_matches(when.any[i], latest, zones)
=============================================================================
