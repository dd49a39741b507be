------------------------------- MODULE Client -------------------------------
(***************************************************************************)
(* A process starts with some command line and ruleset file, and evaluates *)
(* the guards of its rules while the samples degrade: payloads lose fields *)
(* and topics go stale.                                                    *)
(***************************************************************************)
EXTENDS Startup

CONSTANT Inputs   \* the command lines, ruleset files and first samples to start with

VARIABLES
    latest,  \* topic -> payload
    zones    \* robot -> zones it is in
vars == <<startVars, latest, zones>>

\* Lists are sequences, and the parts of a file are of the sets they are named after.
IsList(s) == s \in Seq(ToSet(s))
IsGuard(when) ==
    /\ IsList(when.all) /\ IsList(when.any)
    /\ \A trigger \in Triggers(when) : trigger.pred \in Preds \cup {NoPred}
IsFile(f) ==
    \/ f.form \in {"absent", "unreadable", "garbage"}
    \/ /\ f.form = "raw" /\ IsList(f.rules)
       /\ \A rule \in ToSet(f.rules) : IsGuard(rule.when)
    \/ /\ f.form = "semantic" /\ f.syntax \in {"toml", "json"} /\ IsList(f.rules)
       /\ \A rule \in ToSet(f.rules) : rule.when \in Whens /\ IsList(rule.actions)

\* A field that is there has a value.
IsPayload(p) == \A f \in DOMAIN p : p[f].t \in {"num", "str", "bool", "other"} /\ p[f].v \in Int

ASSUME ClientInputs ==
    /\ \A f \in {in.file : in \in Inputs} : IsFile(f)
    /\ \A l \in {in.latest : in \in Inputs} : \A t \in DOMAIN l : IsPayload(l[t])

-----------------------------------------------------------------------------
Init ==
    /\ \E in \in Inputs :
        file = in.file /\ args = in.args /\ latest = in.latest /\ zones = in.zones
    /\ GateInit
    /\ rules = <<>>

\* The next sample of a topic lacks one more field.
LoseField(t, f) ==
    /\ phase = "running"
    /\ f \in DOMAIN latest[t]
    /\ latest' = [latest EXCEPT ![t] = [g \in DOMAIN @ \ {f} |-> @[g]]]
    /\ UNCHANGED <<startVars, zones>>

\* The sample of a topic goes stale.
LoseTopic(t) ==
    /\ phase = "running"
    /\ latest' = [u \in DOMAIN latest \ {t} |-> latest[u]]
    /\ UNCHANGED <<startVars, zones>>

Next ==
    \/ StartupNext /\ UNCHANGED <<latest, zones>>
    \/ \E t \in DOMAIN latest : LoseTopic(t) \/ \E f \in DOMAIN latest[t] : LoseField(t, f)
Spec == Init /\ [][Next]_vars

-----------------------------------------------------------------------------
Holds(i) == GuardHolds(rules[i].when, latest, zones)
Running == phase = "running" /\ args.binary = "client"

\* The three-valued meaning of a guard: a topic without a sample is unknown.
MeaningOfTrigger(trigger) ==
    IF trigger.topic \in DOMAIN latest THEN Meaning(trigger.pred, latest[trigger.topic], zones)
    ELSE "unknown"
MeaningOfGuard(when) ==
    EveryOf({MeaningOfTrigger(t) : t \in ToSet(when.all)}
            \cup (IF when.any = <<>> THEN {}
                  ELSE {SomeOf({MeaningOfTrigger(t) : t \in ToSet(when.any)})}))

GuardNotFree(when) == \A trigger \in Triggers(when) : NotFree(trigger.pred)

\* A guard without Not agrees with the three-valued reference, however its
\* comparisons are nested: an absent field, a peer mismatch or a topic without a
\* sample can only make it false, and a guard without triggers never holds
\* (src/engine.rs, eval_tree's "failing closed" and when_satisfied_with_prev).
AgreesWithReference ==
    Running => \A i \in DOMAIN rules :
        LET when == rules[i].when
        IN  GuardNotFree(when) =>
                (Holds(i) <=> (Triggers(when) # {} /\ MeaningOfGuard(when) = "holds"))

\* A payload that loses a field, or a sample that goes stale, never turns a guard
\* without Not from false to true: degraded sensor data cannot start a rule whose
\* conditions are level-triggered.
DegradationNeverEnables ==
    [][Running => \A i \in DOMAIN rules :
         GuardNotFree(rules[i].when) /\ ~Holds(i) => ~Holds(i)']_vars

\* The meaning of a condition in the tables of docs/RULES.md, three-valued: what the
\* robot does not know is unknown, and a distance is a number.
T(resource) == LocalTopics[resource]
Known(topic, field) == T(topic) \in DOMAIN latest /\ field \in DOMAIN latest[T(topic)]
Sensed(topic, field) == latest[T(topic)][field]
Measured(topic, limit) ==
    /\ Known(topic, "separation_distance") /\ Sensed(topic, "separation_distance").t = "num"
    /\ limit # NoValue

MeaningOfKey(key, arg) ==
    CASE key = "in_zone" -> Verdict(Known("zone", "zone_id"), Sensed("zone", "zone_id") = arg)
      [] key = "not_in_zone" -> Verdict(Known("zone", "zone_id"), Sensed("zone", "zone_id") # arg)
      [] key = "near_human" ->
            Verdict(Measured("human_present", arg),
                    Sensed("human_present", "separation_distance").v < arg.v)
      [] key = "not_near_human" ->
            Verdict(Measured("human_present", arg),
                    Sensed("human_present", "separation_distance").v >= arg.v)
      [] key = "near" ->
            Verdict(/\ Known("proximity", "peer_id") /\ Sensed("proximity", "peer_id") = arg.entity
                    /\ Measured("proximity", arg.dist),
                    Sensed("proximity", "separation_distance").v < arg.dist.v)
      [] key = "role" -> Verdict(Known("role", "role"), Sensed("role", "role") = arg)

MeaningOfWhen(when) ==
    LET meaning[w \in Whens] ==
            EveryOf({MeaningOfKey(key, w.flat[key]) : key \in DOMAIN w.flat}
                    \cup {meaning[w.all[i]] : i \in DOMAIN w.all}
                    \cup (IF w.any = <<>> THEN {}
                          ELSE {SomeOf({meaning[w.any[i]] : i \in DOMAIN w.any})}))
    IN  meaning[when]

\* Lowering keeps the meaning of a condition, however its blocks nest: the guard that
\* runs holds exactly when the condition does.  (A zone sample without zone_id is
\* left out: not_in_zone takes it for "elsewhere".)
LoweringIsExact ==
    (/\ Running /\ file.form \notin {"absent", "unreadable"}
     /\ parse_semantic(file) /\ ~IsErr(compile(file))
     /\ T("zone") \in DOMAIN latest => "zone_id" \in DOMAIN latest[T("zone")]) =>
        \A i \in DOMAIN file.rules : Holds(i) <=> MeaningOfWhen(file.rules[i].when) = "holds"

\* A ruleset that was asked for and does not compile fires nothing, on any data,
\* although it is tried again in the runtime's form, in which its conditions are
\* unknown keys; and it is never replaced by the demo rules.
FailedCompileIsInert ==
    (Running /\ file.form \in {"semantic", "unreadable", "garbage"}) =>
        \/ parse_semantic(file) /\ ~IsErr(compile(file))
        \/ \A i \in DOMAIN rules : Triggers(rules[i].when) = {} /\ ~Holds(i)
=============================================================================
