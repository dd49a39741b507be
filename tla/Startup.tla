------------------------------ MODULE Startup ------------------------------
(***************************************************************************)
(* How a process of the flo client or the flo server starts: between the   *)
(* steps of the authentication gate (module AuthGate) come the inputs      *)
(* (load_inputs of src/runtime.rs, the server's own in src/server.rs), the *)
(* liveliness token and the engine's first subscriptions.  Registration,   *)
(* which follows the liveliness token, is module Registration.             *)
(***************************************************************************)
EXTENDS Semantic, AuthGate

VARIABLES
    file,     \* the file of --ruleset
    rules     \* the rules the store was bootstrapped with
startVars == <<args, file, phase, zenoh, session, rules>>

-----------------------------------------------------------------------------
(* Inputs.  A config is absent, unreadable, garbage, one of a server, or   *)
(* one of a client with the keys it gives a value or leaves empty.         *)

ConfigKeys == {"heartbeat_interval_ms", "x", "y", "z", "site_id", "zone_enter", "zone_exit",
               "location.topic", "zone.topic"}
ClientConfigOk(config) ==
    config.form = "client" /\ \A k \in ConfigKeys : k \in DOMAIN config.keys /\ config.keys[k] = "set"

\* The built-in demo; the id goes into its topics as text.
DemoPred ==
    LET reads(field, op, value) == Comparison(op, Field(field), Lit(value))
    IN  [bumper |-> reads("pressed", "Eq", Value("bool", 1)),
         imu |-> reads("speed_mps", "Gt", Value("num", 1)),
         lidar |-> reads("min_range_m", "Lt", Value("num", 3))]

ASSUME DemoConstants == \A sensor \in DOMAIN DemoPred : DemoPred[sensor] \in Preds

bootstrap_demo(id) ==
    LET local(resource) == <<"robot">> \o id \o <<"local", resource>>
    IN  << [when |-> When(<<Trigger(local("bumper"), DemoPred["bumper"], "Level"),
                            Trigger(local("imu"), DemoPred["imu"], "Level")>>, <<>>),
            actions |-> <<Action(<<"stop", "fleet", "cmd">>, "nested")>>],
           [when |-> When(<<>>, <<Trigger(<<"lidar", "fleet", "scan">>, DemoPred["lidar"], "Level")>>),
            actions |-> <<Action(local("drive"), "nested")>>] >>

\* Compiling conditions or a drive action builds topics of the robot id, and panics
\* on an id that is not one segment.
CompilePanics ==
    /\ robot_local(args.id, <<"zone">>) = TopicErr
    /\ parse_semantic(file) /\ ~IsErr(validate(file)) /\ file.site /\ file.rules # <<>>

\* Fault: a ruleset that cannot be read is as good as none.
load_inputs_lenient ==
    CASE file.form \in {"absent", "unreadable"} ->
            Loaded(IF ClientConfigOk(args.config) THEN bootstrap_demo(args.id) ELSE <<>>)
      [] file.form \notin {"absent", "unreadable"} ->
            IF CompilePanics THEN Panic ELSE compile_rules_or_default(file)

\* The demo rules only without a ruleset and with a valid client config.
load_inputs ==
    CASE file.form = "absent" ->
            Loaded(IF ClientConfigOk(args.config) THEN bootstrap_demo(args.id) ELSE <<>>)
      [] file.form = "unreadable" -> Loaded(<<>>)
      [] file.form \notin {"absent", "unreadable"} ->
            IF CompilePanics THEN Panic ELSE compile_rules_or_default(file)

-----------------------------------------------------------------------------
\* Fault: inputs that load let the client open its session at once.
LoadInputs_opens ==
    /\ phase = "inputs"
    /\ IF IsErr(load_inputs)
       THEN Goes("panicked") /\ UNCHANGED rules
       ELSE Goes("open") /\ rules' = load_inputs.rules
    /\ UNCHANGED <<args, file, zenoh, session>>

LoadInputs ==
    /\ phase = "inputs"
    /\ IF IsErr(load_inputs)
       THEN Goes("panicked") /\ UNCHANGED rules
       ELSE Goes("config") /\ rules' = load_inputs.rules
    /\ UNCHANGED <<args, file, zenoh, session>>

\* The server has the demo rules, whatever its config says.
OpenSession ==
    /\ Open
    /\ rules' = IF phase' = "engine" THEN bootstrap_demo(args.id) ELSE rules
    /\ UNCHANGED file

\* Transport::declare_liveliness: the builder panics, or zenoh takes the key or not.
DeclareToken ==
    /\ phase = "token"
    /\ IF liveliness_key(args.id) = TopicErr THEN Goes("panicked")
       ELSE Goes("engine") \/ Goes("exited")
    /\ UNCHANGED <<args, file, zenoh, session, rules>>

\* The engine subscribes to the trigger topics; one that is no pattern ends it, and
\* the supervisor with it.
StartEngine ==
    /\ phase = "engine"
    /\ Goes(IF \A topic \in TriggerTopics(rules) : Pattern_try_new(topic) # TopicErr
            THEN "running" ELSE "exited")
    /\ UNCHANGED <<args, file, zenoh, session, rules>>

StartupNext ==
    \/ (Authenticate \/ BuildConfig \/ ServerConfig) /\ UNCHANGED <<file, rules>>
    \/ LoadInputs \/ OpenSession \/ DeclareToken \/ StartEngine

-----------------------------------------------------------------------------
\* A client runs whose ruleset file passes `flo rule check`.
CheckedFile ==
    /\ phase = "running" /\ args.binary = "client"
    /\ file.form \notin {"absent", "unreadable"} /\ rule_check(file)

\* What `flo rule check` accepts, the client runs rule for rule and each with a
\* condition of its own, or it runs nothing of it: no part of a checked file is
\* dropped or runs with its conditions gone.
CheckedIsWhatRuns ==
    CheckedFile =>
        \/ /\ DOMAIN rules = DOMAIN file.rules
           /\ \A i \in DOMAIN rules : Triggers(rules[i].when) # {}
        \/ \A i \in DOMAIN rules : Triggers(rules[i].when) = {}

\* "a shape the model cannot express [...] is **rejected** at `flo rule check`/compile"
\* (docs/RULES.md, the nesting limit): no client runs without the rules of a file that
\* passed the check because of such a shape.
NestingIsRejected ==
    CheckedFile => ~(parse_semantic(file) /\ compile(file) = Err("UnrepresentableNesting"))
=============================================================================
