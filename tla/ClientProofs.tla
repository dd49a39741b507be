---------------------------- MODULE ClientProofs ----------------------------
(***************************************************************************)
(* A process of the flo client or server, for any command line, ruleset    *)
(* file and samples: the authentication gate and what its sessions are     *)
(* protected by; which rules a client that came to run has, against what   *)
(* its file says and `flo rule check` accepted; and what the guards of     *)
(* these rules mean, on any samples.                                       *)
(***************************************************************************)
EXTENDS Client, SemanticProofs, FiniteSetTheorems

-----------------------------------------------------------------------------
(* The gate.  A process past it has what it asks for, and the config that  *)
(* the process carries is the one its mode calls for, from the step that   *)
(* builds it to the session, through the endpoints merged into it.         *)

Passed == args.mode \in AuthMode /\ validate_production(args)

\* What a session config z has for the mode of the command line.
Fit(z) ==
    \/ args.mode = "mtls" /\ z.tls /\ z.acl = acl_config(args.id) /\ TopicErr \notin z.acl
    \/ args.mode = "none" /\ ~z.tls

GInv ==
    /\ phase \notin {"auth", "exited", "panicked"} => Passed
    /\ phase \in {"server_config", "open"} => Fit(zenoh)
    /\ session # NoSession => Passed /\ Fit(session)

\* Merging endpoints touches neither the TLS flag nor the ACL.
LEMMA MergedKeeps ==
    ASSUME NEW z, {"tls", "acl"} \subseteq DOMAIN z, NEW a
    PROVE  Merged(z, a).tls = z.tls /\ Merged(z, a).acl = z.acl
<1>1. ASSUME NEW y, y = [z EXCEPT !.mode = "client", !.endpoints = a.connect]
      PROVE  y.tls = z.tls /\ y.acl = z.acl
  BY <1>1
<1>2. ASSUME NEW y, y = [z EXCEPT !.mode = "client", !.endpoints = a.connect, !.scouting = FALSE]
      PROVE  y.tls = z.tls /\ y.acl = z.acl
  BY <1>2
<1> QED
  BY <1>1, <1>2 DEF Merged, with_endpoints

\* zenoh_config fails, or has the config of the mode.
LEMMA ConfigFits ==
    ASSUME Passed, NEW z, z = zenoh_config(args), ~IsErr(z)
    PROVE  {"tls", "acl"} \subseteq DOMAIN z /\ Fit(z)
<1>1. check_credentials(args) /\ args.mode \in {"mtls", "ed25519", "none"}
  BY DEF Passed, validate_production, AuthMode
<1>2. \A code : IsErr(Err(code))
  BY DEF IsErr, Err
<1>3. args.mode # "ed25519"
  BY <1>2 DEF zenoh_config
<1>4. CASE args.mode = "none"
  <2>1. z = [NoSession EXCEPT !.mode = "router", !.scouting = TRUE]
    BY <1>1, <1>4 DEF zenoh_config
  <2>2. DOMAIN NoSession = {"mode", "tls", "acl", "scouting", "endpoints"} /\ NoSession.tls = FALSE
    BY DEF NoSession
  <2>3. {"tls", "acl"} \subseteq DOMAIN z /\ z.tls = FALSE
    BY <2>1, <2>2
  <2> QED
    BY <1>4, <2>3 DEF Fit
<1>5. CASE args.mode = "mtls"
  <2>1. z = IF TopicErr \in acl_config(args.id) THEN Panic
            ELSE [mode |-> "peer", tls |-> TRUE, acl |-> acl_config(args.id),
                  scouting |-> TRUE, endpoints |-> {}]
    BY <1>1, <1>5 DEF zenoh_config
  <2>2. TopicErr \notin acl_config(args.id)
    BY <1>2, <2>1 DEF Panic
  <2>3. {"tls", "acl"} \subseteq DOMAIN z /\ z.tls = TRUE /\ z.acl = acl_config(args.id)
    BY <2>1, <2>2
  <2> QED
    BY <1>5, <2>2, <2>3 DEF Fit
<1> QED
  BY <1>1, <1>3, <1>4, <1>5

LEMMA GateKeeps == GInv /\ [GateNext]_gateVars => GInv'
<1> SUFFICES ASSUME GInv, [GateNext]_gateVars PROVE GInv'
  OBVIOUS
<1>0. args' = args
  BY DEF GateNext, gateVars, Authenticate, BuildConfig, ServerConfig, Open, Elsewhere
<1>a. (Passed' <=> Passed) /\ \A z : Fit(z)' <=> Fit(z)
  BY <1>0 DEF Passed, Fit, validate_production, check_credentials
<1>1. CASE Authenticate
  BY <1>1, <1>a DEF Authenticate, Goes, GInv, Passed
<1>2. CASE BuildConfig
  <2>1. Passed /\ phase = "config" /\ session' = session
    BY <1>2 DEF BuildConfig, GInv
  <2>2. PICK z : z = zenoh_config(args)
    OBVIOUS
  <2>3. CASE IsErr(z)
    <3>1. phase' \in {"panicked", "exited"} /\ zenoh' = zenoh
      BY <1>2, <2>2, <2>3 DEF BuildConfig, Goes
    <3> QED
      BY <1>a, <2>1, <3>1 DEF GInv
  <2>4. CASE ~IsErr(z)
    <3>1. zenoh' = Merged(z, args) /\ phase' \in {"server_config", "open"}
      BY <1>2, <2>2, <2>4 DEF BuildConfig, Goes
    <3>2. {"tls", "acl"} \subseteq DOMAIN z /\ Fit(z)
      BY <2>1, <2>2, <2>4, ConfigFits
    <3>3. Merged(z, args).tls = z.tls /\ Merged(z, args).acl = z.acl
      BY <3>2, MergedKeeps
    <3>4. Fit(zenoh')
      BY <3>1, <3>2, <3>3 DEF Fit
    <3>5. Passed' /\ (session' # NoSession => Fit(session'))
      BY <1>a, <2>1 DEF GInv
    <3> QED
      BY <1>0, <3>1, <3>4, <3>5 DEF GInv, Fit
  <2> QED
    BY <2>3, <2>4
<1>3. CASE ServerConfig
  BY <1>0, <1>3, <1>a DEF ServerConfig, Goes, GInv, Fit
<1>4. CASE Open
  BY <1>0, <1>4, <1>a DEF Open, Goes, GInv, Fit
<1>5. CASE Elsewhere
  <2>1. /\ phase \in {"inputs", "token", "engine"}
        /\ phase' \in {"config", "panicked", "engine", "exited", "running"}
        /\ UNCHANGED <<args, zenoh, session>>
    BY <1>5 DEF Elsewhere, After
  <2> QED
    BY <1>a, <2>1 DEF GInv, Fit
<1>6. CASE UNCHANGED gateVars
  BY <1>a, <1>6 DEF gateVars, GInv, Fit
<1> QED
  BY <1>1, <1>2, <1>3, <1>4, <1>5, <1>6 DEF GateNext

\* Whatever the command line, the credentials and the endpoints, and whichever of the
\* four copies of the gate a process goes through, the session it opens is protected
\* by mTLS and its robot's ACL, or authentication was switched off and that allowed
\* (auth.rs, validate_production and zenoh_config; transport.rs, with_endpoints).
THEOREM NoDowngrade == GateSpec => []NoSilentDowngrade
<1>1. GateInit => GInv
  BY DEF GateInit, GInv
<1>2. GInv => NoSilentDowngrade
  BY DEF GInv, NoSilentDowngrade, Passed, Fit, validate_production, check_credentials
<1> QED
  BY <1>1, <1>2, GateKeeps, PTL DEF GateSpec

-----------------------------------------------------------------------------
(* The process goes through the gate.                                      *)

LEMMA StepIsGateStep == Next => [GateNext]_gateVars
<1> SUFFICES ASSUME Next PROVE [GateNext]_gateVars
  OBVIOUS
<1>1. CASE Authenticate \/ BuildConfig \/ ServerConfig
  BY <1>1 DEF GateNext
<1>2. CASE LoadInputs
  <2>1. phase = "inputs" /\ phase' \in {"config", "panicked"} /\ UNCHANGED <<args, zenoh, session>>
    BY <1>2 DEF LoadInputs, Goes
  <2> QED
    BY <2>1 DEF GateNext, Elsewhere, After
<1>3. CASE OpenSession
  BY <1>3 DEF OpenSession, GateNext
<1>4. CASE DeclareToken
  <2>1. phase = "token" /\ phase' \in {"engine", "exited", "panicked"} /\ UNCHANGED <<args, zenoh, session>>
    BY <1>4 DEF DeclareToken, Goes
  <2> QED
    BY <2>1 DEF GateNext, Elsewhere, After
<1>5. CASE StartEngine
  <2>1. phase = "engine" /\ phase' \in {"running", "exited"} /\ UNCHANGED <<args, zenoh, session>>
    BY <1>5 DEF StartEngine, Goes
  <2> QED
    BY <2>1 DEF GateNext, Elsewhere, After
<1>6. CASE \E t \in DOMAIN latest : LoseTopic(t) \/ \E f \in DOMAIN latest[t] : LoseField(t, f)
  BY <1>6 DEF LoseTopic, LoseField, startVars, gateVars
<1> QED
  BY <1>1, <1>2, <1>3, <1>4, <1>5, <1>6 DEF Next, StartupNext

\* Reading inputs, declaring a token, starting an engine and losing samples, the whole
\* process takes the steps of the gate in their order or none (runtime.rs and
\* server.rs around auth.rs).
THEOREM ThroughTheGate == Spec => GateSpec
<1>1. Init => GateInit
  BY DEF Init
<1>2. [Next]_vars => [GateNext]_gateVars
  BY StepIsGateStep DEF vars, startVars, gateVars
<1> QED
  BY <1>1, <1>2, PTL DEF Spec, GateSpec

\* So no process of the client or the server opens a session that is protected less
\* than its command line asked for, whatever inputs it loads on the way.
THEOREM ClientNoDowngrade == Spec => []NoSilentDowngrade
  BY ThroughTheGate, NoDowngrade, PTL

-----------------------------------------------------------------------------
(* What a ruleset file becomes.                                            *)

LEMMA SeqIsList ==
    ASSUME NEW S, NEW s \in Seq(S)
    PROVE  IsList(s)
<1>1. s \in [1..Len(s) -> ToSet(s)] /\ Len(s) \in Nat
  BY DEF ToSet
<1> QED
  BY <1>1, FunctionIsSeq DEF IsList

LEMMA ListDomain ==
    ASSUME NEW s, IsList(s)
    PROVE  /\ DOMAIN s = 1..Len(s) /\ Len(s) \in Nat /\ DOMAIN s \subseteq Nat
           /\ s = <<>> <=> DOMAIN s = {}
           /\ \A i \in DOMAIN s : s[i] \in ToSet(s)
<1>1. s \in Seq(ToSet(s))
  BY DEF IsList
<1>2. DOMAIN s = 1..Len(s) /\ Len(s) \in Nat /\ DOMAIN s \subseteq Nat
  BY <1>1
<1>3. s = <<>> <=> Len(s) = 0
  BY <1>1, EmptySeq
<1>4. Len(s) = 0 <=> DOMAIN s = {}
  <2>1. Len(s) # 0 => 1 \in DOMAIN s
    BY <1>2
  <2> QED
    BY <1>2, <2>1
<1> QED
  BY <1>2, <1>3, <1>4 DEF ToSet

\* A document that passes validation has conditions that pass, and actions too.
LEMMA Validated ==
    ASSUME IsFile(file), file.form = "semantic", ~IsErr(validate(file)), NEW i \in DOMAIN file.rules
    PROVE  LET rule == file.rules[i]
           IN  /\ rule.when \in Valid /\ IsList(rule.actions)
               /\ \A j \in DOMAIN rule.actions : ~IsErr(try_from_action(rule.actions[j]))
<1> DEFINE rule == file.rules[i]
           checks == [k \in DOMAIN file.rules |-> check_rule(file.rules[k])]
           actions == [j \in DOMAIN rule.actions |-> try_from_action(rule.actions[j])]
<1>1. IsList(file.rules) /\ \A r \in ToSet(file.rules) : r.when \in Whens /\ IsList(r.actions)
  BY DEF IsFile
<1>2. rule.when \in Whens /\ IsList(rule.actions) /\ DOMAIN file.rules \subseteq Nat
  BY <1>1, ListDomain
<1>3. validate(file) = FirstErr(checks) /\ DOMAIN checks = DOMAIN file.rules /\ checks[i] = check_rule(rule)
  BY DEF validate
<1>4. ~IsErr(check_rule(rule))
  <2> HIDE DEF checks
  <2>1. Failed(checks) = {}
    BY <1>2, <1>3, FirstErrIsOne
  <2> QED
    BY <1>3, <2>1 DEF Failed
<1>5. check_rule(rule) = IF Failed(actions) # {} THEN FirstErr(actions) ELSE build_when_expr(rule.when)
  BY DEF check_rule
<1>6. DOMAIN actions = DOMAIN rule.actions /\ DOMAIN rule.actions \subseteq Nat
  BY <1>2, ListDomain
<1>7. \A j \in DOMAIN rule.actions : actions[j] = try_from_action(rule.actions[j])
  OBVIOUS
<1> HIDE DEF actions
<1>8. Failed(actions) = {}
  BY <1>4, <1>5, <1>6, FirstErrIsOne
<1>9. \A j \in DOMAIN rule.actions : ~IsErr(actions[j])
  BY <1>6, <1>8 DEF Failed
<1> QED
  BY <1>2, <1>4, <1>5, <1>7, <1>8, <1>9 DEF Valid

\* What compiling a rule gives.
LEMMA CompiledRule ==
    ASSUME NEW rule, ~IsErr(compile_rule(rule)), IsList(rule.actions)
    PROVE  /\ ~IsErr(lower(build_when_expr(rule.when)))
           /\ compile_rule(rule).when = lower(build_when_expr(rule.when))
<1> DEFINE when == lower(build_when_expr(rule.when))
           actions == [i \in DOMAIN rule.actions |-> compile_action(rule.actions[i])]
<1>1. compile_rule(rule) = IF IsErr(when) THEN when
                           ELSE IF Failed(actions) # {} THEN FirstErr(actions)
                           ELSE [when |-> when, actions |-> actions]
  BY DEF compile_rule
<1>2. DOMAIN actions \subseteq Nat
  BY ListDomain
<1> HIDE DEF when, actions
<1>3. Failed(actions) # {} => IsErr(FirstErr(actions))
  BY <1>2, FirstErrIsOne
<1>4. ~IsErr(when) /\ compile_rule(rule) = [when |-> when, actions |-> actions]
  BY <1>1, <1>3
<1> QED
  BY <1>4 DEF when

\* What compiling a document gives: every rule's guard is its condition, lowered.
LEMMA Compiled ==
    ASSUME IsFile(file), file.form = "semantic", ~IsErr(compile(file))
    PROVE  /\ DOMAIN compile(file).rules = DOMAIN file.rules
           /\ \A i \in DOMAIN file.rules :
                LET e == build_when_expr(file.rules[i].when)
                IN  /\ file.rules[i].when \in Valid
                    /\ e \in Exprs /\ ~IsErr(lower(e)) /\ compile(file).rules[i].when = lower(e)
<1> DEFINE rs == [i \in DOMAIN file.rules |-> compile_rule(file.rules[i])]
<1>1. ~IsErr(validate(file)) /\ file.site
  BY ErrIsErr DEF compile
<1>2. compile(file) = IF Failed(rs) # {} THEN FirstErr(rs) ELSE [rules |-> rs]
  BY <1>1 DEF compile
<1>3. DOMAIN rs = DOMAIN file.rules /\ \A i \in DOMAIN file.rules : rs[i] = compile_rule(file.rules[i])
  OBVIOUS
<1>4. DOMAIN file.rules \subseteq Nat
  BY ListDomain DEF IsFile
<1> HIDE DEF rs
<1>5. Failed(rs) = {}
  BY <1>2, <1>3, <1>4, FirstErrIsOne
<1>6. compile(file).rules = rs
  BY <1>2, <1>5
<1>7. ASSUME NEW i \in DOMAIN file.rules
      PROVE  LET e == build_when_expr(file.rules[i].when)
             IN  /\ file.rules[i].when \in Valid
                 /\ e \in Exprs /\ ~IsErr(lower(e)) /\ compile(file).rules[i].when = lower(e)
  <2>1. file.rules[i].when \in Valid /\ IsList(file.rules[i].actions)
    BY <1>1, Validated
  <2>2. ~IsErr(compile_rule(file.rules[i]))
    BY <1>3, <1>5 DEF Failed
  <2>3. build_when_expr(file.rules[i].when) \in Exprs
    BY <2>1 DEF Exprs, Parts, Valid
  <2> QED
    BY <1>3, <1>6, <2>1, <2>2, <2>3, CompiledRule
<1> QED
  BY <1>3, <1>6, <1>7

\* The triggers of a lowered guard are those of conditions in use.
LEMMA LoweredIsGuard ==
    ASSUME NEW e \in Exprs, ~IsErr(lower(e))
    PROVE  IsGuard(lower(e))
<1>1. lower(e).all \in Seq(LeafTriggers) /\ lower(e).any \in Seq(LeafTriggers)
  BY LowerParts
<1>2. Triggers(lower(e)) \subseteq LeafTriggers
  BY <1>1, ToSetEmpty DEF Triggers
<1>3. \A t \in LeafTriggers : t.pred \in Preds
  BY WhenConstants DEF LeafTriggers, LeafExprs, LeavesOf, WhenLeaf, Valid
<1> QED
  BY <1>1, <1>2, <1>3, SeqIsList DEF IsGuard

LEMMA EmptyGuard == IsGuard(When(<<>>, <<>>)) /\ Triggers(When(<<>>, <<>>)) = {}
<1>1. ToSet(<<>>) = {} /\ IsList(<<>>)
  BY DEF ToSet, IsList
<1> QED
  BY <1>1 DEF IsGuard, Triggers, When

LEMMA DemoGuards ==
    ASSUME NEW id
    PROVE  /\ DOMAIN bootstrap_demo(id) = {1, 2}
           /\ \A i \in {1, 2} : IsGuard(bootstrap_demo(id)[i].when)
<1> DEFINE local(resource) == <<"robot">> \o id \o <<"local", resource>>
           t1 == Trigger(local("bumper"), DemoPred["bumper"], "Level")
           t2 == Trigger(local("imu"), DemoPred["imu"], "Level")
           t3 == Trigger(<<"lidar", "fleet", "scan">>, DemoPred["lidar"], "Level")
           w1 == When(<<t1, t2>>, <<>>)
           w2 == When(<<>>, <<t3>>)
<1>1. /\ DOMAIN bootstrap_demo(id) = {1, 2}
      /\ bootstrap_demo(id)[1].when = w1 /\ bootstrap_demo(id)[2].when = w2
  BY DEF bootstrap_demo
<1>2. t1.pred \in Preds /\ t2.pred \in Preds /\ t3.pred \in Preds
  <2>1. {"bumper", "imu", "lidar"} \subseteq DOMAIN DemoPred
    BY DEF DemoPred
  <2> QED
    BY <2>1, DemoConstants DEF Trigger
<1> HIDE DEF t1, t2, t3
<1>3. /\ ToSet(<<>>) = {} /\ ToSet(<<t1, t2>>) = {t1, t2} /\ ToSet(<<t3>>) = {t3}
  BY DEF ToSet
<1>4. IsList(<<>>) /\ IsList(<<t1, t2>>) /\ IsList(<<t3>>)
  <2>1. <<>> \in Seq({}) /\ <<t1, t2>> \in Seq({t1, t2}) /\ <<t3>> \in Seq({t3})
    OBVIOUS
  <2> QED
    BY <1>3, <2>1 DEF IsList
<1>5. IsGuard(w1) /\ IsGuard(w2)
  BY <1>2, <1>3, <1>4 DEF IsGuard, Triggers, When
<1> QED
  BY <1>1, <1>5

\* The runtime's own form of a semantic document has conditions without triggers.
LEMMA RawOfSemantic ==
    ASSUME IsFile(file), file.form = "semantic", ~IsErr(from_toml(file))
    PROVE  LET rs == from_toml(file).rules
           IN  /\ DOMAIN rs = DOMAIN file.rules /\ (rs = <<>> <=> DOMAIN rs = {})
               /\ \A i \in DOMAIN rs : rs[i].when = When(<<>>, <<>>)
<1> DEFINE one(i) == [when |-> When(<<>>, <<>>),
                      actions |-> [j \in DOMAIN file.rules[i].actions |->
                                    Action(file.rules[i].actions[j].topic,
                                           file.rules[i].actions[j].payload)]]
           rs == [i \in DOMAIN file.rules |-> one(i)]
<1>1. from_toml(file) = [rules |-> rs]
  BY ErrIsErr DEF from_toml
<1>2. from_toml(file).rules = rs
  BY <1>1
<1>3. IsList(file.rules)
  BY DEF IsFile
<1>4. DOMAIN rs = DOMAIN file.rules /\ \A i \in DOMAIN rs : rs[i].when = When(<<>>, <<>>)
  OBVIOUS
<1>5. rs = <<>> <=> DOMAIN rs = {}
  OBVIOUS
<1> HIDE DEF rs
<1> QED
  BY <1>2, <1>4, <1>5

\* What a client loads, by the form of its file.
LEMMA LoadedByForm ==
    ASSUME IsFile(file), ~IsErr(load_inputs)
    PROVE  LET rs == load_inputs.rules
           IN  /\ file.form = "absent" => rs = <<>> \/ rs = bootstrap_demo(args.id)
               /\ file.form \in {"unreadable", "garbage"} => rs = <<>>
               /\ file.form = "raw" => rs = file.rules
               /\ file.form = "semantic" =>
                    IF parse_semantic(file) /\ ~IsErr(compile(file)) THEN rs = compile(file).rules
                    ELSE rs = <<>> \/ (~IsErr(from_toml(file)) /\ rs = from_toml(file).rules)
<1> DEFINE compiled == IF parse_semantic(file) THEN compile(file) ELSE Err("Parse")
           raw == from_toml(file)
           rs == load_inputs.rules
<1>0. \A r : Loaded(r).rules = r
  BY DEF Loaded
<1>1. CASE file.form = "absent"
  <2>1. load_inputs = Loaded(IF ClientConfigOk(args.config) THEN bootstrap_demo(args.id) ELSE <<>>)
    BY <1>1 DEF load_inputs
  <2> QED
    BY <1>0, <1>1, <2>1
<1>2. CASE file.form = "unreadable"
  <2>1. load_inputs = Loaded(<<>>)
    BY <1>2 DEF load_inputs
  <2> QED
    BY <1>0, <1>2, <2>1
<1>3. CASE file.form \notin {"absent", "unreadable"}
  <2>1. load_inputs = compile_rules_or_default(file)
    BY <1>3, ErrIsErr DEF load_inputs, Panic
  <2>2. load_inputs = IF ~IsErr(compiled) THEN Loaded(compiled.rules)
                      ELSE Loaded(IF IsErr(raw) THEN <<>> ELSE raw.rules)
    BY <2>1, ErrIsErr DEF compile_rules_or_default, Panic
  <2>3. rs = IF ~IsErr(compiled) THEN compiled.rules ELSE IF IsErr(raw) THEN <<>> ELSE raw.rules
    BY <1>0, <2>2
  <2>4. file.form # "semantic" => IsErr(compiled)
    BY ErrIsErr DEF parse_semantic, ParsesAs
  <2>5. CASE file.form = "garbage"
    <3>1. IsErr(raw)
      BY <2>5, ErrIsErr DEF from_toml
    <3> QED
      BY <2>3, <2>4, <2>5, <3>1
  <2>6. CASE file.form = "raw"
    <3>1. raw = [rules |-> file.rules]
      BY <2>6 DEF from_toml
    <3>2. ~IsErr(raw) /\ raw.rules = file.rules
      BY <3>1 DEF IsErr
    <3> QED
      BY <2>3, <2>4, <2>6, <3>2
  <2>7. CASE file.form = "semantic"
    <3>1. CASE parse_semantic(file) /\ ~IsErr(compile(file))
      BY <2>3, <2>7, <3>1
    <3>2. CASE ~(parse_semantic(file) /\ ~IsErr(compile(file)))
      <4>1. IsErr(compiled)
        BY <3>2, ErrIsErr
      <4> QED
        BY <2>3, <2>7, <3>2, <4>1
    <3> QED
      BY <3>1, <3>2
  <2> QED
    BY <1>3, <2>5, <2>6, <2>7 DEF IsFile
<1> QED
  BY <1>1, <1>2, <1>3

\* Every loaded rule has a guard.
LEMMA LoadedGuards ==
    ASSUME IsFile(file), ~IsErr(load_inputs)
    PROVE  \A i \in DOMAIN load_inputs.rules : IsGuard(load_inputs.rules[i].when)
<1> DEFINE rs == load_inputs.rules
<1>0. DOMAIN <<>> = {}
  OBVIOUS
<1> HIDE DEF rs
<1>1. CASE rs = <<>>
  BY <1>0, <1>1 DEF rs
<1>2. CASE file.form = "absent" /\ rs # <<>>
  BY <1>2, LoadedByForm, DemoGuards DEF rs
<1>3. CASE file.form \in {"unreadable", "garbage"}
  BY <1>1, <1>3, LoadedByForm DEF rs
<1>4. CASE file.form = "raw"
  <2>1. rs = file.rules
    BY <1>4, LoadedByForm DEF rs
  <2>2. IsList(file.rules) /\ \A rule \in ToSet(file.rules) : IsGuard(rule.when)
    BY <1>4 DEF IsFile
  <2> QED
    BY <2>1, <2>2, ListDomain DEF rs
<1>5. CASE file.form = "semantic" /\ rs # <<>>
  <2>1. CASE parse_semantic(file) /\ ~IsErr(compile(file))
    <3>1. rs = compile(file).rules
      BY <1>5, <2>1, LoadedByForm DEF rs
    <3> QED
      BY <1>5, <2>1, <3>1, Compiled, LoweredIsGuard DEF rs
  <2>2. CASE ~(parse_semantic(file) /\ ~IsErr(compile(file)))
    <3>1. ~IsErr(from_toml(file)) /\ rs = from_toml(file).rules
      BY <1>5, <2>2, LoadedByForm DEF rs
    <3> QED
      BY <1>5, <3>1, RawOfSemantic, EmptyGuard DEF rs
  <2> QED
    BY <2>1, <2>2
<1> QED
  BY <1>1, <1>2, <1>3, <1>4, <1>5 DEF IsFile

-----------------------------------------------------------------------------
(* The invariant: a client that is past its inputs has what they load.     *)

CInv ==
    /\ IsFile(file)
    /\ \A t \in DOMAIN latest : IsPayload(latest[t])
    /\ (/\ args.binary = "client" /\ ~args.print
        /\ phase \notin {"auth", "inputs", "exited", "panicked"}) =>
            ~IsErr(load_inputs) /\ rules = load_inputs.rules
    /\ args.binary = "client" /\ phase \in {"token", "engine", "running"} => ~args.print

LEMMA CInvInit == Init => CInv
  BY ClientInputs DEF Init, GateInit, CInv

\* The data that a step may lose.
LEMMA LoseFieldIsLesser ==
    ASSUME CInv, NEW t \in DOMAIN latest, NEW f, LoseField(t, f)
    PROVE  /\ DOMAIN latest' = DOMAIN latest
           /\ \A u \in DOMAIN latest : Lesser(latest'[u], latest[u]) /\ IsPayload(latest'[u])
<1> DEFINE less == [g \in DOMAIN latest[t] \ {f} |-> latest[t][g]]
<1>1. latest' = [latest EXCEPT ![t] = less]
  BY DEF LoseField
<1>2. Lesser(less, latest[t])
  BY DEF Lesser
<1>3. IsPayload(less)
  BY DEF CInv, IsPayload
<1> HIDE DEF less
<1>4. DOMAIN latest' = DOMAIN latest /\ latest'[t] = less
      /\ \A u \in DOMAIN latest : u # t => latest'[u] = latest[u]
  BY <1>1
<1>5. \A u \in DOMAIN latest : Lesser(latest[u], latest[u]) /\ IsPayload(latest[u])
  BY DEF Lesser, CInv
<1> QED
  BY <1>2, <1>3, <1>4, <1>5

LEMMA LoseTopicIsLesser ==
    ASSUME CInv, NEW t \in DOMAIN latest, LoseTopic(t)
    PROVE  /\ DOMAIN latest' \subseteq DOMAIN latest
           /\ \A u \in DOMAIN latest' : Lesser(latest'[u], latest[u]) /\ IsPayload(latest'[u])
<1>1. latest' = [u \in DOMAIN latest \ {t} |-> latest[u]]
  BY DEF LoseTopic
<1>2. DOMAIN latest' \subseteq DOMAIN latest /\ \A u \in DOMAIN latest' : latest'[u] = latest[u]
  BY <1>1
<1>3. \A u \in DOMAIN latest : Lesser(latest[u], latest[u]) /\ IsPayload(latest[u])
  BY DEF Lesser, CInv
<1> QED
  BY <1>2, <1>3

LEMMA CInvKeeps == CInv /\ [Next]_vars => CInv'
<1> SUFFICES ASSUME CInv, [Next]_vars PROVE CInv'
  OBVIOUS
<1>1. file' = file /\ args' = args
  BY DEF Next, vars, startVars, StartupNext, Authenticate, BuildConfig, ServerConfig, LoadInputs,
         OpenSession, Open, DeclareToken, StartEngine, LoseField, LoseTopic
<1>2. load_inputs' = load_inputs
  BY <1>1 DEF load_inputs, CompilePanics
<1>3. IsFile(file)'
  BY <1>1 DEF CInv
<1> DEFINE Past(p) == p \notin {"auth", "inputs", "exited", "panicked"}
           Ended(p) == p \in {"exited", "panicked"}
           mine == args.binary = "client" /\ ~args.print
           Has == mine /\ Past(phase) => ~IsErr(load_inputs) /\ rules = load_inputs.rules
           Late == args.binary = "client" /\ phase \in {"token", "engine", "running"} => ~args.print
<1>4. ASSUME StartupNext, UNCHANGED <<latest, zones>> PROVE Has' /\ Late'
  <2>1. CASE Authenticate /\ UNCHANGED <<file, rules>>
    <3>1. phase' = (IF mine THEN "inputs" ELSE "config") \/ phase' = "exited"
      BY <2>1 DEF Authenticate, Goes
    <3> QED
      BY <1>1, <3>1
  <2>2. CASE BuildConfig /\ UNCHANGED <<file, rules>>
    <3>1. phase = "config" /\ phase' \in {"panicked", "exited", "server_config", "open"}
      BY <2>2 DEF BuildConfig, Goes
    <3> QED
      BY <1>1, <1>2, <2>2, <3>1 DEF CInv
  <2>3. CASE ServerConfig /\ UNCHANGED <<file, rules>>
    <3>1. phase = "server_config" /\ phase' \in {"open", "exited"}
      BY <2>3 DEF ServerConfig, Goes
    <3> QED
      BY <1>1, <1>2, <2>3, <3>1 DEF CInv
  <2>4. CASE LoadInputs
    <3>1. CASE IsErr(load_inputs)
      BY <2>4, <3>1 DEF LoadInputs, Goes
    <3>2. CASE ~IsErr(load_inputs)
      <4>1. phase' = "config" /\ rules' = load_inputs.rules
        BY <2>4, <3>2 DEF LoadInputs, Goes
      <4> QED
        BY <1>2, <3>2, <4>1
    <3> QED
      BY <3>1, <3>2
  <2>5. CASE OpenSession
    <3>1. /\ phase = "open"
          /\ phase' = "exited" \/ phase' = (IF args.print THEN "exited"
                                            ELSE IF args.binary = "client" THEN "token" ELSE "engine")
          /\ rules' = IF phase' = "engine" THEN bootstrap_demo(args.id) ELSE rules
      BY <2>5 DEF OpenSession, Open, Goes
    <3> QED
      BY <1>1, <1>2, <3>1 DEF CInv
  <2>6. CASE DeclareToken
    <3>1. phase = "token" /\ phase' \in {"panicked", "exited", "engine"} /\ rules' = rules
      BY <2>6 DEF DeclareToken, Goes
    <3> QED
      BY <1>1, <1>2, <3>1 DEF CInv
  <2>7. CASE StartEngine
    <3>1. phase = "engine" /\ phase' \in {"running", "exited"} /\ rules' = rules
      BY <2>7 DEF StartEngine, Goes
    <3> QED
      BY <1>1, <1>2, <3>1 DEF CInv
  <2> QED
    BY <1>4, <2>1, <2>2, <2>3, <2>4, <2>5, <2>6, <2>7 DEF StartupNext
<1>5. ASSUME UNCHANGED startVars PROVE Has' /\ Late'
  BY <1>2, <1>5 DEF startVars, CInv
<1>6. (UNCHANGED latest) => (\A t \in DOMAIN latest : IsPayload(latest[t]))'
  BY DEF CInv
<1>7. CASE StartupNext /\ UNCHANGED <<latest, zones>>
  BY <1>3, <1>4, <1>6, <1>7 DEF CInv
<1>8. CASE UNCHANGED vars
  BY <1>3, <1>5, <1>6, <1>8 DEF CInv, vars
<1>9. ASSUME NEW t \in DOMAIN latest, LoseTopic(t) PROVE CInv'
  BY <1>3, <1>5, <1>9, LoseTopicIsLesser DEF CInv, LoseTopic
<1>10. ASSUME NEW t \in DOMAIN latest, NEW f, LoseField(t, f) PROVE CInv'
  BY <1>3, <1>5, <1>10, LoseFieldIsLesser DEF CInv, LoseField
<1> QED
  BY <1>7, <1>8, <1>9, <1>10 DEF Next

LEMMA ClientInvariant == Spec => []CInv
  BY CInvInit, CInvKeeps, PTL DEF Spec

\* A running client has the rules it loaded.
LEMMA RunningHasLoaded ==
    ASSUME CInv, Running
    PROVE  /\ IsFile(file) /\ ~IsErr(load_inputs) /\ rules = load_inputs.rules
           /\ \A i \in DOMAIN rules : IsGuard(rules[i].when)
<1>1. IsFile(file) /\ ~IsErr(load_inputs) /\ rules = load_inputs.rules
  BY DEF CInv, Running
<1> QED
  BY <1>1, LoadedGuards

\* Which rules a running client has.
LEMMA RunningRules ==
    ASSUME CInv, Running
    PROVE  /\ file.form \in {"unreadable", "garbage"} => rules = <<>>
           /\ file.form = "raw" => rules = file.rules
           /\ file.form = "semantic" =>
                IF parse_semantic(file) /\ ~IsErr(compile(file)) THEN rules = compile(file).rules
                ELSE rules = <<>> \/ (~IsErr(from_toml(file)) /\ rules = from_toml(file).rules)
  BY RunningHasLoaded, LoadedByForm

-----------------------------------------------------------------------------
(* What runs, against the file.                                            *)

\* The rules of a file that does not compile have no triggers.
LEMMA InertRules ==
    ASSUME CInv, Running, file.form \in {"semantic", "unreadable", "garbage"},
           ~(parse_semantic(file) /\ ~IsErr(compile(file)))
    PROVE  \A i \in DOMAIN rules : Triggers(rules[i].when) = {} /\ ~Holds(i)
<1>1. CASE rules = <<>>
  BY <1>1
<1>2. CASE rules # <<>>
  <2>1. file.form = "semantic" /\ ~IsErr(from_toml(file)) /\ rules = from_toml(file).rules
    BY <1>2, RunningRules
  <2>2. \A i \in DOMAIN rules : rules[i].when = When(<<>>, <<>>)
    BY <2>1, RunningHasLoaded, RawOfSemantic
  <2>3. ~GuardHolds(When(<<>>, <<>>), latest, zones)
    BY DEF GuardHolds, When
  <2> QED
    BY <2>2, <2>3, EmptyGuard DEF Holds
<1> QED
  BY <1>1, <1>2

\* A document that does not compile fires nothing, on any samples (runtime.rs,
\* compile_rules_or_default; engine.rs, when_satisfied_with_prev).
THEOREM InertWithoutCompile == Spec => []FailedCompileIsInert
<1>1. CInv => FailedCompileIsInert
  BY InertRules DEF FailedCompileIsInert
<1> QED
  BY <1>1, ClientInvariant, PTL

\* An action that passes validation compiles or has a topic out of the contract.
LEMMA CompiledAction ==
    ASSUME NEW a, ~IsErr(try_from_action(a)), IsErr(compile_action(a))
    PROVE  compile_action(a) = Err("InvalidTopic")
<1> DEFINE V == DOMAIN a \cap Verbs
<1>1. Cardinality(V) = 1
  <2>1. Cardinality(V) # 1 => try_from_action(a) = Err("NoActionVerb")
    BY DEF try_from_action
  <2> QED
    BY <2>1, ErrIsErr
<1>2. V # {}
  BY <1>1, FS_EmptySet
<1>3. \A topic, payload : ~IsErr(Action(topic, payload))
  BY DEF Action, IsErr
<1>4. CASE "estop" \in DOMAIN a
  BY <1>3, <1>4 DEF compile_action
<1>5. CASE "resume" \in DOMAIN a
  BY <1>3, <1>5 DEF compile_action
<1>6. CASE "slow_to" \in DOMAIN a
  BY <1>3, <1>6 DEF compile_action
<1>7. CASE "topic" \in DOMAIN a
  BY <1>3, <1>7 DEF compile_action
<1> QED
  BY <1>2, <1>4, <1>5, <1>6, <1>7 DEF Verbs

\* What passes validation fails to compile for three reasons only: no [site].id, a
\* nesting that cannot be lowered, an action topic out of the contract (semantic.rs,
\* compile).
THEOREM CompileErrors ==
    ASSUME IsFile(file), file.form = "semantic", ~IsErr(validate(file)), IsErr(compile(file))
    PROVE  compile(file).err \in {"MissingField", "UnrepresentableNesting", "InvalidTopic"}
<1> DEFINE rs == [i \in DOMAIN file.rules |-> compile_rule(file.rules[i])]
<1>1. CASE ~file.site
  <2>1. compile(file) = Err("MissingField")
    BY <1>1 DEF compile
  <2> QED
    BY <2>1, ErrIsErr
<1>2. CASE file.site
  <2>1. compile(file) = IF Failed(rs) # {} THEN FirstErr(rs) ELSE [rules |-> rs]
    BY <1>2 DEF compile
  <2>2. ~IsErr([rules |-> rs])
    BY DEF IsErr
  <2>3. DOMAIN rs \subseteq Nat
    BY ListDomain DEF IsFile
  <2>4. DOMAIN rs = DOMAIN file.rules /\ \A i \in DOMAIN file.rules : rs[i] = compile_rule(file.rules[i])
    OBVIOUS
  <2> HIDE DEF rs
  <2>5. PICK i \in Failed(rs) : compile(file) = rs[i] /\ IsErr(rs[i])
    BY <2>1, <2>2, <2>3, FirstErrIsOne
  <2> DEFINE rule == file.rules[i]
             when == lower(build_when_expr(rule.when))
             actions == [j \in DOMAIN rule.actions |-> compile_action(rule.actions[j])]
  <2>6. i \in DOMAIN file.rules /\ compile(file) = compile_rule(rule) /\ IsErr(compile_rule(rule))
    BY <2>4, <2>5 DEF Failed
  <2>7. /\ rule.when \in Valid /\ IsList(rule.actions)
        /\ \A j \in DOMAIN rule.actions : ~IsErr(try_from_action(rule.actions[j]))
    BY <2>6, Validated
  <2>8. compile_rule(rule) = IF IsErr(when) THEN when
                             ELSE IF Failed(actions) # {} THEN FirstErr(actions)
                             ELSE [when |-> when, actions |-> actions]
    BY DEF compile_rule
  <2>9. build_when_expr(rule.when) \in Exprs
    BY <2>7 DEF Exprs, Parts, Valid
  <2>10. CASE IsErr(when)
    <3>1. when \in Lowered
      BY <2>9, LowerExpr DEF lower
    <3>2. compile(file) = Err("UnrepresentableNesting")
      BY <2>6, <2>8, <2>10, <3>1, LoweredShape
    <3> QED
      BY <3>2, ErrIsErr
  <2>11. CASE ~IsErr(when)
    <3>1. DOMAIN actions = DOMAIN rule.actions /\ DOMAIN rule.actions \subseteq Nat
      BY <2>7, ListDomain
    <3>2. \A j \in DOMAIN rule.actions : actions[j] = compile_action(rule.actions[j])
      OBVIOUS
    <3>3. ~IsErr([when |-> when, actions |-> actions])
      BY DEF IsErr
    <3> HIDE DEF actions, when, rule
    <3>4. Failed(actions) # {} /\ compile(file) = FirstErr(actions)
      BY <2>6, <2>8, <2>11, <3>3
    <3>5. PICK j \in Failed(actions) : FirstErr(actions) = actions[j] /\ IsErr(actions[j])
      BY <3>1, <3>4, FirstErrIsOne
    <3>6. j \in DOMAIN rule.actions
      BY <3>1, <3>5 DEF Failed
    <3>7. actions[j] = Err("InvalidTopic")
      BY <2>7, <3>2, <3>5, <3>6, CompiledAction
    <3> QED
      BY <3>4, <3>5, <3>7, ErrIsErr
  <2> QED
    BY <2>10, <2>11
<1> QED
  BY <1>1, <1>2

\* A client runs the rules that `flo rule check` accepted, each with a condition of its
\* own, or none that could fire, whatever the file (cli.rs, the rule check; semantic.rs,
\* validate and compile; runtime.rs, compile_rules_or_default).
THEOREM CheckedRuns == Spec => []CheckedIsWhatRuns
<1>1. CInv => CheckedIsWhatRuns
  <2> SUFFICES ASSUME CInv, Running, file.form \notin {"absent", "unreadable"}, rule_check(file)
               PROVE  \/ /\ DOMAIN rules = DOMAIN file.rules
                         /\ \A i \in DOMAIN rules : Triggers(rules[i].when) # {}
                      \/ \A i \in DOMAIN rules : Triggers(rules[i].when) = {}
    BY DEF CheckedIsWhatRuns, CheckedFile, Running
  <2>0. IsFile(file)
    BY DEF CInv
  <2>1. CASE file.form = "garbage"
    <3>1. IsErr(from_toml(file))
      BY <2>1, ErrIsErr DEF from_toml
    <3> QED
      BY <2>1, <3>1 DEF rule_check, parse_semantic_auto, ParsesAs
  <2>2. CASE file.form = "raw"
    <3>1. from_toml(file) = [rules |-> file.rules]
      BY <2>2 DEF from_toml
    <3>2. from_toml(file).rules = file.rules
      BY <3>1
    <3>3. \A i \in DOMAIN file.rules : Triggers(file.rules[i].when) # {}
      BY <2>2, <3>2 DEF rule_check, parse_semantic_auto, ParsesAs
    <3> QED
      BY <2>2, <3>3, RunningRules
  <2>3. CASE file.form = "semantic"
    <3>1. CASE parse_semantic(file) /\ ~IsErr(compile(file))
      <4>1. rules = compile(file).rules
        BY <2>3, <3>1, RunningRules
      <4> QED
        BY <2>0, <2>3, <3>1, <4>1, Compiled, LowerHasTriggers
    <3>2. CASE ~(parse_semantic(file) /\ ~IsErr(compile(file)))
      BY <2>3, <3>2, InertRules
    <3> QED
      BY <3>1, <3>2
  <2> QED
    BY <2>0, <2>1, <2>2, <2>3 DEF IsFile
<1> QED
  BY <1>1, ClientInvariant, PTL

-----------------------------------------------------------------------------
(* What the guards mean.                                                   *)

LEMMA GuardSeqs ==
    ASSUME NEW when, IsGuard(when)
    PROVE  /\ when.all \in Seq(Triggers(when)) /\ when.any \in Seq(Triggers(when))
           /\ (when.any = <<>> <=> ToSet(when.any) = {})
           /\ \A t \in Triggers(when) : t.pred \in Preds \cup {NoPred}
<1>1. when.all \in Seq(ToSet(when.all)) /\ when.any \in Seq(ToSet(when.any))
  BY DEF IsGuard, IsList
<1>2. ToSet(when.all) \subseteq Triggers(when) /\ ToSet(when.any) \subseteq Triggers(when)
  BY DEF Triggers
<1>3. when.all \in Seq(Triggers(when)) /\ when.any \in Seq(Triggers(when))
  BY <1>1, <1>2, SeqMonotonic
<1> QED
  BY <1>1, <1>3, ToSetEmpty DEF IsGuard

LEMMA TriggerAgrees ==
    ASSUME NEW t, t.pred \in Preds \cup {NoPred}
    PROVE  /\ MeaningOfTrigger(t) \in Verdicts
           /\ NotFree(t.pred) =>
                (trigger_matches(t, latest, zones) <=> MeaningOfTrigger(t) = "holds")
<1>1. \A payload : Meaning(t.pred, payload, zones) \in Verdicts
  <2>1. CASE t.pred \in Preds
    BY <2>1, MeaningTree
  <2>2. CASE t.pred = NoPred
    BY <2>2 DEF Meaning, Verdicts
  <2> QED
    BY <2>1, <2>2
<1>2. MeaningOfTrigger(t) \in Verdicts
  BY <1>1 DEF MeaningOfTrigger, Verdicts
<1>3. ASSUME NotFree(t.pred)
      PROVE  trigger_matches(t, latest, zones) <=> MeaningOfTrigger(t) = "holds"
  BY <1>3, EvalAgrees DEF trigger_matches, MeaningOfTrigger
<1> QED
  BY <1>2, <1>3

LEMMA GuardMeaning ==
    ASSUME NEW when, IsGuard(when)
    PROVE  MeaningOfGuard(when) = "holds" <=>
                /\ \A t \in ToSet(when.all) : MeaningOfTrigger(t) = "holds"
                /\ \/ ToSet(when.any) = {}
                   \/ \E t \in ToSet(when.any) : MeaningOfTrigger(t) = "holds"
<1> DEFINE A == {MeaningOfTrigger(t) : t \in ToSet(when.all)}
           B == {MeaningOfTrigger(t) : t \in ToSet(when.any)}
           C == A \cup (IF when.any = <<>> THEN {} ELSE {SomeOf(B)})
<1>1. \A t \in Triggers(when) : MeaningOfTrigger(t) \in Verdicts
  BY GuardSeqs, TriggerAgrees
<1>2. A \subseteq Verdicts
  BY <1>1 DEF Triggers
<1>3. SomeOf(B) \in Verdicts /\ (SomeOf(B) = "holds" <=> "holds" \in B)
  BY DEF SomeOf, Verdicts
<1>4. C \subseteq Verdicts
  BY <1>2, <1>3
<1>5. MeaningOfGuard(when) = "holds" <=> \A v \in C : v = "holds"
  <2>1. MeaningOfGuard(when) = EveryOf(C)
    BY DEF MeaningOfGuard
  <2> HIDE DEF C
  <2> QED
    BY <1>4, <2>1 DEF EveryOf, Verdicts
<1>6. (\A v \in C : v = "holds") <=>
            (\A v \in A : v = "holds") /\ (when.any = <<>> \/ SomeOf(B) = "holds")
  OBVIOUS
<1>7. (\A v \in A : v = "holds") <=> \A t \in ToSet(when.all) : MeaningOfTrigger(t) = "holds"
  OBVIOUS
<1>8. "holds" \in B <=> \E t \in ToSet(when.any) : MeaningOfTrigger(t) = "holds"
  OBVIOUS
<1> HIDE DEF A, B, C
<1> QED
  BY <1>3, <1>5, <1>6, <1>7, <1>8, GuardSeqs

\* Without Not, a guard holds exactly where the three-valued reference does, for every
\* rule a client may have and all samples: what is absent never makes it true, however
\* deep its predicates nest (engine.rs, eval_tree and when_satisfied_with_prev).
THEOREM GuardsAgree == Spec => []AgreesWithReference
<1>1. CInv => AgreesWithReference
  <2> SUFFICES ASSUME CInv, Running, NEW i \in DOMAIN rules, GuardNotFree(rules[i].when)
               PROVE  Holds(i) <=>
                        (Triggers(rules[i].when) # {} /\ MeaningOfGuard(rules[i].when) = "holds")
    BY DEF AgreesWithReference
  <2> DEFINE when == rules[i].when
  <2>1. IsGuard(when)
    BY RunningHasLoaded
  <2> HIDE DEF when
  <2>2. \A t \in Triggers(when) : trigger_matches(t, latest, zones) <=> MeaningOfTrigger(t) = "holds"
    BY <2>1, GuardSeqs, TriggerAgrees DEF GuardNotFree, when
  <2>3. ToSet(when.all) \subseteq Triggers(when) /\ ToSet(when.any) \subseteq Triggers(when)
    BY DEF Triggers
  <2>4. GuardHolds(when, latest, zones) <=>
            /\ Triggers(when) # {}
            /\ \A t \in ToSet(when.all) : trigger_matches(t, latest, zones)
            /\ ToSet(when.any) = {} \/ \E t \in ToSet(when.any) : trigger_matches(t, latest, zones)
    BY <2>1, GuardSeqs, HoldsBySets
  <2>5. GuardHolds(when, latest, zones) <=> (Triggers(when) # {} /\ MeaningOfGuard(when) = "holds")
    BY <2>1, <2>2, <2>3, <2>4, GuardMeaning
  <2> QED
    BY <2>5 DEF Holds, when
<1> QED
  BY <1>1, ClientInvariant, PTL

\* Fewer samples, with fewer fields, satisfy no guard without Not that more did not.
LEMMA HoldsMonotone ==
    ASSUME NEW when, IsGuard(when), GuardNotFree(when), NEW less, NEW more, NEW z,
           DOMAIN less \subseteq DOMAIN more, \A u \in DOMAIN less : Lesser(less[u], more[u]),
           GuardHolds(when, less, z)
    PROVE  GuardHolds(when, more, z)
<1>1. ASSUME NEW t \in Triggers(when), trigger_matches(t, less, z) PROVE trigger_matches(t, more, z)
  <2>1. t.topic \in DOMAIN less /\ eval_predicate(t.pred, less[t.topic], z)
    BY <1>1 DEF trigger_matches
  <2>2. t.pred \in Preds \cup {NoPred} /\ NotFree(t.pred)
    BY GuardSeqs DEF GuardNotFree
  <2>3. eval_predicate(t.pred, more[t.topic], z)
    BY <2>1, <2>2, EvalMonotone
  <2> QED
    BY <2>1, <2>3 DEF trigger_matches
<1>2. ToSet(when.all) \subseteq Triggers(when) /\ ToSet(when.any) \subseteq Triggers(when)
  BY DEF Triggers
<1>3. when.all \in Seq(Triggers(when)) /\ when.any \in Seq(Triggers(when))
  BY GuardSeqs
<1>4. /\ Triggers(when) # {}
      /\ \A t \in ToSet(when.all) : trigger_matches(t, less, z)
      /\ ToSet(when.any) = {} \/ \E t \in ToSet(when.any) : trigger_matches(t, less, z)
  BY <1>3, HoldsBySets
<1>5. /\ \A t \in ToSet(when.all) : trigger_matches(t, more, z)
      /\ ToSet(when.any) = {} \/ \E t \in ToSet(when.any) : trigger_matches(t, more, z)
  BY <1>1, <1>2, <1>4
<1> QED
  BY <1>3, <1>4, <1>5, HoldsBySets

\* Losing fields and samples turns no guard without Not from false to true, whatever
\* the rules and the samples (engine.rs, eval_tree's "failing closed").
THEOREM DegradationIsSafe == Spec => DegradationNeverEnables
<1> DEFINE Enables == Running => \A i \in DOMAIN rules :
                        GuardNotFree(rules[i].when) /\ ~Holds(i) => ~Holds(i)'
<1>1. CInv /\ [Next]_vars => [Enables]_vars
  <2> SUFFICES ASSUME CInv, Next, Running, NEW i \in DOMAIN rules,
                      GuardNotFree(rules[i].when), Holds(i)'
               PROVE  Holds(i)
    OBVIOUS
  <2>1. ~StartupNext
    BY DEF Running, StartupNext, Authenticate, BuildConfig, ServerConfig, LoadInputs, OpenSession,
           Open, DeclareToken, StartEngine
  <2>2. PICK t \in DOMAIN latest : LoseTopic(t) \/ \E f \in DOMAIN latest[t] : LoseField(t, f)
    BY <2>1 DEF Next
  <2>3. rules' = rules /\ zones' = zones
    BY <2>2 DEF LoseTopic, LoseField, startVars
  <2>4. DOMAIN latest' \subseteq DOMAIN latest /\ \A u \in DOMAIN latest' : Lesser(latest'[u], latest[u])
    BY <2>2, LoseTopicIsLesser, LoseFieldIsLesser
  <2>5. IsGuard(rules[i].when)
    BY RunningHasLoaded
  <2>6. GuardHolds(rules[i].when, latest', zones)
    BY <2>3 DEF Holds
  <2> QED
    BY <2>4, <2>5, <2>6, HoldsMonotone DEF Holds
<1> QED
  BY <1>1, ClientInvariant, PTL DEF Spec, DegradationNeverEnables

\* Where the meaning of a condition holds.
LEMMA WhenMeaning ==
    ASSUME NEW w \in Whens
    PROVE  MeaningOfWhen(w) = "holds" <=>
                /\ \A key \in DOMAIN w.flat : MeaningOfKey(key, w.flat[key]) = "holds"
                /\ \A i \in DOMAIN w.all : MeaningOfWhen(w.all[i]) = "holds"
                /\ w.any = <<>> \/ \E i \in DOMAIN w.any : MeaningOfWhen(w.any[i]) = "holds"
<1> DEFINE Flat(x) == {MeaningOfKey(key, x.flat[key]) : key \in DOMAIN x.flat}
           Blocks(f, x) == {f[x.all[i]] : i \in DOMAIN x.all}
           Alts(f, x) == {f[x.any[i]] : i \in DOMAIN x.any}
           Set(f, x) == Flat(x) \cup Blocks(f, x)
                        \cup (IF x.any = <<>> THEN {} ELSE {SomeOf(Alts(f, x))})
           Step(f, x) == EveryOf(Set(f, x))
           F == [f \in [Whens -> Verdicts] |-> [x \in Whens |-> Step(f, x)]]
           m == CHOOSE f : f = [x \in Whens |-> Step(f, x)]
<1>0. \A S : EveryOf(S) \in Verdicts /\ SomeOf(S) \in Verdicts /\ (SomeOf(S) = "holds" <=> "holds" \in S)
  BY DEF EveryOf, SomeOf, Verdicts
<1>1. ASSUME NEW f, NEW g, NEW x \in Whens, \A y \in Whens : Depth[y] < Depth[x] => f[y] = g[y]
      PROVE  Step(f, x) = Step(g, x)
  <2>1. \A i \in DOMAIN x.all : f[x.all[i]] = g[x.all[i]]
    BY <1>1, WhenShape
  <2>2. \A i \in DOMAIN x.any : f[x.any[i]] = g[x.any[i]]
    BY <1>1, WhenShape
  <2>3. Blocks(f, x) = Blocks(g, x) /\ Alts(f, x) = Alts(g, x)
    BY <2>1, <2>2
  <2> HIDE DEF Blocks, Alts, Flat
  <2> QED
    BY <2>3
<1>2. \A f, x : Step(f, x) \in Verdicts
  BY <1>0
<1>3. Recursion(Whens, Verdicts, Depth, F)
  <2> HIDE DEF Step
  <2>1. F \in [[Whens -> Verdicts] -> [Whens -> Verdicts]]
    BY <1>2
  <2>2. ASSUME NEW f \in [Whens -> Verdicts], NEW g \in [Whens -> Verdicts], NEW x \in Whens,
               \A y \in Whens : Depth[y] < Depth[x] => f[y] = g[y]
        PROVE  F[f][x] = F[g][x]
    BY <1>1, <2>2
  <2> QED
    BY <2>1, <2>2, WhenConstants DEF Recursion
<1>4. PICK f \in [Whens -> Verdicts] : F[f] = f
  <2>1. [x \in Whens |-> "holds"] \in [Whens -> Verdicts]
    BY DEF Verdicts
  <2>2. [Whens -> Verdicts] # {}
    BY <2>1
  <2> HIDE DEF F
  <2> QED
    BY <1>3, <2>2, FixedPoint
<1>5. f = [x \in Whens |-> Step(f, x)]
  BY <1>4
<1>6. m = [x \in Whens |-> Step(m, x)]
  <2> HIDE DEF Step
  <2> QED
    BY <1>5
<1>7. \A x : MeaningOfWhen(x) = m[x]
  BY DEF MeaningOfWhen
<1> HIDE DEF m
<1>8. \A x \in Whens : m[x] = Step(m, x) /\ m[x] \in Verdicts
  <2> HIDE DEF Step
  <2> QED
    BY <1>2, <1>6
<1>9. Set(m, w) \subseteq Verdicts
  <2>1. Flat(w) \subseteq Verdicts
    <3>1. \A known, holds : Verdict(known, holds) \in Verdicts
      BY DEF Verdict, Verdicts
    <3>2. \A key \in ToSet(Keys) : key \in {"in_zone", "not_in_zone", "near_human", "not_near_human", "near", "role"}
      BY DEF ToSet, Keys
    <3>3. \A key \in DOMAIN w.flat : MeaningOfKey(key, w.flat[key]) \in Verdicts
      <4> TAKE key \in DOMAIN w.flat
      <4>1. key \in ToSet(Keys)
        BY WhenConstants
      <4> QED
        BY <3>1, <3>2, <4>1 DEF MeaningOfKey
    <3> QED
      BY <3>3
  <2>2. Blocks(m, w) \subseteq Verdicts
    BY <1>8, WhenShape
  <2> HIDE DEF Flat, Blocks, Alts
  <2> QED
    BY <1>0, <2>1, <2>2
<1>10. MeaningOfWhen(w) = "holds" <=> \A v \in Set(m, w) : v = "holds"
  <2>1. MeaningOfWhen(w) = EveryOf(Set(m, w))
    BY <1>7, <1>8
  <2> HIDE DEF Set
  <2> QED
    BY <1>9, <2>1 DEF EveryOf, Verdicts
<1>11. (\A v \in Set(m, w) : v = "holds") <=>
            /\ \A v \in Flat(w) : v = "holds"
            /\ \A v \in Blocks(m, w) : v = "holds"
            /\ w.any = <<>> \/ "holds" \in Alts(m, w)
  <2> HIDE DEF Flat, Blocks, Alts
  <2> QED
    BY <1>0
<1>12. (\A v \in Flat(w) : v = "holds") <=>
            \A key \in DOMAIN w.flat : MeaningOfKey(key, w.flat[key]) = "holds"
  OBVIOUS
<1>13. (\A v \in Blocks(m, w) : v = "holds") <=> \A i \in DOMAIN w.all : MeaningOfWhen(w.all[i]) = "holds"
  BY <1>7
<1>14. "holds" \in Alts(m, w) <=> \E i \in DOMAIN w.any : MeaningOfWhen(w.any[i]) = "holds"
  BY <1>7
<1> HIDE DEF Set, Flat, Blocks, Alts
<1> QED
  BY <1>10, <1>11, <1>12, <1>13, <1>14

\* The samples that LoweringIsExact is about.
ZoneKnown == T("zone") \in DOMAIN latest => "zone_id" \in DOMAIN latest[T("zone")]
Matches(t) == trigger_matches(t, latest, zones)

\* What a payload has of a field.
LEMMA Got ==
    ASSUME NEW p, IsPayload(p), NEW f
    PROVE  /\ f \in DOMAIN p => Get(p, f) = p[f] /\ p[f] # NoValue /\ p[f].v \in Int
           /\ f \notin DOMAIN p => Get(p, f) = NoValue
  BY DEF Get, IsPayload, NoValue, Value

\* A comparison in a sample.
LEMMA LeafMatches ==
    ASSUME NEW topic, NEW mode, NEW op, NEW lhs, NEW arg, Comparison(op, lhs, Lit(arg)) \in Preds
    PROVE  Matches(Trigger(topic, Comparison(op, lhs, Lit(arg)), mode)) <=>
                /\ topic \in DOMAIN latest
                /\ resolve_operand(lhs, latest[topic]) # NoValue /\ arg # NoValue
                /\ eval_comparison(op, resolve_operand(lhs, latest[topic]), arg, zones)
<1> DEFINE pred == Comparison(op, lhs, Lit(arg))
           t == Trigger(topic, pred, mode)
<1>1. pred.node = "Comparison" /\ pred.op = op /\ pred.lhs = lhs /\ pred.rhs = Lit(arg)
  BY DEF Comparison
<1>2. t.topic = topic /\ t.pred = pred
  BY DEF Trigger
<1>3. \A payload : resolve_operand(Lit(arg), payload) = arg
  BY DEF resolve_operand, Lit
<1> HIDE DEF pred, t
<1>4. pred \in Preds
  BY DEF pred
<1>5. \A payload : eval_predicate(pred, payload, zones) <=> compares(pred, payload, zones)
  BY <1>1, <1>4, EvalTree DEF eval_predicate
<1>6. \A payload : compares(pred, payload, zones) <=>
            /\ resolve_operand(lhs, payload) # NoValue /\ arg # NoValue
            /\ eval_comparison(op, resolve_operand(lhs, payload), arg, zones)
  BY <1>1, <1>3 DEF compares
<1>7. Matches(t) <=> topic \in DOMAIN latest /\ eval_predicate(pred, latest[topic], zones)
  BY <1>2 DEF Matches, trigger_matches
<1> QED
  BY <1>5, <1>6, <1>7 DEF pred, t

\* The primitives of the compiled conditions read one field each.
LEMMA PrimReads ==
    ASSUME NEW payload
    PROVE  /\ resolve_operand(Prim("Zone"), payload) = Get(payload, "zone_id")
           /\ resolve_operand(Prim("Robot"), payload) = Get(payload, "role")
           /\ resolve_operand(Prim("HumanPresence"), payload) = Get(payload, "separation_distance")
           /\ \A id : resolve_operand(Proximity(id), payload) =
                        IF Get(payload, "peer_id") # id THEN NoValue
                        ELSE Get(payload, "separation_distance")
  BY DEF resolve_operand, Prim, Proximity, prim_field

\* An equality with a name.
LEMMA EqHolds ==
    ASSUME NEW a, NEW b, b.t = "str"
    PROVE  eval_comparison("Eq", a, b, zones) <=> a = b
  BY DEF eval_comparison, values_equal

\* An order on distances.
LEMMA OrderHolds ==
    ASSUME NEW a, NEW b, a # NoValue, a.v \in Int, IsDistance(b), b # NoValue
    PROVE  /\ eval_comparison("Lt", a, b, zones) <=> a.t = "num" /\ a.v < b.v
           /\ eval_comparison("Ge", a, b, zones) <=> a.t = "num" /\ a.v >= b.v
<1>1. b.t = "num" /\ b.v \in Int
  BY DEF IsDistance
<1>2. json_cmp(a, b) = IF a.t # "num" THEN "None" ELSE IF a.v < b.v THEN "Less"
                       ELSE IF a.v > b.v THEN "Greater" ELSE "Equal"
  BY <1>1 DEF json_cmp
<1> QED
  BY <1>1, <1>2 DEF eval_comparison

\* A condition key is compiled to a trigger that matches where the key's meaning holds.
LEMMA KeyIsExact ==
    ASSUME CInv, ZoneKnown, NEW key, NEW arg, key \in ToSet(Keys), IsArgument(key, arg),
           trigger_of(key, arg).pred \in Preds
    PROVE  Matches(trigger_of(key, arg)) <=> MeaningOfKey(key, arg) = "holds"
<1>1. \A t \in DOMAIN latest : IsPayload(latest[t])
  BY DEF CInv
<1>2. \A x : x.t = "str" => x # NoValue
  BY DEF NoValue, Value
<1> DEFINE P(resource) == latest[T(resource)]
           zone == Comparison("Eq", Prim("Zone"), Lit(arg))
<1>3. CASE key = "in_zone"
  <2>1. trigger_of(key, arg) = Trigger(T("zone"), zone, "Edge") /\ arg.t = "str"
    BY <1>3 DEF trigger_of, T, IsArgument
  <2>2. trigger_of(key, arg).pred = zone
    BY <2>1 DEF Trigger
  <2>3. Matches(trigger_of(key, arg)) <=>
            /\ T("zone") \in DOMAIN latest
            /\ Get(P("zone"), "zone_id") # NoValue /\ Get(P("zone"), "zone_id") = arg
    BY <1>2, <2>1, <2>2, LeafMatches, PrimReads, EqHolds
  <2>4. MeaningOfKey(key, arg) = Verdict(Known("zone", "zone_id"), Sensed("zone", "zone_id") = arg)
    BY <1>3 DEF MeaningOfKey
  <2>5. T("zone") \in DOMAIN latest => IsPayload(P("zone"))
    BY <1>1
  <2> HIDE DEF zone
  <2> QED
    BY <2>3, <2>4, <2>5, Got DEF Known, Sensed, Verdict
<1>4. CASE key = "not_in_zone"
  <2>1. trigger_of(key, arg) = Trigger(T("zone"), Not(zone), "Edge") /\ arg.t = "str"
    BY <1>4 DEF trigger_of, T, IsArgument
  <2>2. Not(zone) \in Preds /\ Not(zone).node = "Not" /\ Not(zone).kids[1] = zone
    BY <2>1 DEF Trigger, Not
  <2>3. zone \in Preds
    BY <2>2, TreeShape
  <2>4. \A payload : eval_predicate(Not(zone), payload, zones) <=> ~eval_predicate(zone, payload, zones)
    <3>1. \A payload : eval_tree(Not(zone), payload, zones) <=> ~eval_tree(zone, payload, zones)
      BY <2>2, EvalTree
    <3> QED
      BY <2>2, <2>3, <3>1, TreeShape DEF eval_predicate
  <2>5. Matches(trigger_of(key, arg)) <=>
            T("zone") \in DOMAIN latest /\ ~Matches(Trigger(T("zone"), zone, "Edge"))
    BY <2>1, <2>4 DEF Matches, trigger_matches, Trigger
  <2>6. Matches(Trigger(T("zone"), zone, "Edge")) <=>
            /\ T("zone") \in DOMAIN latest
            /\ Get(P("zone"), "zone_id") # NoValue /\ Get(P("zone"), "zone_id") = arg
    BY <1>2, <2>1, <2>3, LeafMatches, PrimReads, EqHolds
  <2>7. MeaningOfKey(key, arg) = Verdict(Known("zone", "zone_id"), Sensed("zone", "zone_id") # arg)
    BY <1>4 DEF MeaningOfKey
  <2>8. T("zone") \in DOMAIN latest => IsPayload(P("zone")) /\ "zone_id" \in DOMAIN P("zone")
    BY <1>1 DEF ZoneKnown
  <2> HIDE DEF zone
  <2> QED
    BY <2>5, <2>6, <2>7, <2>8, Got DEF Known, Sensed, Verdict
<1>5. ASSUME NEW op \in {"Lt", "Ge"},
             key = (IF op = "Lt" THEN "near_human" ELSE "not_near_human")
      PROVE  Matches(trigger_of(key, arg)) <=> MeaningOfKey(key, arg) = "holds"
  <2> DEFINE pred == Comparison(op, Prim("HumanPresence"), Lit(arg))
             topic == T("human_present")
             d == Sensed("human_present", "separation_distance")
             less == IF op = "Lt" THEN d.v < arg.v ELSE d.v >= arg.v
  <2>1. trigger_of(key, arg) = Trigger(topic, pred, "Level") /\ IsDistance(arg)
    BY <1>5 DEF trigger_of, T, IsArgument
  <2>2. pred \in Preds
    BY <2>1 DEF Trigger
  <2>3. Matches(trigger_of(key, arg)) <=>
            /\ topic \in DOMAIN latest
            /\ Get(latest[topic], "separation_distance") # NoValue /\ arg # NoValue
            /\ eval_comparison(op, Get(latest[topic], "separation_distance"), arg, zones)
    BY <2>1, <2>2, LeafMatches, PrimReads
  <2>4. MeaningOfKey(key, arg) = "holds" <=> Measured("human_present", arg) /\ less
    <3>1. CASE op = "Lt"
      <4>1. MeaningOfKey(key, arg) = Verdict(Measured("human_present", arg), d.v < arg.v)
        BY <1>5, <3>1 DEF MeaningOfKey
      <4> QED
        BY <3>1, <4>1 DEF Verdict
    <3>2. CASE op = "Ge"
      <4>1. MeaningOfKey(key, arg) = Verdict(Measured("human_present", arg), d.v >= arg.v)
        BY <1>5, <3>2 DEF MeaningOfKey
      <4> QED
        BY <3>2, <4>1 DEF Verdict
    <3> QED
      BY <3>1, <3>2
  <2>5. topic \in DOMAIN latest => IsPayload(latest[topic])
    BY <1>1
  <2>6. Measured("human_present", arg) <=>
            /\ topic \in DOMAIN latest /\ "separation_distance" \in DOMAIN latest[topic]
            /\ d.t = "num" /\ arg # NoValue
    BY DEF Measured, Known
  <2>7. d = latest[topic]["separation_distance"]
    BY DEF Sensed
  <2>8. ASSUME topic \in DOMAIN latest, "separation_distance" \in DOMAIN latest[topic], arg # NoValue
        PROVE  eval_comparison(op, d, arg, zones) <=> d.t = "num" /\ less
    <3>1. d # NoValue /\ d.v \in Int
      BY <2>5, <2>7, <2>8, Got
    <3> HIDE DEF d
    <3> QED
      BY <1>5, <2>1, <2>8, <3>1, OrderHolds
  <2> HIDE DEF pred, topic, d, less
  <2>9. topic \in DOMAIN latest =>
            IF "separation_distance" \in DOMAIN latest[topic]
            THEN Get(latest[topic], "separation_distance") = d /\ d # NoValue
            ELSE Get(latest[topic], "separation_distance") = NoValue
    BY <2>5, <2>7, Got
  <2> QED
    BY <2>3, <2>4, <2>6, <2>8, <2>9
<1>6. CASE key = "near"
  <2> DEFINE pred == Comparison("Lt", Proximity(arg.entity), Lit(arg.dist))
             topic == T("proximity")
             peer == Sensed("proximity", "peer_id")
             d == Sensed("proximity", "separation_distance")
  <2>1. /\ trigger_of(key, arg) = Trigger(topic, pred, "Level")
        /\ IsDistance(arg.dist) /\ arg.entity.t = "str"
    BY <1>6 DEF trigger_of, T, IsArgument
  <2>2. pred \in Preds
    BY <2>1 DEF Trigger
  <2> DEFINE got == IF Get(latest[topic], "peer_id") # arg.entity THEN NoValue
                    ELSE Get(latest[topic], "separation_distance")
  <2>3. Matches(trigger_of(key, arg)) <=>
            /\ topic \in DOMAIN latest
            /\ got # NoValue /\ arg.dist # NoValue
            /\ eval_comparison("Lt", got, arg.dist, zones)
    BY <2>1, <2>2, LeafMatches, PrimReads
  <2>4. MeaningOfKey(key, arg) = "holds" <=>
            /\ Known("proximity", "peer_id") /\ peer = arg.entity
            /\ Measured("proximity", arg.dist) /\ d.v < arg.dist.v
    <3>1. MeaningOfKey(key, arg) =
            Verdict(Known("proximity", "peer_id") /\ peer = arg.entity /\ Measured("proximity", arg.dist),
                    d.v < arg.dist.v)
      BY <1>6 DEF MeaningOfKey
    <3> QED
      BY <3>1 DEF Verdict
  <2>5. topic \in DOMAIN latest => IsPayload(latest[topic])
    BY <1>1
  <2>6. Measured("proximity", arg.dist) <=>
            /\ topic \in DOMAIN latest /\ "separation_distance" \in DOMAIN latest[topic]
            /\ d.t = "num" /\ arg.dist # NoValue
    BY DEF Measured, Known
  <2>7. /\ d = latest[topic]["separation_distance"] /\ peer = latest[topic]["peer_id"]
        /\ Known("proximity", "peer_id") <=> topic \in DOMAIN latest /\ "peer_id" \in DOMAIN latest[topic]
    BY DEF Sensed, Known
  <2>8. arg.entity # NoValue
    BY <1>2, <2>1
  <2>9. ASSUME topic \in DOMAIN latest, "separation_distance" \in DOMAIN latest[topic], arg.dist # NoValue
        PROVE  eval_comparison("Lt", d, arg.dist, zones) <=> d.t = "num" /\ d.v < arg.dist.v
    <3>1. d # NoValue /\ d.v \in Int
      BY <2>5, <2>7, <2>9, Got
    <3> HIDE DEF d
    <3> QED
      BY <2>1, <2>9, <3>1, OrderHolds
  <2> HIDE DEF pred, topic, d, peer
  <2>10. topic \in DOMAIN latest =>
            /\ IF "separation_distance" \in DOMAIN latest[topic]
               THEN Get(latest[topic], "separation_distance") = d /\ d # NoValue
               ELSE Get(latest[topic], "separation_distance") = NoValue
            /\ Get(latest[topic], "peer_id") = arg.entity <=>
                    "peer_id" \in DOMAIN latest[topic] /\ peer = arg.entity
    BY <2>5, <2>7, <2>8, Got
  <2> QED
    BY <2>3, <2>4, <2>6, <2>7, <2>9, <2>10
<1>7. CASE key = "role"
  <2> DEFINE pred == Comparison("Eq", Prim("Robot"), Lit(arg))
  <2>1. trigger_of(key, arg) = Trigger(T("role"), pred, "Edge") /\ arg.t = "str"
    BY <1>7 DEF trigger_of, T, IsArgument
  <2>2. trigger_of(key, arg).pred = pred
    BY <2>1 DEF Trigger
  <2>3. Matches(trigger_of(key, arg)) <=>
            /\ T("role") \in DOMAIN latest
            /\ Get(P("role"), "role") # NoValue /\ Get(P("role"), "role") = arg
    BY <1>2, <2>1, <2>2, LeafMatches, PrimReads, EqHolds
  <2>4. MeaningOfKey(key, arg) = Verdict(Known("role", "role"), Sensed("role", "role") = arg)
    BY <1>7 DEF MeaningOfKey
  <2>5. T("role") \in DOMAIN latest => IsPayload(P("role"))
    BY <1>1
  <2> HIDE DEF pred
  <2> QED
    BY <2>3, <2>4, <2>5, Got DEF Known, Sensed, Verdict
<1>8. key \in {"in_zone", "not_in_zone", "near_human", "not_near_human", "near", "role"}
  BY DEF ToSet, Keys
<1>9. key = "near_human" => Matches(trigger_of(key, arg)) <=> MeaningOfKey(key, arg) = "holds"
  BY <1>5
<1>10. key = "not_near_human" => Matches(trigger_of(key, arg)) <=> MeaningOfKey(key, arg) = "holds"
  BY <1>5
<1> QED
  BY <1>3, <1>4, <1>6, <1>7, <1>8, <1>9, <1>10

\* The guard of a condition holds exactly where the condition's meaning does.
LEMMA WhenIsExact ==
    ASSUME CInv, ZoneKnown
    PROVE  \A w \in Valid : ~IsErr(lower(build_when_expr(w))) =>
                (GuardHolds(lower(build_when_expr(w)), latest, zones) <=> MeaningOfWhen(w) = "holds")
<1> DEFINE holds(e) == GuardHolds(lower(e), latest, zones)
           lowers(x) == x \in Valid /\ ~IsErr(lower(build_when_expr(x)))
           exact(x) == holds(build_when_expr(x)) <=> MeaningOfWhen(x) = "holds"
           E == {x \in Whens : lowers(x) => exact(x)}
<1>1. ASSUME NEW w \in Whens, \A y \in Whens : Depth[y] < Depth[w] => y \in E, lowers(w)
      PROVE  exact(w)
  <2>1. /\ \A c \in Conjuncts(w) : c \in Exprs /\ ~IsErr(lower(c))
        /\ holds(build_when_expr(w)) <=> \A c \in Conjuncts(w) : holds(c)
    BY <1>1, ConjunctsHold
  <2>2. ASSUME NEW key \in DOMAIN w.flat
        PROVE  LET leaf == WhenLeaf(trigger_of(key, w.flat[key]))
               IN  leaf \in Conjuncts(w) /\ (holds(leaf) <=> MeaningOfKey(key, w.flat[key]) = "holds")
    <3> DEFINE t == trigger_of(key, w.flat[key])
               leaf == WhenLeaf(t)
    <3>1. leaf \in Conjuncts(w)
      BY DEF Conjuncts, LeavesOf
    <3>2. leaf.node = "Leaf" /\ leaf.trigger = t
      BY DEF WhenLeaf
    <3>3. leaf \in Exprs /\ ~IsErr(lower(leaf))
      BY <2>1, <3>1
    <3> HIDE DEF leaf
    <3>4. holds(leaf) <=> Matches(leaf.trigger)
      BY <3>2, <3>3, LowerHolds DEF Matches
    <3>5. key \in ToSet(Keys) /\ IsArgument(key, w.flat[key]) /\ t.pred \in Preds
      BY WhenConstants
    <3>6. Matches(t) <=> MeaningOfKey(key, w.flat[key]) = "holds"
      BY <3>5, KeyIsExact
    <3> QED
      BY <3>1, <3>2, <3>4, <3>6 DEF leaf
  <2>3. ASSUME NEW i \in DOMAIN w.all
        PROVE  /\ build_when_expr(w.all[i]) \in Conjuncts(w)
               /\ exact(w.all[i])
    <3>1. build_when_expr(w.all[i]) \in Conjuncts(w)
      BY DEF Conjuncts, Kids
    <3>2. w.all[i] \in Valid
      BY <1>1, BuildShape
    <3>3. w.all[i] \in Whens /\ Depth[w.all[i]] < Depth[w]
      BY WhenShape
    <3>4. lowers(w.all[i])
      BY <2>1, <3>1, <3>2
    <3>5. w.all[i] \in E
      BY <1>1, <3>3
    <3> QED
      BY <3>1, <3>4, <3>5
  <2>4. ASSUME w.any # <<>>
        PROVE  /\ OrGroup(w) \in Conjuncts(w)
               /\ holds(OrGroup(w)) <=> \E i \in DOMAIN w.any : MeaningOfWhen(w.any[i]) = "holds"
    <3> DEFINE g == OrGroup(w)
    <3>1. g \in Conjuncts(w)
      BY <2>4 DEF Conjuncts
    <3>2. g.node = "Any" /\ g.kids = [i \in DOMAIN w.any |-> build_when_expr(w.any[i])]
      BY DEF OrGroup, WhenAny
    <3>3. g \in Exprs /\ ~IsErr(lower(g))
      BY <2>1, <3>1
    <3> HIDE DEF g
    <3>4. DOMAIN g.kids = DOMAIN w.any /\ \A i \in DOMAIN w.any : g.kids[i] = build_when_expr(w.any[i])
      BY <3>2
    <3>5. holds(g) <=> \E i \in DOMAIN g.kids : holds(g.kids[i])
      BY <3>2, <3>3, LowerHolds
    <3>6. \A i \in DOMAIN g.kids : ~IsErr(lower(g.kids[i]))
      BY <3>2, <3>3, LowerParts
    <3>7. ASSUME NEW i \in DOMAIN w.any PROVE exact(w.any[i])
      <4>1. w.any[i] \in Valid
        BY <1>1, BuildShape
      <4>2. w.any[i] \in Whens /\ Depth[w.any[i]] < Depth[w]
        BY WhenShape
      <4>3. lowers(w.any[i])
        BY <3>4, <3>6, <4>1
      <4>4. w.any[i] \in E
        BY <1>1, <4>2
      <4> QED
        BY <4>3, <4>4
    <3> QED
      BY <3>1, <3>4, <3>5, <3>7 DEF g
  <2>5. \A c \in Conjuncts(w) :
            \/ \E key \in DOMAIN w.flat : c = WhenLeaf(trigger_of(key, w.flat[key]))
            \/ \E i \in DOMAIN w.all : c = build_when_expr(w.all[i])
            \/ w.any # <<>> /\ c = OrGroup(w)
    BY DEF Conjuncts, LeavesOf, Kids
  <2> HIDE DEF holds
  <2>6. (\A c \in Conjuncts(w) : holds(c)) <=>
            /\ \A key \in DOMAIN w.flat : MeaningOfKey(key, w.flat[key]) = "holds"
            /\ \A i \in DOMAIN w.all : MeaningOfWhen(w.all[i]) = "holds"
            /\ w.any = <<>> \/ \E i \in DOMAIN w.any : MeaningOfWhen(w.any[i]) = "holds"
    BY <2>2, <2>3, <2>4, <2>5
  <2> QED
    BY <2>1, <2>6, WhenMeaning
<1>2. \A w \in Whens : (\A y \in Whens : Depth[y] < Depth[w] => y \in E) => w \in E
  BY <1>1
<1> HIDE DEF E
<1>3. Whens \subseteq E
  BY <1>2, WhenConstants, RankInduction
<1> QED
  BY <1>3 DEF E, Valid

\* The guard a client runs for a rule of a document that compiled holds exactly when
\* the condition written there does, on all samples and however its blocks nest
\* (semantic.rs, build_when_expr and lower; engine.rs, eval_tree).
THEOREM ExactLowering == Spec => []LoweringIsExact
<1>1. CInv => LoweringIsExact
  <2> SUFFICES ASSUME CInv, Running, parse_semantic(file), ~IsErr(compile(file)), ZoneKnown,
                      NEW i \in DOMAIN file.rules
               PROVE  Holds(i) <=> MeaningOfWhen(file.rules[i].when) = "holds"
    BY DEF LoweringIsExact, ZoneKnown
  <2>1. IsFile(file) /\ file.form = "semantic"
    BY DEF CInv, parse_semantic, ParsesAs
  <2>2. rules = compile(file).rules
    BY <2>1, RunningRules
  <2>3. LET e == build_when_expr(file.rules[i].when)
        IN  /\ file.rules[i].when \in Valid
            /\ e \in Exprs /\ ~IsErr(lower(e)) /\ rules[i].when = lower(e)
    BY <2>1, <2>2, Compiled
  <2> QED
    BY <2>3, WhenIsExact DEF Holds
<1> QED
  BY <1>1, ClientInvariant, PTL
=============================================================================
