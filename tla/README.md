# A verification project for flo

flo connects robots over a zenoh bus. Each process runs a rule engine that turns
samples into actions; a server adds a fleet registry of rulesets and a table of
registered clients. This directory holds TLA+ models of the parts where order,
failure and concurrency decide whether that works, the TLC instances that check
them, and proofs that hold for every value of the constants.

Run a model with `tlc -config <cfg> <module>`, a proof with `tlapm <module>.tla`.
`PROJECT.json` lists components, runs, the source lines behind every definition,
the hazards of the code and the theorems.

## 1. The system

| component | state | operations | hard part |
|---|---|---|---|
| predicate evaluator (`engine.rs`, `rules.rs`) | none | `eval_predicate` on a typed tree | absent fields, peers and types that do not match, `Not` |
| rule evaluation, `EvalState` (`engine.rs`) | `latest`, timestamps, `zones`, `prev`, `last_rules` | `ingest`, `tick_with_arc` | edges relate outcomes of different ticks; swaps, staleness and skipped evaluations fall in between |
| rule store and hot reload (`config.rs`) | the `Arc` behind a lock, a watch channel | `swap`, `current`, `subscribe`, `HotReload::run` | a swap is two steps; readers use either half |
| engine life cycle (`engine.rs`, `health.rs`, `runtime.rs`) | subscriptions, oneshot, `ReadyGate` | start-up, select loop, debounce, rebuild, readiness task, supervisor | swaps during start-up and rebuild, rebuilds that fail half way, death while others wait |
| sample delivery (`engine.rs`) | per-task FIFOs, a channel of 256 | forward with `try_send`, sample arm | several tasks into one bounded channel |
| registration lease (`registration/lease.rs`) | robot -> client state and config | `register`, `deregister`, `on_liveliness_delete` | three tasks, each with its own queue |
| registration transport (`registration/transport.rs`, `server.rs`) | subscriptions | request/response by topic, heartbeat monitor | responses carry no request id; lost and late messages; server restart; tasks that end unnoticed |
| client runtime (`runtime.rs`) | retry counter, liveliness token | bootstrap, retries, supervision | timeouts that race late answers, crashes |
| ruleset registry (`registry.rs`, `config.rs`) | SQLite tables `registry`, `audit` | `publish`, then swap | three statements without a transaction, a shared file, errors and crashes between them |
| semantic compiler and `rule check` (`semantic.rs`, `cli.rs`) | none | `validate`, `compile`, `check` | nested conditions against a flat guard; what is checked is not what is run |
| start-up (`runtime.rs`, `server.rs`, `auth.rs`, `transport.rs`, `bin/`) | command line, session config, session, first rules | authentication gate, `load_inputs`, `zenoh_config`, open, token | inputs that fail separately, four copies of the gate, a failed compile that falls back to another format |
| topics (`topic.rs`) | none | `try_new` of topics and patterns, key builders | legacy spellings, ids with slashes, patterns that do not hear every key of the contract |
| signaling and mesh (`signaling.rs`, `mesh.rs`, `video.rs`) | peer table, PeerConnections, captures | place a call, answer offers, exchange candidates, presence | a task per message; look-up, await, insert; answers and candidates without an offer id |
| media pipeline, codec, device, mutation | little or none | parsing, I/O | not modelled, section 8 |

How they interact: the bus calls subscriber tasks, which feed the engine's select
loop through one channel. Hot reload (from a robot's topic, or from the fleet topic
through the registry) writes the store; the loop reads the store's watch channel
and rebuilds its subscriptions. The readiness task waits on the engine, the
supervisor on every task. A client declares a liveliness token and then registers;
the server learns of its death from the token. A robot with `--video-peer` calls
another over signaling topics; the mesh listener of the other one answers.

What makes each correct:

* no action without data, and no edge that did not happen (rule evaluation);
* the loop ends up with the newest rules and their topics, and `/readyz` tells the
  truth (store, life cycle);
* the newest sample of a topic wins (delivery);
* a dead client is noticed and barred, alerted at most once, a living one is known
  (lease);
* a name has one owner, only the owner's rules run, and the audit tells the owner's
  pushes from the others' (registry);
* a compiled guard means what its condition says, and a ruleset that does not compile
  does nothing (compiler);
* what `rule check` accepts is what runs, and no session is less protected than the
  command line asked for (start-up);
* a caller has one session, is connected by an answer to its own offer, and is given
  its peer's candidates (mesh).

## 2. Modules

| module | models | composed of |
|---|---|---|
| `Predicates` | operands, comparison, `eval_tree`; a three-valued reference | |
| `Topics` | the contract of topics and patterns, canonicalisation, key builders, which pattern hears which key | |
| `Results` | a result or an error with its code | |
| `Semantic` | conditions, lowering, action verbs, `compile`, `rule check`, the fall-back to the runtime's form | `Predicates`, `Topics`, `Results` |
| `AuthGate` | the authentication gate in its four copies, the session config, opening the session | `Topics`, `Results` |
| `Startup` | both binaries between and after the gate's steps: inputs, token, the engine's first subscriptions | `Semantic`, `AuthGate`; implements `GateSpec` |
| `Client` | a process that starts with some input and evaluates its guards while samples degrade; the meaning of conditions by `docs/RULES.md` | `Startup` |
| `RuleEngine` | `EvalState` | takes the evaluator as a constant operator |
| `RuleEngineHistory` | two history variables: the outcome of each edge trigger at the previous tick, and all its outcomes | `RuleEngine` |
| `MCRuleEngine` | rulesets shaped like those of `docs/RULES.md` | `RuleEngineHistory`, `Predicates` |
| `EngineLoop` | store, hot reload, `EvalState::run`, readiness, supervisor | |
| `SampleFlow` | subscriptions by pattern, subscriber tasks, channel, sample arm | `Topics` |
| `LeaseContract` | what the lease promises: free, held, barred | |
| `Registration` | lease table, three server tasks, client processes | implements `LeaseContract` |
| `RegistrationHistory` | whether a lease was granted after its robot's last process had gone | `Registration` |
| `Registry` | `publish` statement by statement, hot reload through it, restarts | |
| `RegistryHistory` | names whose row was written from an outdated read | `Registry` |
| `Mesh` | signal receiver, mesh handler, outgoing calls, candidates, end of the signaling task | `Topics` |
| `*Proofs` | the theorems of section 6 | the module they are named after; those of `RuleEngine`, `Registration` and `Registry` extend the module with the history variables, `ClientProofs` also extends `SemanticProofs` and holds the theorem about `AuthGate` |
| `MC*` | the constants of an instance: `MCSemantic` those of `Client` (predicate trees, documents, command lines, samples) | the module they are named after |

A step is what other tasks cannot see the inside of. `EvalState` is owned by one
task, so `ingest` and a tick are one step each. In `EngineLoop` a step is a
stretch between two awaits or between two writes to shared state: `swap` is
`SwapInner` and `SwapNotify`, a rebuild is `CompareTopics`, one `SubscribeTopic`
or `SubscribeFails` per topic, and `SubscribeDone`. A lease operation is one
critical section of the write lock, hence `HandleRegister`, `HandleDeregister` and
`HandleDelete` are one step each. What a handler publishes comes after the lock is
released and is a step of its own that may fail, `PublishResponse` and `PublishAlert`;
the task takes no other message before. `Registry` has one step per SQL statement,
because each is a transaction of its own. `Mesh` has one step per await of a
signal task: `FindPeer`, `CreatePeer` (outside the lock), `InsertPeer` (under it),
`SetRemote`, `CreateAnswer`, `SetLocal`, `PublishAnswer`, or `AddIce`; `SignalFails` is
the error return of the four steps from an offer or answer on, each of which logs and
ends the task. An offer's put may be lost (`PublishOffer`), an answer's too
(`SignalFails` instead of `PublishAnswer`). A receiver only
spawns tasks, so a delivered message is a task that has not run; who gets a message is
computed from the key it is put on and the patterns the receivers subscribe to
(`Routes`). `Startup` has one step per stage of start-up, each of which reads its
inputs once.

A topic is the sequence of its segments, so an id with a slash changes the shape of
every key it is put into, as in the code. The handlers of the server spawn tasks
nobody supervises: `TaskEnds` ends one of them, with its subscription and what is
queued in it, and the server goes on.

An `Arc<Rules>` is its index in the sequence of allocations, so pointer equality is
equality of indices and equal rules may sit behind different pointers. A payload is
a member of a small set (`RuleEngine`), a record of typed values (`Predicates`) or
the number of its publication (`SampleFlow`). A credential is the state of the file
its flag names, a session config what decides who may talk to whom. Robot ids,
digests and rulesets are constants.

Definitions with a comment `Fault:` are variants of the definition that follows
them, each with one plausible mistake. No specification uses them; putting one in
the place of its original makes TLC report the property that `PROJECT.json` pairs
it with.

Code outside the repository is modelled from how it is used: a zenoh subscription
is a FIFO that receives every publication on its topic; a put reaches the
subscriber or is lost; the monitor receives a Delete when the last liveliness
token on a key goes; `watch::Sender::send` without a receiver keeps the old value;
dropping a tokio `JoinHandle` detaches the task; a PeerConnection takes an offer
unless it has made one itself, an answer only after it has, answers the remote
description of the moment, and refuses the rest.

## 3. Runs that pass

| run | instance | what it shows |
|---|---|---|
| `rulesets` | 1,425 predicate trees, semantic documents nested two deep, JSON and misspelt ones, files that are absent, unreadable or no rules; both binaries with every mode, credential state, `--connect`, `--print-zenoh-port`, config, and ids of one, two and empty segments; fields and topics lost one by one | without `Not`, `eval_tree` agrees with the three-valued reference and losing data never makes a guard true; a compiled guard holds exactly when its condition does; a file that does not compile fires nothing; a checked file is run rule for rule or not at all; a process comes to a session by the gate's steps alone (`GateSpec`), and the session is protected as asked for |
| `engine` | 4 topics (2 of them zone events), 2 robots, 3 payloads, 3 rulesets, 1 swap, staleness | a rule that fires has data; the first tick after a swap fires no edge rule; an edge that lets a rule fire was witnessed; a rule with one edge trigger fires exactly on changes |
| `loop` | 4 rulesets (one with a malformed topic), 3 swaps, a topic that may fail to be subscribed to | readiness, agreement of lock and channel, a running task for every current topic; no swap is lost, notified rules get subscribed to, start-up ends in service or in the end of the process |
| `flow` | a sensor topic in legacy spelling, a rule on a zone topic, 2 publications, 3 zone crossings, a channel of 2, up to 2 tasks per subscription | order and completeness for a topic with one task; what alone can misplace a robot; the engine catches up |
| `registration` | 2 processes under one id, one with 2 runs, 2 attempts each, 1 server restart, every server task may end | the lease implements its contract; at most one alert per poisoning and none without; no death is lost but by a late grant; an acknowledged client stays known; start-up ends; deaths are noticed while the monitor lives |
| `registry` | 2 servers, a name with three contents and a foreign owner, a refused name, versions up to 3 | names keep their owner, only owners' rules run, the audit agrees with the registry on who the owner is, what a version identifies |
| `mesh` | 3 robots, one that answers with a camera and two that call it, 3 process starts, a candidate, puts that are lost and steps that fail | one session and one capture per caller, sessions stay, a first call is connected to whom it called by an answer to its own offer, candidates reach the connection they are for, and why a call stays unanswered |

### Bounds

* `MaxGen` (rulesets allocated): two rulesets make one swap, the case of
  `RuleEngine`, where nothing survives a swap but `prev` (cleared) and samples. The
  loop needs three swaps: one seen, one during debounce, one during rebuild.
* `MaxCross` at 3: in, out and in again, so that an event can be overtaken by one
  that undoes it and by one that repeats it.
* `MaxPub`, `ChanCap`, `MaxTasks` at 2: one sample to overtake and one to be
  overtaken, a channel that overflows although it holds something, two tasks on a
  topic. The code's 256 differs only in how long it takes to overflow.
* `Retries`, `MaxRuns`, `MaxRestarts`: the code retries three times. A late answer
  needs two attempts, and a Delete, a request or a deregistration of an earlier run
  needs two runs. The proofs of the safety properties are for any number of both. `Mortal` names the server tasks
  that may end: all three.
* `MaxVersion` at 3: a version goes back only when a server that read 1 writes 2
  after another has written 3. Three contents of one name: the first makes the row, and
  two servers that have read it write one of the others each.
* `MaxStarts` (processes started, of all robots together) at 3: three robots at once,
  or one that calls, ends and calls again while the callee lives. A run places one
  call, so two offers of one robot need two of its runs. `MaxIce` at 1: the candidates
  of one PeerConnection are handled by tasks that do not know of each other. No robot of
  the instance both calls and is called; that case, in which offers and answers meet in
  the PeerConnection of a call, is covered by the proofs, which are for any `PeersOf`.
* `ReliableTopics` names topics whose subscription never fails. Progress is claimed
  for rulesets over these; the others show that a failure leaves the rest in order.
* Documents of `rulesets` nest two levels: the lowering fails or not by how one
  level fits into the next.
* `registry` is checked with the two servers symmetric; it has no liveness property.

`CHECK_DEADLOCK FALSE` is used where the system may stop: a process that has ended
(`EngineLoop`), publishers, clients and calls whose runs are used up, a payload without
fields left, a process that has started or exited. `RuleEngine` and `Registry` can always go on and are checked.

### Fairness

Assumed of what the executor guarantees and of nothing else. Tasks that can run are
polled in the end: the second half of a swap, the engine, the readiness task, the
supervisor, subscriber tasks, the three server tasks. `select!` picks at random
among its ready arms, so a pending change is taken although ticks go on
(`WF(Changed)`). A client that registers waits with a timeout and backs off with a
timer. A handler that has begun to publish comes to the end of it
(`WF(PublishResponse)`, `WF(PublishAlert)`), though perhaps without reaching anybody.
Publishers, hot reloads, process starts, crashes and restarts owe nothing.

## 4. Where the code does not do what it says

Each of these runs states a sentence of the repository as a property, and TLC finds
an execution of the model that breaks it.

| run | sentence | what happens |
|---|---|---|
| `loop_watch_stale` | "The `watch` always holds the latest value." (`config.rs:17`) | a swap at any time before the engine subscribes to the channel (`engine.rs:276`) is in the lock only; in TLC's execution the engine reads the new rules from the lock at 261 and subscribes to their topics, while its ticks evaluate the old ones from the channel |
| `loop_ready_dead` | "so the probe never reports ready while the engine is still subscribing (or dead)" (`runtime.rs:42`) | a first subscription fails, the engine ends and drops the oneshot, and the readiness task takes that for the signal; `/readyz` is 200 until the supervisor ends the process |
| `rule_check_nesting` | "a shape the model cannot express ... is **rejected** at `flo rule check`/compile" (`docs/RULES.md:104-106`) | `validate` does not lower, so the check says OK; `compile` refuses the file, and the client runs without its rules |
| `registry_audit` | "each accepted/rejected push = one row", "On success: atomically swaps ... writes WORM audit copy + SHA" (`docs/superpowers/specs/2026-07-20-flo-engine-ruleset-design.md:230`, `254`) | a statement fails, or the server restarts, between the registry row and the audit row; the repeated push has the digest of the row, is taken as unchanged and swapped in without an audit row |
| `mesh_always_on` | "Always-on WebRTC mesh signaling listener." (`mesh.rs:1`) | `run_signaling` returns when it has subscribed; the supervisor takes the end of its task for fatal and the process exits (builds with `media`) |

The models contain other behaviour that a reader of the comments may not expect. It
limits the properties above, which are stated with the condition under which they
hold:

* A payload without a field, or a sample that ages out, makes a condition false, and after
  a true tick that is an exit edge on which an edge trigger fires (`engine.rs:513`), where
  `docs/RULES.md:205` says that a missing field "triggers **no action**". The properties of
  `engine` allow it: the transition has really been observed.
* `load_inputs` decides by `--ruleset` alone: with a missing or invalid client config a
  good ruleset is run, where `README.md:294` speaks of a "fail-safe state (empty ruleset,
  no motion)".
* `EvalState` evaluates `all` and `any` with short circuit, so an edge trigger
  behind a level trigger that is false keeps an old baseline. `EdgesAreWitnessed`
  therefore says that both outcomes occurred, not that they were adjacent;
  `LoneEdgeIsExact` says it of guards with one trigger.
* The readiness task flips the gate also when the engine died (the run
  `loop_ready_dead`); `ReadyMeansSubscribed` is about an engine that lives, and
  `ServingOrDown` shows that otherwise the process ends.
* A rebuild detaches the old subscriber tasks. A topic that stays has two tasks
  from then on, and they overtake each other: `LoneTaskKeepsOrder` and
  `DrainedIsCurrent` are about topics with one task.
* A full channel drops the newest sample: `DrainedIsCurrent` excludes topics that
  lost one. Entered and cleared events travel through two tasks:
  `OnlyOvertakingMisplaces` names the two ways in which the zone map goes wrong.
* A Delete handled before the request of the same client finds it unknown, and the late
  request registers a client that is gone; the tests of `lease.rs` (340-353) take that as
  right. `DeathIsPending` and `DeathIsNoticed` leave out a lease granted that late. An
  alert whose publication fails is not repeated, so nothing says that one is seen.
* Two processes under one id both take the first answer: `AckedIsKnown` is about
  ids of one process. After a server restart nobody registers again, so it is also
  limited to a server that has not restarted.
* `Not` over a comparison with an absent field is true, although the comment on
  `eval_tree` says that absent fields yield `false`. `not_in_zone` compiles to such a
  `Not`. `AgreesWithReference` and `DegradationNeverEnables` are about predicates
  without `Not`, `LoweringIsExact` leaves out a zone sample without `zone_id`.
* `flo rule check` also passes a document without `[site].id`, an action topic out of
  the contract, and JSON, which the client does not read. Of these, as of a nesting that
  cannot be lowered, the client runs nothing: `CheckedIsWhatRuns` says that a checked
  file is run rule for rule or not at all, and `CompileErrors` that there are no other
  reasons. A wildcard trigger topic or an action without payload is accepted too, and
  the client then does not come up at all.
* A raw action without payload compiles to a JSON null, which TOML cannot hold:
  `to_toml` panics at start-up (phase `panicked`), although `compile_rules_or_default`
  promises the empty ruleset on any failure.
* An id that is not one segment makes the key builders panic: in `acl_config` under
  mTLS, in `compile`, and in `declare_liveliness`.
* A distance of `inf` or `nan` is accepted and its condition never holds (`NoValue` in the
  model); `-inf` is refused with the other distances that are not above zero.
* `NoSilentDowngrade` is about the config the code asks for. The results of
  `insert_json5` are discarded (`let _ =`), so a key that zenoh refuses is dropped in
  silence; what zenoh makes of the keys is outside. The server takes `--connect`
  (`cli.rs:114`) and ignores it, and `--print-zenoh-port` of the client goes on scouting
  where the client itself does not.
* The engine subscribes to `zone/*/entered` and `zone/*/cleared`, which do not hear the
  five-segment zone events that `topic.rs:30`, `CONTEXT.md:56` and the comment at
  `engine.rs:84-87` describe. A rule on such a topic hears it.
* A rule on a zone topic makes every event of the zone arrive through two tasks, the
  older copy possibly last: one of the ways `OnlyOvertakingMisplaces` names. A trigger
  on the pattern `zone/*/entered` passes `Pattern::try_new`, and its samples are
  forwarded under the pattern, as events of a zone named `*`, in which the robot then is
  as well; `OnlyOvertakingMisplaces` is about rules that name their zone.
* The comment at `transport.rs:157` of the registration says that the tasks are kept
  alive; a task that ends is not started again and nobody is told. Clients then time
  out (`StartupEnds`), or deaths go unnoticed (the exception in `DeathIsNoticed`).
* A call publishes its offer before it subscribes to answers, and its
  PeerConnection also takes offers, of anybody. Answers name no offer, so a caller
  that has restarted may be connected by an answer to its earlier one:
  `FirstCallAgrees` is about first runs, and excludes a callee that itself calls
  while a third robot calls it. Candidates name no session either: a robot that calls
  and is called gives its call the candidates of everybody, the session of a sender
  that has restarted is given those of its new run, and a robot that restarts with
  another `--video-peer` may take the answer of the former one and then the candidates
  of the new one (`CandidatesFit`).
* Nothing in signaling is tried again: a lost put or a step that fails leaves the call
  unanswered, and the callee's PeerConnection in the state it had come to. These are
  causes `UnansweredHasCause` names.
* Two servers on one file may read the same row and write it one after the other, so that
  two contents are accepted under one version, although the design (`:215`) resolves races
  "under a single registry lock / atomic CAS". `VersionNamesOneDigest` is about names whose
  row nobody wrote from an outdated read.

## 5. Refinement

`LeaseContract` has one variable, the lease of every robot, and four kinds of step:
grant a free lease, release or bar a held one, and start over. `Registration`
implements it under the mapping `lease` (`Registered` is held, `Poisoned` barred,
the rest free). The run `registration` checks it as the property `Contract`;
`ImplementsContract` proves it.

`GateSpec` (in `AuthGate`) is what start-up looks like from the gate: its own steps, in
their order, and other steps that move the process on without touching command line,
config or session. `Startup` shares the gate's actions and variables and adds the file
and the rules; that it implements `GateSpec` says that loading inputs, declaring the
token and starting the engine neither skip the gate nor change what it built. The run
`rulesets` checks it of `Client`. `NoDowngrade` is proved of `GateSpec`, `ThroughTheGate`
that `Client` implements it, and `ClientNoDowngrade` follows.

## 6. What is proved

For all values of the constants that satisfy the named assumptions
(`EngineConstants`, `RulesetsAreRules`, `EvalPredicateIsBoolean`, `LoopConstants`,
`RegistrationConstants`, `RegistryConstants`, `DigestsIdentify`, `HyphenedConstants`,
`FlowConstants`, `MeshConstants`, `PredConstants`, `WhenConstants`, `DemoConstants`,
`ClientInputs`). These say that functions have their domains and
ranges, bounds are naturals, and the evaluator returns a Boolean; TLC evaluates them on
every run that uses them. Six say more, each because of the code. `HyphenedConstants`: a name in its
legacy spelling (`robot-...`, with the hyphen) is not the first segment of a canonical
topic. `FlowConstants`: what a sensor publishes is a topic in canonical spelling, for it
went through `Topic::try_new`, and trigger topics are patterns, or the engine would not
have come up. `MeshConstants`: a robot's id is neither empty nor a wildcard, since
signal keys are topics. `PredConstants` and `WhenConstants`: predicate trees and
conditions are finite. `Preds` and `Whens` are any sets closed under taking parts, with
a height that is larger than that of the parts; a parsed document has one, its nesting.
Operators and operands are those of the enums, and the predicates a condition's keys
compile to are in `Preds`. `ClientInputs`: a file is one of the forms the code tells
apart, with its lists sequences, and a field that is there has a value. Nothing bounds
the number or the nesting of rules, triggers, conditions or predicates.

**`RuleEngineProofs`**: `TypeCorrect`, `FailClosed` (`NoActionWithoutData`),
`HotSwapSafe` (`SwapFiresNoEdge`). That a rule has data does not follow from the
guard of a tick, for an exit edge fires when there is nothing to read now. The
inductive invariant adds that a baseline of true belongs to a topic with a sample,
that samples are never removed, that baselines belong to the last ruleset, and that
equal pointers mean equal rules.

In the same module, with the history variables: `EdgesHappened` (`EdgesAreWitnessed`), `LoneEdgeFires`
(`LoneEdgeIsExact`). A baseline is an outcome the trigger has had under the last Arc, and
the baseline of a trigger alone in its guard is the outcome of the tick before,
because no short circuit skips it; engine and history start over with the same tick.

**`EngineLoopProofs`**: `TypeCorrect`, `GateIsSafe`, `StoreIsConsistent`,
`CurrentTopicsAreCovered`, `NoLostWakeUp`. `GateInv` ties the oneshot to the place
the engine is in; with `CoverInv` it gives `GateIsSafe` (`ReadyMeansSubscribed`).
`StoreInv` says what lock and channel hold in each half of a
swap. `CoverInv` says that a topic of the ruleset being subscribed to is still in
`todo` or has a task. `SettledInv` is the argument against lost wake-ups: from the
comparison on, what the engine will have subscribed to is what the channel holds,
or a version is unseen.

**`RegistrationProofs`**: `TypeCorrect`, `ImplementsContract`, `AlertsMatch`,
`DeathIsNeverLost`, `AckIsKept` (`AckedIsKnown`). Type correctness needs that a process
that backs off has an attempt left. `AlertsMatch` (`AtMostOneAlert`) counts the alerts
published and the one about to be together, so the step between them changes nothing and
a failing one only lowers the sum. `DeathIsNeverLost` is inductive
with the history variable: a lease that was granted to a living robot and whose
robot is gone has its Delete in the queue, for the last exit put it there and only
its handling, which ends the lease, takes it out. `AckIsKept` has to show that a
deregistration of an earlier run does not end the lease of a later one. `Kept` carries
it: while such a request is queued the table knows the robot, so nothing is granted
before it is handled; it is queued once; and it is never queued while an Ack is about
to be published, on its way or received.

**`RegistryProofs`**: `TypeCorrect`, `OnlyOwnersRun`, `OwnershipIsStable`. The owner
is compared with a row that may be out of date when `UPDATE` writes the owner
column. That is harmless because rows keep their owner, so a check that held once
holds for good; `InFlightIsOwned` carries it from the read to the swap. The same
argument for a rejected push gives `AuditIsTruthful` (`AuditAgreesOnOwner`): what was
another's when it was read stays another's until the audit row is written
(`ConflictsAreForeign`).

In the same module, with the history variable: `VersionsIdentify`
(`VersionNamesOneDigest`). Between the statement that writes a row and the one that
writes its audit row, the audit row is a claim of the server about to write it.
`ClaimsAgree` says of the claims on a name that nobody raced for that none is ahead of
the row, the newest is the row, and a version is claimed for one digest.

**`MeshProofs`**: `SessionsAreTheOnes` (`SessionsNegotiate`), `CaptureIsOne`
(`OneCapture`), `SessionsLast` (`SessionsStay`). Nothing is assumed of the routes, of
what the webrtc crate accepts or of the number of runs; `Typed` fixes the shape of
tasks and connections only. The inductive invariant `MInv` says where each task of a
message stands: a task that negotiates has the connection of its robot's own call or
the one the peer table holds for its sender, whoever inserted it, and a task that is
to start a capture is the only one for its session, which has none yet. The look-up
before the await decides nothing; that the entry is looked up again under the lock is
what makes both hold.

In the same module: `TypeCorrect`, `FirstCallIsAnswered` (`FirstCallAgrees`),
`CandidatesAreThePeers` (`CandidatesFit`), `NoCallIsLostOtherwise`
(`UnansweredHasCause`), for any robots, cameras, calls and numbers of runs and
candidates. It first computes the routes from keys and patterns: a signal is heard by
the robot it is addressed to and nobody else (`SignalKeyIs` and the lemmas after it).
Then come four layers.
* `LInv`, how long things live: tasks and PeerConnections belong to processes that are
  up, offers to runs that have been, and an offer that is still to be looked up has one
  task at the callee.
* `SInv`, that what is said is true: an offer is that of a call its sender placed, an
  answer goes to a robot that has called its sender (`Reached`) and is one to that
  robot's offer unless the sender has a call of its own, and both, as candidates do, name
  a PeerConnection of their sender.
* `Sole`: of the PeerConnections a run of a robot made for one caller, one is ever spoken
  of. It is why a candidate that arrives is that of the connection whose answer was
  taken, although neither names the other.
* `KInv`: an unanswered call of which nothing was lost is carried by something, a task
  with its offer, a connection that was given it together with a task that is to answer
  it, or a task with an answer. Two offers on one connection are the hard case: the task
  of the first may answer the second, and refusals and failures of one must not take the
  answer of the other with them.

**`SampleFlowProofs`**: `LoneTaskOrder` (`LoneTaskKeepsOrder`),
`DrainedTopicsAreCurrent` (`DrainedIsCurrent`), `ZonesAreCurrent`
(`OnlyOvertakingMisplaces`), for any rules and sensors, any capacity, and any number of
publications and tasks. A topic's samples go through a pipe: the box of its lone task,
then its share of the channel, then `latest`. `FInv` says that the numbers in the pipe
rise, none is older than `latest`, and, unless one was dropped, the newest in it is the
last publication. It rests on `OwnName`: no other subscription forwards under the name
of the topic, and the pattern of the topic hears one key. Zone events have no single
pipe. `ZInv` says that without loss and overtaking there is a crossing whose result the
zone map is, that all events in boxes and channel are as new or newer, those in the
channel in order and none newer than one in a box, and that the last crossing is
among them or is that one; the same event may be there twice.

**`SemanticProofs`** holds the lemmas on what the recursive functions of `Predicates`,
`Semantic` and `Client` compute, for every tree. The library's induction theorems have an
operator parameter, which no installed prover instantiates; here the induction is on a
set. `LeastNumber` (a set of naturals that is not empty has a least element) gives
`RankInduction` for sets of trees with a height, and that gives the recursion theorem
`FixedPoint`: a definition by recursion on parts of less height has a function that
satisfies it, so `CHOOSE` has taken one. From there
* `eval_tree` and the three-valued reference obey their equations, agree on trees
  without `Not` (`EvalAgrees`), and losing fields of a sample does not make such a
  tree true (`EvalMonotone`);
* `build_when_expr` has the shape of its condition (`BuildShape`), and lowered
  triggers hold exactly when the expression does (`LowerHolds`). Expressions have no
  height of their own: they are ranked by the least depth of a condition they are
  built from (`ExprsAreRanked`, `SizeIsLeast`).

**`ClientProofs`**, for any command lines, files, samples and zones:
* `NoDowngrade`, `ClientNoDowngrade` (`NoSilentDowngrade`) and `ThroughTheGate`
  (`GateSpec`). `GInv`: past the first step the arguments are validated, and the config
  from `BuildConfig` on, and the session, are those of the mode, because merging
  endpoints touches neither TLS nor ACL.
* `InertWithoutCompile` (`FailedCompileIsInert`), `CheckedRuns` (`CheckedIsWhatRuns`),
  `GuardsAgree` (`AgreesWithReference`), `DegradationIsSafe`
  (`DegradationNeverEnables`), `ExactLowering` (`LoweringIsExact`). The invariant
  `CInv` says that a client past its inputs has the rules `load_inputs` gives, that file
  and samples keep their types, and that a client on its way to its engine does not just
  print its port; the rest is about `load_inputs`.
  `CheckedRuns` rests on `load_inputs` being all or nothing, and on `validate` and the
  check's own fall-back leaving no rule without a trigger; what runs of a file that does
  not compile has none (`InertRules`). `CompileErrors` goes through every error of
  `compile` and shows which of them `validate` has excluded. `ExactLowering` has the meaning of one key
  against the predicate it compiles to (`KeyIsExact`), then an induction on the depth of
  a condition (`WhenIsExact`), and last that lowering is exact on the whole.

## 7. What is only model-checked

Liveness: `RulesGetSubscribed`, `ServingOrDown`, `CatchesUp`, `StartupEnds`,
`DeathIsNoticed`. It rests on fairness and `ENABLED`, which the prover does not handle.
Every other property of the passing runs, the two refinements included, has a theorem.
The runs of section 4 are executions TLC finds, and need no proof.

## 8. What is not modelled

* Of `EvalState`: `tick(&Rules)`, used by tests, which leaves the reset of `prev` to
  its caller; the publishing of actions by `fire_action`, whose failure is logged.
* Of `EvalState::run`: the ends of its channels, which cannot be reached because the
  loop's own task holds a sender and a clone of the store.
* Of the lease: `poison`, used by tests; requests without a robot id, which no
  client sends. `deregister_with_server` has no caller in the binaries and is
  modelled as a step a client may take.
* Malformed updates, requests and rulesets change nothing and are no step.
* Of `topic.rs`: the key builders no other module needs, and characters within a
  segment, of which only the hyphen of the legacy spelling matters to the contract. In
  `EngineLoop` the verdict on a topic is the constant `ValidTopics`.
* Of `transport.rs`: publishing and subscribing, which hand over to zenoh and are
  modelled where they are used, and helpers of tests. Of `auth.rs`: the contents of a
  PEM file past its header, which zenoh reads.
* Of the binaries: `--health`, which asks a running process over HTTP, and `rule
  compile`, which prints.
* `media.rs` (past placing a call), `codec.rs`, `device.rs` are media I/O. `mutation.rs`
  computes a digest that is logged.
* Of signaling: presence, which is logged. Whether a connection comes up is decided in
  the webrtc crate and the network.
* Of the compiler: the parsing of text, and the ruleset envelope, which desugars to
  `compile` and is used by tests.

## 9. Plan

Done: `Predicates`, `RuleEngine`, `EngineLoop`, `SampleFlow`, `Registration`,
`Registry`, `Semantic`, `AuthGate`, `Startup`, `Client`, `Topics`, `Mesh`, each with its
run; every safety property and both refinements have a theorem.

Next: the engine composed with its delivery, so that freshness and edges meet; and
the topics of `EngineLoop` as those of `Topics` instead of the constant `ValidTopics`.
