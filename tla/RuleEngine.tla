----------------------------- MODULE RuleEngine -----------------------------
(***************************************************************************)
(* The evaluation core of src/engine.rs: `EvalState` with its `ingest` and *)
(* `tick_with_arc` (the tick arm of `run` is the same code).  One task     *)
(* owns the state, so each call is one step; samples, ruleset swaps and    *)
(* the passing of time interleave with the ticks in every order.           *)
(*                                                                         *)
(* Data kept abstract: a payload is a member of Payloads, and what the     *)
(* predicate of a trigger says of a payload and of the zone map is the     *)
(* constant operator EvalPredicate (module Predicates models it).          *)
(***************************************************************************)
EXTENDS Naturals, Sequences

CONSTANTS
    Topics,          \* key expressions that triggers name or samples arrive on
    ZoneTopics,      \* the topics zone/<id>/entered and zone/<id>/cleared
    EnteredTopics,   \* those of them that end in /entered
    ZoneOf,          \* zone topic -> its second segment, the zone id
    Payloads,        \* decoded JSON payloads
    NoSample,        \* no entry for the topic in `latest`
    Robots,          \* robot ids that appear in zone events
    NoRobot,         \* a zone event whose payload has no string robot_id
    Preds,           \* the typed predicates of the rulesets
    EvalPredicate(_, _, _), \* eval_predicate(pred, payload, zones)
    Rulesets,        \* the compiled rulesets, sequences of `When` guards
    HasTimeout,      \* with_staleness was called
    MaxGen           \* bound: Arc<Rules> allocations, the first one included

Zones == {ZoneOf[t] : t \in ZoneTopics}

(***************************************************************************)
(* src/rules.rs: a Trigger is a topic, a predicate and a mode; a When has  *)
(* an `all` list and an `any` list.  Rule names play no part here and the  *)
(* actions of a rule fire together, so a rule is its guard.                *)
(***************************************************************************)
Mode == {"Edge", "Level"}
Trigger == [topic : Topics, pred : Preds, mode : Mode]
When == [all : Seq(Trigger), any : Seq(Trigger)]
Rules == Seq(When)

ASSUME EngineConstants ==
    /\ ZoneTopics \subseteq Topics
    /\ EnteredTopics \subseteq ZoneTopics
    /\ NoSample \notin Payloads
    /\ NoRobot \notin Robots
    /\ HasTimeout \in BOOLEAN
    /\ MaxGen \in Nat \ {0}

ASSUME RulesetsAreRules == Rulesets \subseteq Rules

\* A zone map is what enter_zone and clear_zone maintain; clear_zone removes a
\* robot's entry with its last zone, so "no entry" and "empty set" are one.
ZoneMap == [Robots -> SUBSET Zones]

ASSUME EvalPredicateIsBoolean ==
    \A p \in Preds, d \in Payloads, z \in ZoneMap :
        EvalPredicate(p, d, z) \in BOOLEAN

VARIABLES
    latest,      \* topic -> the last sample ingested, or NoSample
    stale,       \* topics whose timestamp is older than the timeout
    zones,       \* robot -> zones it has entered and not cleared
    prev,        \* trigger key -> outcome recorded when it was last evaluated
    store,       \* the Arc<Rules> the watch channel holds
    last_rules,  \* the Arc<Rules> of the previous tick, or NoRules
    fired        \* rules whose actions the last tick returned

vars == <<latest, stale, zones, prev, store, last_rules, fired>>

\* An Arc<Rules>: gen is the pointer identity that Arc::ptr_eq compares.
NoRules == [gen |-> 0, rules |-> <<>>]
Arcs == [gen : 1..MaxGen, rules : Rulesets]

\* Triggers in the order of trigger_idx: `any` is offset by the length of `all`.
Triggers(when) == when.all \o when.any

TriggerKey(rs, i, j) == <<Triggers(rs[i])[j].topic, i, j>>

\* The keys (topic, rule_idx, trigger_idx) a ruleset can put into `prev`.
EdgeKeys(rs) ==
    UNION {{TriggerKey(rs, i, j) :
              j \in {k \in DOMAIN Triggers(rs[i]) : Triggers(rs[i])[k].mode = "Edge"}} :
           i \in DOMAIN rs}

Keys == UNION {EdgeKeys(rs) : rs \in Rulesets}
Outcome == {"unseen", "false", "true"}
NoBaseline == [k \in Keys |-> "unseen"]

TypeOK ==
    /\ latest \in [Topics -> Payloads \cup {NoSample}]
    /\ stale \subseteq Topics
    /\ zones \in ZoneMap
    /\ prev \in [Keys -> Outcome]
    /\ store \in Arcs
    /\ last_rules \in Arcs \cup {NoRules}
    /\ fired \subseteq DOMAIN last_rules.rules

-----------------------------------------------------------------------------
(* One tick, as tick_inner evaluates it.  `base` is `prev` after the reset *)
(* for a new Arc.  A key belongs to one trigger of one rule, so no trigger *)
(* reads what another one writes in the same tick.                         *)

\* The staleness-filtered view of `latest`.
Live(t) == latest[t] # NoSample /\ t \notin stale

\* The current outcome of a trigger; a topic without a live sample is false.
Current(trigger) ==
    Live(trigger.topic) /\ EvalPredicate(trigger.pred, latest[trigger.topic], zones)

Recorded(b) == IF b THEN "true" ELSE "false"

\* Fault: the first evaluation of an Edge trigger counts as a change.
trigger_edge_matches_first_tick(base, rs, i, j) ==
    LET trigger == Triggers(rs[i])[j]
    IN  IF trigger.mode = "Level"
        THEN Current(trigger)
        ELSE base[TriggerKey(rs, i, j)] # Recorded(Current(trigger))

\* Fault: only entry edges are seen.
trigger_edge_matches_entry_only(base, rs, i, j) ==
    LET trigger == Triggers(rs[i])[j]
    IN  IF trigger.mode = "Level"
        THEN Current(trigger)
        ELSE base[TriggerKey(rs, i, j)] = "false" /\ Current(trigger)

trigger_edge_matches(base, rs, i, j) ==
    LET trigger == Triggers(rs[i])[j]
        key == TriggerKey(rs, i, j)
    IN  IF trigger.mode = "Level"
        THEN Current(trigger)
        ELSE base[key] # "unseen" /\ base[key] # Recorded(Current(trigger))

AllIdx(when) == DOMAIN when.all
AnyIdx(when) == {Len(when.all) + k : k \in DOMAIN when.any}

\* The triggers a tick evaluates: Iterator::all stops at the first that does not
\* match, Iterator::any at the first that does, and an empty guard returns early.
Evaluated(base, rs, i) ==
    {j \in AllIdx(rs[i]) : \A k \in AllIdx(rs[i]) :
        k < j => trigger_edge_matches(base, rs, i, k)}
    \cup
    {j \in AnyIdx(rs[i]) : \A k \in AnyIdx(rs[i]) :
        k < j => ~trigger_edge_matches(base, rs, i, k)}

when_satisfied_with_prev(base, rs, i) ==
    /\ Triggers(rs[i]) # <<>>
    /\ \A j \in AllIdx(rs[i]) : trigger_edge_matches(base, rs, i, j)
    /\ \/ rs[i].any = <<>>
       \/ \E j \in AnyIdx(rs[i]) : trigger_edge_matches(base, rs, i, j)

\* The keys an evaluated trigger with this key would write, and what is left
\* in `prev` after the tick.
Writes(base, rs, key) ==
    /\ key \in EdgeKeys(rs)
    /\ key[3] \in Evaluated(base, rs, key[2])

PrevAfter(base, rs) ==
    [key \in Keys |->
        IF Writes(base, rs, key)
        THEN Recorded(Current(Triggers(rs[key[2]])[key[3]]))
        ELSE base[key]]

-----------------------------------------------------------------------------
Init ==
    /\ latest = [t \in Topics |-> NoSample]
    /\ stale = {}
    /\ zones = [r \in Robots |-> {}]
    /\ prev = NoBaseline
    /\ store \in {a \in Arcs : a.gen = 1}
    /\ last_rules \in {NoRules, store}  \* EvalState::empty, or run's own start
    /\ fired = {}

\* ingest of a topic that is not a zone event: value and timestamp.
IngestSample(t, payload) ==
    /\ t \notin ZoneTopics
    /\ latest' = [latest EXCEPT ![t] = payload]
    /\ stale' = stale \ {t}
    /\ UNCHANGED <<zones, prev, store, last_rules, fired>>

enter_zone(robot, zone) == zones' = [zones EXCEPT ![robot] = @ \cup {zone}]
clear_zone(robot, zone) == zones' = [zones EXCEPT ![robot] = @ \ {zone}]

\* ingest of a zone event: it moves the zone map and returns, leaving no sample
\* of the zone topic in `latest`.  A payload without a robot id is ignored.
IngestZone(t, robot) ==
    /\ t \in ZoneTopics
    /\ IF robot = NoRobot THEN UNCHANGED zones
       ELSE IF t \in EnteredTopics THEN enter_zone(robot, ZoneOf[t])
       ELSE clear_zone(robot, ZoneOf[t])
    /\ UNCHANGED <<latest, stale, prev, store, last_rules, fired>>

\* Time passes: the sample of a topic becomes older than the timeout.
Age(t) ==
    /\ HasTimeout
    /\ Live(t)
    /\ stale' = stale \cup {t}
    /\ UNCHANGED <<latest, zones, prev, store, last_rules, fired>>

\* The watch channel receives a freshly allocated Arc; its rules may be equal to
\* the ones it replaces.
SwapRules(rs) ==
    /\ store.gen < MaxGen
    /\ store' = [gen |-> store.gen + 1, rules |-> rs]
    /\ UNCHANGED <<latest, stale, zones, prev, last_rules, fired>>

\* Fault: prev.clear() is missing.
Baseline_kept == prev

\* The baseline a tick starts from: none when the Arc is not the previous one.
Baseline == IF last_rules.gen = store.gen THEN prev ELSE NoBaseline

Tick ==
    /\ last_rules' = store
    /\ UNCHANGED <<latest, stale, zones, store>>
    /\ prev' = PrevAfter(Baseline, store.rules)
    /\ fired' = {i \in DOMAIN store.rules :
                    when_satisfied_with_prev(Baseline, store.rules, i)}

Next ==
    \/ \E t \in Topics, p \in Payloads : IngestSample(t, p)
    \/ \E t \in ZoneTopics, r \in Robots \cup {NoRobot} : IngestZone(t, r)
    \/ \E t \in Topics : Age(t)
    \/ \E rs \in Rulesets : SwapRules(rs)
    \/ Tick

Spec == Init /\ [][Next]_vars

-----------------------------------------------------------------------------
\* Every baseline in `prev` was recorded for an Edge trigger of the ruleset of the
\* last tick: a swap leaves no outcome of the old rules behind under a key that
\* the new rules read (the pointer check and prev.clear() of the tick).
BaselineOfLastRules ==
    \A k \in Keys : prev[k] # "unseen" => k \in EdgeKeys(last_rules.rules)

\* A baseline is true only for a topic a sample was ingested from.
TrueBaselineHasSample ==
    \A k \in Keys : prev[k] = "true" => latest[k[1]] # NoSample

\* Equal pointers mean equal rules: a later Arc never reuses the identity of the
\* one the last tick ran with.
ArcIdentity ==
    /\ last_rules.gen <= store.gen
    /\ last_rules.gen = store.gen => last_rules = store

HasSample(rs, i, j) == latest[Triggers(rs[i])[j].topic] # NoSample

\* A rule whose actions fire has received a sample for every trigger of its `all`
\* list and, if it has an `any` list, for a trigger of that one; an empty guard
\* never fires.  This holds through entry and exit edges, stale samples, zone
\* events and swaps (docs/RULES.md, "an absent topic sample ... triggers no action").
NoActionWithoutData ==
    \A i \in fired :
        LET rs == last_rules.rules
        IN  /\ Triggers(rs[i]) # <<>>
            /\ \A j \in AllIdx(rs[i]) : HasSample(rs, i, j)
            /\ rs[i].any # <<>> => \E j \in AnyIdx(rs[i]) : HasSample(rs, i, j)

\* A rule that waits for an edge cannot fire in the first tick of a ruleset.
NeedsEdge(when) ==
    \/ \E j \in DOMAIN when.all : when.all[j].mode = "Edge"
    \/ when.any # <<>> /\ \A j \in DOMAIN when.any : when.any[j].mode = "Edge"

\* No spurious transition after a hot swap: in the first tick of a new Arc no rule
\* that needs an edge fires, even if the old ruleset had a trigger with the same
\* topic at the same place and its outcome differs.
SwapFiresNoEdge ==
    [][Tick /\ last_rules.gen # store.gen =>
        \A i \in fired' : ~NeedsEdge(store.rules[i])]_vars
=============================================================================
