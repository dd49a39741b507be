-------------------------- MODULE RuleEngineHistory --------------------------
(***************************************************************************)
(* RuleEngine with two history variables that no step of the engine reads: *)
(* the outcome every Edge trigger had at the previous tick of the same     *)
(* ruleset, whether or not that tick evaluated it, and all the outcomes it *)
(* has had at ticks of that ruleset.                                       *)
(***************************************************************************)
EXTENDS RuleEngine

VARIABLES
    was,   \* key -> its outcome at the previous tick of this Arc, or "unseen"
    held   \* key -> the outcomes at all ticks of this Arc

hvars == <<latest, stale, zones, prev, store, last_rules, fired, was, held>>

KeyOutcome(rs, key) == Recorded(Current(Triggers(rs[key[2]])[key[3]]))

\* The history a tick starts from; that of another Arc does not count.
Before == IF last_rules.gen = store.gen THEN was ELSE NoBaseline
HeldBefore == IF last_rules.gen = store.gen THEN held ELSE [k \in Keys |-> {}]

HInit == Init /\ was = NoBaseline /\ held = [k \in Keys |-> {}]

HTick ==
    LET rs == store.rules
    IN  /\ Tick
        /\ was' = [k \in Keys |->
                      IF k \in EdgeKeys(rs) THEN KeyOutcome(rs, k) ELSE "unseen"]
        /\ held' = [k \in Keys |->
                      IF k \in EdgeKeys(rs) THEN HeldBefore[k] \cup {KeyOutcome(rs, k)}
                      ELSE {}]

HNext ==
    \/ HTick
    \/ /\ \/ \E t \in Topics, p \in Payloads : IngestSample(t, p)
          \/ \E t \in ZoneTopics, r \in Robots \cup {NoRobot} : IngestZone(t, r)
          \/ \E t \in Topics : Age(t)
          \/ \E rs \in Rulesets : SwapRules(rs)
       /\ UNCHANGED <<was, held>>

HSpec == HInit /\ [][HNext]_hvars

-----------------------------------------------------------------------------
EdgeIdx(when) == {j \in DOMAIN when.all : when.all[j].mode = "Edge"}

\* An Edge trigger that lets its rule fire has really been both false and true at
\* ticks of the ruleset in force: no transition is made up by a first tick, by a
\* swap or by evaluation order (trigger_edge_matches, "first tick never fires").
EdgesAreWitnessed ==
    [][HTick => \A i \in fired' : \A j \in EdgeIdx(store.rules[i]) :
        held'[TriggerKey(store.rules, i, j)] = {"false", "true"}]_hvars

\* A rule guarded by one Edge trigger fires exactly in the ticks whose outcome is
\* not that of the tick before: no transition is missed and none repeated, with
\* other rules, zone events and swaps in between.
LoneEdgeIsExact ==
    [][HTick => \A i \in DOMAIN store.rules :
        LET when == store.rules[i]
            key == TriggerKey(store.rules, i, 1)
        IN  (Len(when.all) = 1 /\ when.any = <<>> /\ EdgeIdx(when) = {1}) =>
              (i \in fired' <=> Before[key] \notin {"unseen", was'[key]})]_hvars
=============================================================================
