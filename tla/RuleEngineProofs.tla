-------------------------- MODULE RuleEngineProofs --------------------------
(***************************************************************************)
(* Type correctness of the engine's evaluation core, and its fail-closed   *)
(* and hot-swap guarantees, for every ruleset, topic and payload set.      *)
(***************************************************************************)
EXTENDS RuleEngineHistory, TLAPS

(***************************************************************************)
(* What a tick writes has the type of `prev`, whatever it evaluates.       *)
(***************************************************************************)
LEMMA PrevAfterType ==
    ASSUME NEW base \in [Keys -> Outcome], NEW rs
    PROVE  PrevAfter(base, rs) \in [Keys -> Outcome]
  BY DEF PrevAfter, Recorded, Outcome

LEMMA BaselineType == TypeOK => Baseline \in [Keys -> Outcome]
  BY DEF TypeOK, Baseline, NoBaseline, Outcome

(***************************************************************************)
(* The state of EvalState keeps its type: in particular the rules that     *)
(* fired are rules of the Arc recorded as the last one.                    *)
(***************************************************************************)
THEOREM TypeCorrect == Spec => []TypeOK
<1>1. Init => TypeOK
  BY DEF Init, TypeOK, NoBaseline, Outcome, ZoneMap, Arcs, NoRules
<1>2. TypeOK /\ [Next]_vars => TypeOK'
  <2> SUFFICES ASSUME TypeOK, [Next]_vars PROVE TypeOK'
    OBVIOUS
  <2>1. ASSUME NEW t \in Topics, NEW p \in Payloads, IngestSample(t, p) PROVE TypeOK'
    BY <2>1 DEF IngestSample, TypeOK
  <2>2. ASSUME NEW t \in ZoneTopics, NEW r \in Robots \cup {NoRobot}, IngestZone(t, r)
        PROVE  TypeOK'
    <3>1. zones' \in ZoneMap
      BY <2>2 DEF IngestZone, TypeOK, ZoneMap, Zones, enter_zone, clear_zone
    <3>2. QED
      BY <2>2, <3>1 DEF IngestZone, TypeOK
  <2>3. ASSUME NEW t \in Topics, Age(t) PROVE TypeOK'
    BY <2>3 DEF Age, TypeOK
  <2>4. ASSUME NEW rs \in Rulesets, SwapRules(rs) PROVE TypeOK'
    BY <2>4, EngineConstants DEF SwapRules, TypeOK, Arcs
  <2>5. CASE Tick
    <3>1. prev' \in [Keys -> Outcome]
      BY <2>5, BaselineType, PrevAfterType DEF Tick
    <3>2. fired' \subseteq DOMAIN last_rules'.rules
      BY <2>5 DEF Tick
    <3>3. QED
      BY <2>5, <3>1, <3>2 DEF Tick, TypeOK
  <2>6. CASE UNCHANGED vars
    BY <2>6 DEF vars, TypeOK
  <2>7. QED
    BY <2>1, <2>2, <2>3, <2>4, <2>5, <2>6 DEF Next
<1>3. QED
  BY <1>1, <1>2, PTL DEF Spec
-----------------------------------------------------------------------------
(***************************************************************************)
(* Shape of rulesets: positions, topics and keys of triggers.              *)
(***************************************************************************)
LEMMA SplitRange ==
    ASSUME NEW m \in Nat, NEW n \in Nat
    PROVE  1..m \cup {m + k : k \in 1..n} = 1..(m + n)
<1>1. ASSUME NEW x \in 1..(m + n) PROVE x \in 1..m \cup {m + k : k \in 1..n}
  <2>1. x \in 1..m \/ x - m \in 1..n
    OBVIOUS
  <2>2. x = m + (x - m)
    OBVIOUS
  <2>3. QED
    BY <2>1, <2>2
<1>2. ASSUME NEW k \in 1..n PROVE m + k \in 1..(m + n)
  OBVIOUS
<1>3. 1..m \subseteq 1..(m + n)
  OBVIOUS
<1>4. QED
  BY <1>1, <1>2, <1>3

LEMMA ConcatShape ==
    ASSUME NEW S, NEW s \in Seq(S), NEW u \in Seq(S)
    PROVE  /\ s \o u \in Seq(S)
           /\ DOMAIN s \cup {Len(s) + k : k \in DOMAIN u} = DOMAIN (s \o u)
           /\ \A j \in DOMAIN s : (s \o u)[j] = s[j]
           /\ \A j \in DOMAIN u : (s \o u)[Len(s) + j] = u[j]
<1>1. /\ s \o u \in Seq(S)
      /\ Len(s) \in Nat /\ Len(u) \in Nat
      /\ DOMAIN s = 1..Len(s) /\ DOMAIN u = 1..Len(u)
      /\ DOMAIN (s \o u) = 1..(Len(s) + Len(u))
  OBVIOUS
<1>2. DOMAIN s \cup {Len(s) + k : k \in DOMAIN u} = DOMAIN (s \o u)
  BY <1>1, SplitRange
<1>3. ASSUME NEW j \in 1..Len(s) PROVE (s \o u)[j] = s[j]
  OBVIOUS
<1>4. ASSUME NEW j \in 1..Len(u) PROVE (s \o u)[Len(s) + j] = u[j]
  OBVIOUS
<1>5. QED
  BY <1>1, <1>2, <1>3, <1>4

LEMMA TriggerShape ==
    ASSUME NEW rs \in Rulesets, NEW i \in DOMAIN rs
    PROVE  /\ rs[i] \in When
           /\ Triggers(rs[i]) \in Seq(Trigger)
           /\ AllIdx(rs[i]) \cup AnyIdx(rs[i]) = DOMAIN Triggers(rs[i])
           /\ \A j \in DOMAIN rs[i].all : Triggers(rs[i])[j] = rs[i].all[j]
           /\ \A j \in DOMAIN rs[i].any :
                 Triggers(rs[i])[Len(rs[i].all) + j] = rs[i].any[j]
<1>1. rs[i] \in When
  BY RulesetsAreRules DEF Rules
<1>2. rs[i].all \in Seq(Trigger) /\ rs[i].any \in Seq(Trigger)
  BY <1>1 DEF When
<1> DEFINE s == rs[i].all
           u == rs[i].any
<1> HIDE DEF s, u
<1>3. s \in Seq(Trigger) /\ u \in Seq(Trigger)
  BY <1>2 DEF s, u
<1>4. /\ s \o u \in Seq(Trigger)
      /\ DOMAIN s \cup {Len(s) + k : k \in DOMAIN u} = DOMAIN (s \o u)
      /\ \A j \in DOMAIN s : (s \o u)[j] = s[j]
      /\ \A j \in DOMAIN u : (s \o u)[Len(s) + j] = u[j]
  BY <1>3, ConcatShape
<1>5. QED
  BY <1>1, <1>4, Zenon DEF Triggers, AllIdx, AnyIdx, s, u

LEMMA TriggerTopic ==
    ASSUME NEW rs \in Rulesets, NEW i \in DOMAIN rs, NEW j \in DOMAIN Triggers(rs[i])
    PROVE  /\ Triggers(rs[i])[j] \in Trigger
           /\ Triggers(rs[i])[j].topic \in Topics
<1>1. Triggers(rs[i]) \in Seq(Trigger)
  BY TriggerShape
<1>2. Triggers(rs[i])[j] \in Trigger
  BY <1>1
<1>3. QED
  BY <1>2 DEF Trigger

(***************************************************************************)
(* A key of a ruleset names the rule and the trigger it was built from.    *)
(***************************************************************************)
LEMMA EdgeKeyShape ==
    ASSUME NEW rs \in Rulesets, NEW key \in EdgeKeys(rs)
    PROVE  /\ key \in Keys
           /\ key[2] \in DOMAIN rs
           /\ key[3] \in DOMAIN Triggers(rs[key[2]])
           /\ key[1] = Triggers(rs[key[2]])[key[3]].topic
           /\ key[1] \in Topics
<1>0. PICK i \in DOMAIN rs :
          \E j \in DOMAIN Triggers(rs[i]) : key = TriggerKey(rs, i, j)
  BY DEF EdgeKeys
<1>1. PICK j \in DOMAIN Triggers(rs[i]) : key = TriggerKey(rs, i, j)
  BY <1>0
<1>2. key = <<Triggers(rs[i])[j].topic, i, j>>
  BY <1>1 DEF TriggerKey
<1>3. key[1] = Triggers(rs[i])[j].topic /\ key[2] = i /\ key[3] = j
  BY <1>2
<1>4. key \in Keys
  BY DEF Keys
<1>5. QED
  BY <1>1, <1>3, <1>4, TriggerTopic

LEMMA EdgeKeyInKeys ==
    ASSUME NEW rs \in Rulesets, NEW i \in DOMAIN rs, NEW j \in DOMAIN Triggers(rs[i]),
           Triggers(rs[i])[j].mode = "Edge"
    PROVE  TriggerKey(rs, i, j) \in EdgeKeys(rs) /\ TriggerKey(rs, i, j) \in Keys
  BY DEF EdgeKeys, Keys

LEMMA KeyTopic == \A key \in Keys : key[1] \in Topics
  BY EdgeKeyShape DEF Keys

-----------------------------------------------------------------------------
(***************************************************************************)
(* A trigger that matches has received a sample: at Level because it is    *)
(* true now, at Edge because it is true now or its baseline is.            *)
(***************************************************************************)
LEMMA MatchHasSample ==
    ASSUME TypeOK, TrueBaselineHasSample,
           NEW i \in DOMAIN store.rules, NEW j \in DOMAIN Triggers(store.rules[i]),
           trigger_edge_matches(Baseline, store.rules, i, j)
    PROVE  HasSample(store.rules, i, j)
<1> DEFINE rs == store.rules
           tr == Triggers(rs[i])[j]
           key == TriggerKey(rs, i, j)
<1>1. rs \in Rulesets
  BY DEF TypeOK, Arcs
<1>2. tr \in Trigger
  BY <1>1, TriggerTopic
<1>3. Current(tr) => latest[tr.topic] # NoSample
  BY DEF Current, Live
<1>4. CASE tr.mode = "Level"
  BY <1>3, <1>4 DEF trigger_edge_matches, HasSample
<1>5. CASE tr.mode = "Edge" /\ ~Current(tr)
  <2>1. key \in Keys /\ key[1] = tr.topic
    BY <1>1, <1>5, EdgeKeyInKeys DEF TriggerKey
  <2>2. Baseline[key] # "unseen" /\ Baseline[key] # "false"
    BY <1>5 DEF trigger_edge_matches, Recorded
  <2>3. prev[key] = "true"
    BY <2>1, <2>2 DEF Baseline, NoBaseline, TypeOK, Outcome
  <2>4. QED
    BY <2>1, <2>3 DEF TrueBaselineHasSample, HasSample
<1>6. QED
  BY <1>2, <1>3, <1>4, <1>5 DEF Trigger, Mode, HasSample

(***************************************************************************)
(* The inductive invariant of the fail-closed guarantee.                   *)
(***************************************************************************)
IInv ==
    /\ TypeOK
    /\ ArcIdentity
    /\ BaselineOfLastRules
    /\ TrueBaselineHasSample
    /\ NoActionWithoutData

(***************************************************************************)
(* A step that leaves the rules alone and loses no sample keeps what the   *)
(* baseline and the last tick's rules rest on.                             *)
(***************************************************************************)
LEMMA SamplesKept ==
    ASSUME IInv, UNCHANGED <<prev, last_rules, fired>>,
           \A t \in Topics : latest[t] # NoSample => latest'[t] # NoSample
    PROVE  BaselineOfLastRules' /\ TrueBaselineHasSample' /\ NoActionWithoutData'
<1>1. BaselineOfLastRules'
  BY DEF IInv, BaselineOfLastRules
<1>2. TrueBaselineHasSample'
  BY KeyTopic DEF IInv, TrueBaselineHasSample
<1>3. NoActionWithoutData'
  <2> DEFINE rs == last_rules.rules
  <2>1. ASSUME NEW i \in fired, NEW j \in DOMAIN Triggers(rs[i]), HasSample(rs, i, j)
        PROVE  HasSample(rs, i, j)'
    <3>1. rs \in Rulesets /\ i \in DOMAIN rs
      BY DEF IInv, TypeOK, Arcs, NoRules
    <3>2. Triggers(rs[i])[j].topic \in Topics
      BY <3>1, TriggerTopic
    <3>3. QED
      BY <2>1, <3>2 DEF HasSample
  <2>2. ASSUME NEW i \in fired
        PROVE  AllIdx(rs[i]) \cup AnyIdx(rs[i]) = DOMAIN Triggers(rs[i])
    <3>1. rs \in Rulesets /\ i \in DOMAIN rs
      BY DEF IInv, TypeOK, Arcs, NoRules
    <3>2. QED
      BY <3>1, TriggerShape
  <2>3. QED
    BY <2>1, <2>2 DEF IInv, NoActionWithoutData
<1>4. QED
  BY <1>1, <1>2, <1>3
(***************************************************************************)
(* A tick re-establishes each part for the Arc it ran with.                *)
(***************************************************************************)
LEMMA TickKeepsBaseline ==
    ASSUME IInv, Tick
    PROVE  BaselineOfLastRules' /\ TrueBaselineHasSample'
<1> DEFINE rs == store.rules
<1>1. rs \in Rulesets
  BY DEF IInv, TypeOK, Arcs
<1>2. prev' = PrevAfter(Baseline, rs) /\ last_rules' = store /\ latest' = latest
  BY DEF Tick
<1>3. ASSUME NEW k \in Keys, Baseline[k] # "unseen"
      PROVE  k \in EdgeKeys(rs) /\ Baseline[k] = prev[k]
  <2>1. last_rules.gen = store.gen /\ Baseline = prev
    BY <1>3 DEF Baseline, NoBaseline
  <2>2. last_rules = store
    BY <2>1 DEF IInv, ArcIdentity
  <2>3. QED
    BY <1>3, <2>1, <2>2 DEF IInv, BaselineOfLastRules
<1>4. ASSUME NEW k \in Keys
      PROVE  /\ prev'[k] # "unseen" => k \in EdgeKeys(rs)
             /\ prev'[k] = "true" => latest[k[1]] # NoSample
  <2>1. CASE Writes(Baseline, rs, k)
    <3>1. k \in EdgeKeys(rs)
      BY <2>1 DEF Writes
    <3>2. prev'[k] = Recorded(Current(Triggers(rs[k[2]])[k[3]]))
      BY <1>2, <2>1 DEF PrevAfter
    <3>3. k[1] = Triggers(rs[k[2]])[k[3]].topic
      BY <1>1, <3>1, EdgeKeyShape
    <3>4. QED
      BY <3>1, <3>2, <3>3 DEF Recorded, Current, Live
  <2>2. CASE ~Writes(Baseline, rs, k)
    <3>1. prev'[k] = Baseline[k]
      BY <1>2, <2>2 DEF PrevAfter
    <3>2. QED
      BY <1>3, <3>1 DEF IInv, TrueBaselineHasSample
  <2>3. QED
    BY <2>1, <2>2
<1>5. BaselineOfLastRules'
  BY <1>2, <1>4 DEF BaselineOfLastRules
<1>6. TrueBaselineHasSample'
  BY <1>2, <1>4 DEF TrueBaselineHasSample
<1>7. QED
  BY <1>5, <1>6

LEMMA TickFiresOnData ==
    ASSUME IInv, Tick
    PROVE  NoActionWithoutData'
<1> DEFINE rs == store.rules
<1>1. rs \in Rulesets
  BY DEF IInv, TypeOK, Arcs
<1>2. last_rules' = store /\ latest' = latest
  BY DEF Tick
<1>3. ASSUME NEW i \in fired'
      PROVE  /\ Triggers(rs[i]) # <<>>
             /\ \A j \in AllIdx(rs[i]) : HasSample(rs, i, j)
             /\ rs[i].any # <<>> => \E j \in AnyIdx(rs[i]) : HasSample(rs, i, j)
  <2>1. i \in DOMAIN rs /\ when_satisfied_with_prev(Baseline, rs, i)
    BY <1>3 DEF Tick
  <2>2. AllIdx(rs[i]) \cup AnyIdx(rs[i]) = DOMAIN Triggers(rs[i])
    BY <1>1, <2>1, TriggerShape
  <2>3. ASSUME NEW j \in DOMAIN Triggers(rs[i]), trigger_edge_matches(Baseline, rs, i, j)
        PROVE  HasSample(rs, i, j)
    BY <2>1, <2>3, MatchHasSample DEF IInv
  <2>4. QED
    BY <2>1, <2>2, <2>3 DEF when_satisfied_with_prev
<1>4. QED
  BY <1>2, <1>3 DEF NoActionWithoutData, HasSample

LEMMA EngineInvariant == Spec => []IInv
<1>1. Init => IInv
  <2> SUFFICES ASSUME Init PROVE IInv
    OBVIOUS
  <2>1. TypeOK
    BY DEF Init, TypeOK, NoBaseline, Outcome, ZoneMap, Arcs, NoRules
  <2>2. ArcIdentity
    BY DEF Init, ArcIdentity, Arcs, NoRules
  <2>3. BaselineOfLastRules /\ TrueBaselineHasSample /\ NoActionWithoutData
    BY DEF Init, BaselineOfLastRules, TrueBaselineHasSample, NoActionWithoutData, NoBaseline
  <2>4. QED
    BY <2>1, <2>2, <2>3 DEF IInv
<1>2. IInv /\ TypeOK' /\ [Next]_vars => IInv'
  <2> SUFFICES ASSUME IInv, TypeOK', [Next]_vars PROVE IInv'
    OBVIOUS
  <2>1. ASSUME NEW t \in Topics, NEW p \in Payloads, IngestSample(t, p) PROVE IInv'
    <3>1. \A u \in Topics : latest[u] # NoSample => latest'[u] # NoSample
      BY <2>1, EngineConstants DEF IngestSample, IInv, TypeOK
    <3>2. UNCHANGED <<prev, last_rules, fired, store>>
      BY <2>1 DEF IngestSample
    <3>3. ArcIdentity'
      BY <3>2 DEF IInv, ArcIdentity
    <3>4. QED
      BY <3>1, <3>2, <3>3, SamplesKept DEF IInv
  <2>2. ASSUME NEW t \in ZoneTopics, NEW r \in Robots \cup {NoRobot}, IngestZone(t, r)
        PROVE  IInv'
    <3>1. UNCHANGED <<latest, prev, last_rules, fired, store>>
      BY <2>2 DEF IngestZone
    <3>2. ArcIdentity'
      BY <3>1 DEF IInv, ArcIdentity
    <3>3. QED
      BY <3>1, <3>2, SamplesKept DEF IInv
  <2>3. ASSUME NEW t \in Topics, Age(t) PROVE IInv'
    <3>1. UNCHANGED <<latest, prev, last_rules, fired, store>>
      BY <2>3 DEF Age
    <3>2. ArcIdentity'
      BY <3>1 DEF IInv, ArcIdentity
    <3>3. QED
      BY <3>1, <3>2, SamplesKept DEF IInv
  <2>4. ASSUME NEW rs \in Rulesets, SwapRules(rs) PROVE IInv'
    <3>1. UNCHANGED <<latest, prev, last_rules, fired>>
      BY <2>4 DEF SwapRules
    <3>2. ArcIdentity'
      BY <2>4 DEF SwapRules, IInv, TypeOK, ArcIdentity, Arcs, NoRules
    <3>3. QED
      BY <3>1, <3>2, SamplesKept DEF IInv
  <2>5. CASE Tick
    <3>1. ArcIdentity'
      BY <2>5 DEF Tick, IInv, TypeOK, Arcs, ArcIdentity
    <3>2. QED
      BY <2>5, <3>1, TickKeepsBaseline, TickFiresOnData DEF IInv
  <2>6. CASE UNCHANGED vars
    <3>1. UNCHANGED <<latest, prev, last_rules, fired, store>>
      BY <2>6 DEF vars
    <3>2. ArcIdentity'
      BY <3>1 DEF IInv, ArcIdentity
    <3>3. QED
      BY <3>1, <3>2, SamplesKept DEF IInv
  <2>7. QED
    BY <2>1, <2>2, <2>3, <2>4, <2>5, <2>6 DEF Next
<1>3. QED
  BY <1>1, <1>2, TypeCorrect, PTL DEF Spec

(***************************************************************************)
(* Fail-closed firing: whatever samples, zone events, expiries and swaps   *)
(* precede it, a tick returns the actions of a rule only if the topics its *)
(* guard rests on have delivered a sample.                                 *)
(***************************************************************************)
THEOREM FailClosed == Spec => [](NoActionWithoutData /\ BaselineOfLastRules)
<1>1. IInv => NoActionWithoutData /\ BaselineOfLastRules
  BY DEF IInv
<1>2. QED
  BY <1>1, EngineInvariant, PTL

-----------------------------------------------------------------------------
(***************************************************************************)
(* Without a baseline no Edge trigger matches, so no rule that needs one   *)
(* is satisfied.                                                           *)
(***************************************************************************)
LEMMA NoBaselineNoEdge ==
    ASSUME NEW rs \in Rulesets, NEW i \in DOMAIN rs, NeedsEdge(rs[i])
    PROVE  ~when_satisfied_with_prev(NoBaseline, rs, i)
<1>1. ASSUME NEW j \in DOMAIN Triggers(rs[i]), Triggers(rs[i])[j].mode = "Edge"
      PROVE  ~trigger_edge_matches(NoBaseline, rs, i, j)
  <2>1. NoBaseline[TriggerKey(rs, i, j)] = "unseen"
    BY <1>1, EdgeKeyInKeys DEF NoBaseline
  <2>2. QED
    BY <1>1, <2>1 DEF trigger_edge_matches
<1>2. CASE \E j \in DOMAIN rs[i].all : rs[i].all[j].mode = "Edge"
  <2>1. PICK j \in DOMAIN rs[i].all : rs[i].all[j].mode = "Edge"
    BY <1>2
  <2>2. j \in AllIdx(rs[i]) /\ j \in DOMAIN Triggers(rs[i])
    BY TriggerShape DEF AllIdx
  <2>3. Triggers(rs[i])[j].mode = "Edge"
    BY <2>1, TriggerShape
  <2>4. QED
    BY <1>1, <2>2, <2>3 DEF when_satisfied_with_prev
<1>3. CASE rs[i].any # <<>> /\ \A j \in DOMAIN rs[i].any : rs[i].any[j].mode = "Edge"
  <2>1. ASSUME NEW j \in AnyIdx(rs[i]) PROVE ~trigger_edge_matches(NoBaseline, rs, i, j)
    <3>1. PICK k \in DOMAIN rs[i].any : j = Len(rs[i].all) + k
      BY DEF AnyIdx
    <3>2. Triggers(rs[i])[j] = rs[i].any[k] /\ j \in DOMAIN Triggers(rs[i])
      BY <3>1, TriggerShape
    <3>3. QED
      BY <1>1, <1>3, <3>2
  <2>2. QED
    BY <1>3, <2>1 DEF when_satisfied_with_prev
<1>4. QED
  BY <1>2, <1>3 DEF NeedsEdge

(***************************************************************************)
(* Hot swap: the first tick of a new Arc fires no rule that needs an edge, *)
(* for every pair of old and new rulesets.                                 *)
(***************************************************************************)
THEOREM HotSwapSafe == Spec => SwapFiresNoEdge
<1>1. TypeOK /\ [Next]_vars =>
        [Tick /\ last_rules.gen # store.gen =>
            \A i \in fired' : ~NeedsEdge(store.rules[i])]_vars
  <2> SUFFICES ASSUME TypeOK, Tick, last_rules.gen # store.gen,
                      NEW i \in fired', NeedsEdge(store.rules[i])
               PROVE  FALSE
    OBVIOUS
  <2>1. store.rules \in Rulesets
    BY DEF TypeOK, Arcs
  <2>2. Baseline = NoBaseline
    BY DEF Baseline
  <2>3. i \in DOMAIN store.rules /\ when_satisfied_with_prev(Baseline, store.rules, i)
    BY DEF Tick
  <2>4. QED
    BY <2>1, <2>2, <2>3, NoBaselineNoEdge
<1>2. QED
  BY <1>1, TypeCorrect, PTL DEF Spec, SwapFiresNoEdge

-----------------------------------------------------------------------------
(***************************************************************************)
(* Edges: the baseline of a trigger is an outcome it has had, and that of a*)
(* trigger alone in its guard is the outcome of the tick before.           *)
(***************************************************************************)
\* What prev holds for a trigger was one of its outcomes under the last Arc.
BaselineWasHeld ==
    /\ held \in [Keys -> SUBSET {"false", "true"}]
    /\ \A k \in Keys : prev[k] # "unseen" => prev[k] \in held[k]

\* The guard is one Edge trigger.
Lone(when) == Len(when.all) = 1 /\ when.any = <<>> /\ EdgeIdx(when) = {1}

\* A trigger alone in its guard is evaluated at every tick.
LoneIsUpToDate ==
    \A i \in DOMAIN last_rules.rules : Lone(last_rules.rules[i]) =>
        prev[TriggerKey(last_rules.rules, i, 1)] = was[TriggerKey(last_rules.rules, i, 1)]

EInv == BaselineWasHeld /\ LoneIsUpToDate

LEMMA HistoryIsSpec == HSpec => Spec
<1>1. HInit => Init
  BY DEF HInit
<1>2. [HNext]_hvars => [Next]_vars
  BY DEF HNext, HTick, Next, hvars, vars
<1> QED
  BY <1>1, <1>2, PTL DEF HSpec, Spec

LEMMA RecordedType == ASSUME NEW b PROVE Recorded(b) \in {"false", "true"}
BY DEF Recorded

\* The trigger of a lone rule is evaluated whatever its baseline is.
LEMMA LoneShape ==
    ASSUME NEW rs \in Rulesets, NEW i \in DOMAIN rs, Lone(rs[i])
    PROVE  /\ 1 \in DOMAIN rs[i].all /\ AllIdx(rs[i]) = {1}
           /\ 1 \in DOMAIN Triggers(rs[i]) /\ Triggers(rs[i])[1].mode = "Edge"
           /\ TriggerKey(rs, i, 1) \in EdgeKeys(rs) /\ TriggerKey(rs, i, 1) \in Keys
           /\ TriggerKey(rs, i, 1)[2] = i /\ TriggerKey(rs, i, 1)[3] = 1
           /\ \A base : 1 \in Evaluated(base, rs, i)
<1>1. rs[i].all \in Seq(Trigger)
  BY TriggerShape DEF When
<1>2. DOMAIN rs[i].all = 1..1
  BY <1>1 DEF Lone
<1>3. 1 \in DOMAIN rs[i].all /\ AllIdx(rs[i]) = {1} /\ rs[i].all[1].mode = "Edge"
  BY <1>2 DEF AllIdx, Lone, EdgeIdx
<1>4. 1 \in DOMAIN Triggers(rs[i]) /\ Triggers(rs[i])[1].mode = "Edge"
  BY <1>3, TriggerShape
<1>5. TriggerKey(rs, i, 1) \in EdgeKeys(rs) /\ TriggerKey(rs, i, 1) \in Keys
  BY <1>4, EdgeKeyInKeys
<1>6. \A base : 1 \in Evaluated(base, rs, i)
  BY <1>3 DEF Evaluated
<1> QED
  BY <1>3, <1>4, <1>5, <1>6 DEF TriggerKey

\* Baseline and history start over together.
LEMMA BaselineIsHistory ==
    ASSUME IInv, EInv
    PROVE  /\ \A k \in Keys : Baseline[k] # "unseen" =>
                 Baseline[k] \in HeldBefore[k] /\ k \in EdgeKeys(store.rules)
           /\ HeldBefore \in [Keys -> SUBSET {"false", "true"}]
           /\ \A i \in DOMAIN store.rules : Lone(store.rules[i]) =>
                 Baseline[TriggerKey(store.rules, i, 1)] = Before[TriggerKey(store.rules, i, 1)]
<1>1. CASE last_rules.gen = store.gen
  <2>1. last_rules = store /\ Baseline = prev /\ HeldBefore = held /\ Before = was
    BY <1>1 DEF IInv, ArcIdentity, Baseline, HeldBefore, Before
  <2> QED
    BY <2>1 DEF IInv, BaselineOfLastRules, EInv, BaselineWasHeld, LoneIsUpToDate
<1>2. CASE last_rules.gen # store.gen
  <2>1. Baseline = NoBaseline /\ Before = NoBaseline /\ HeldBefore = [k \in Keys |-> {}]
    BY <1>2 DEF Baseline, HeldBefore, Before
  <2> QED
    BY <2>1 DEF NoBaseline
<1> QED
  BY <1>1, <1>2

LEMMA TickKeepsHistory ==
    ASSUME IInv, EInv, HTick
    PROVE  EInv'
<1> DEFINE rs == store.rules
<1>1. rs \in Rulesets
  BY DEF IInv, TypeOK, Arcs
<1>2. /\ prev' = PrevAfter(Baseline, rs) /\ last_rules' = store
      /\ was' = [k \in Keys |-> IF k \in EdgeKeys(rs) THEN KeyOutcome(rs, k) ELSE "unseen"]
      /\ held' = [k \in Keys |-> IF k \in EdgeKeys(rs) THEN HeldBefore[k] \cup {KeyOutcome(rs, k)}
                                 ELSE {}]
  BY DEF HTick, Tick
<1>3. ASSUME NEW k \in Keys
      PROVE  KeyOutcome(rs, k) \in {"false", "true"}
  BY RecordedType DEF KeyOutcome
<1>4. held' \in [Keys -> SUBSET {"false", "true"}]
  BY <1>2, <1>3, BaselineIsHistory
<1>5. ASSUME NEW k \in Keys, prev'[k] # "unseen"
      PROVE  prev'[k] \in held'[k]
  <2>1. CASE Writes(Baseline, rs, k)
    BY <1>2, <2>1 DEF PrevAfter, Writes, KeyOutcome
  <2>2. CASE ~Writes(Baseline, rs, k)
    <3>1. prev'[k] = Baseline[k]
      BY <1>2, <2>2 DEF PrevAfter
    <3> QED
      BY <1>2, <1>5, <3>1, BaselineIsHistory
  <2> QED
    BY <2>1, <2>2
<1>6. ASSUME NEW i \in DOMAIN rs, Lone(rs[i])
      PROVE  prev'[TriggerKey(rs, i, 1)] = was'[TriggerKey(rs, i, 1)]
  <2> DEFINE key == TriggerKey(rs, i, 1)
  <2>1. key \in Keys /\ key \in EdgeKeys(rs) /\ key[2] = i /\ key[3] = 1
          /\ 1 \in Evaluated(Baseline, rs, i)
    BY <1>1, <1>6, LoneShape
  <2>2. Writes(Baseline, rs, key)
    BY <2>1 DEF Writes
  <2> QED
    BY <1>2, <2>1, <2>2 DEF PrevAfter, KeyOutcome
<1>7. LoneIsUpToDate'
  BY <1>2, <1>6 DEF LoneIsUpToDate
<1> QED
  BY <1>4, <1>5, <1>7 DEF EInv, BaselineWasHeld

LEMMA StepKeepsHistory ==
    ASSUME IInv, EInv, [HNext]_hvars
    PROVE  EInv'
<1>1. CASE HTick
  BY <1>1, TickKeepsHistory
<1>2. CASE UNCHANGED <<prev, last_rules, was, held>>
  BY <1>2 DEF EInv, BaselineWasHeld, LoneIsUpToDate
<1> QED
  BY <1>1, <1>2 DEF HNext, hvars, IngestSample, IngestZone, Age, SwapRules

LEMMA HistoryInvariant == HSpec => [](IInv /\ EInv)
<1>1. HInit => EInv
  BY LoneShape DEF HInit, Init, EInv, BaselineWasHeld, LoneIsUpToDate, NoBaseline
<1>2. IInv /\ EInv /\ [HNext]_hvars => EInv'
  BY StepKeepsHistory
<1> QED
  BY <1>1, <1>2, HistoryIsSpec, EngineInvariant, PTL DEF HSpec

\* An Edge trigger that lets its rule fire has been both false and true at ticks of
\* the ruleset in force, for every ruleset and however its guard is cut short.
THEOREM EdgesHappened == HSpec => EdgesAreWitnessed
<1>1. ASSUME IInv, EInv, HTick, NEW i \in fired', NEW j \in EdgeIdx(store.rules[i])
      PROVE  held'[TriggerKey(store.rules, i, j)] = {"false", "true"}
  <2> DEFINE rs == store.rules
             key == TriggerKey(rs, i, j)
             now == Recorded(Current(Triggers(rs[i])[j]))
  <2>1. rs \in Rulesets /\ i \in DOMAIN rs /\ when_satisfied_with_prev(Baseline, rs, i)
    BY <1>1 DEF IInv, TypeOK, Arcs, HTick, Tick
  <2>2. j \in AllIdx(rs[i]) /\ rs[i].all[j].mode = "Edge"
    BY DEF EdgeIdx, AllIdx
  <2>3. j \in DOMAIN Triggers(rs[i]) /\ Triggers(rs[i])[j].mode = "Edge"
    BY <2>1, <2>2, TriggerShape DEF AllIdx
  <2>4. key \in EdgeKeys(rs) /\ key \in Keys /\ key[2] = i /\ key[3] = j
    BY <2>1, <2>3, EdgeKeyInKeys DEF TriggerKey
  <2>5. trigger_edge_matches(Baseline, rs, i, j)
    BY <2>1, <2>2 DEF when_satisfied_with_prev
  <2>6. Baseline[key] # "unseen" /\ Baseline[key] # now
    BY <2>3, <2>5 DEF trigger_edge_matches
  <2>7. held'[key] = HeldBefore[key] \cup {now}
    BY <1>1, <2>4 DEF HTick, KeyOutcome
  <2>8. Baseline[key] \in HeldBefore[key] /\ HeldBefore[key] \subseteq {"false", "true"}
    BY <1>1, <2>4, <2>6, BaselineIsHistory
  <2>9. now \in {"false", "true"}
    BY RecordedType
  <2> QED
    BY <2>6, <2>7, <2>8, <2>9
<1>2. IInv /\ EInv /\ [HNext]_hvars =>
        [HTick => \A i \in fired' : \A j \in EdgeIdx(store.rules[i]) :
            held'[TriggerKey(store.rules, i, j)] = {"false", "true"}]_hvars
  BY <1>1
<1> QED
  BY <1>2, HistoryInvariant, PTL DEF HSpec, EdgesAreWitnessed

\* A rule guarded by one Edge trigger fires in exactly the ticks that change its
\* outcome, for every ruleset around it.
THEOREM LoneEdgeFires == HSpec => LoneEdgeIsExact
<1>1. ASSUME IInv, EInv, HTick, NEW i \in DOMAIN store.rules, Lone(store.rules[i])
      PROVE  i \in fired' <=>
               Before[TriggerKey(store.rules, i, 1)]
                  \notin {"unseen", was'[TriggerKey(store.rules, i, 1)]}
  <2> DEFINE rs == store.rules
             key == TriggerKey(rs, i, 1)
             now == Recorded(Current(Triggers(rs[i])[1]))
  <2>1. rs \in Rulesets
    BY <1>1 DEF IInv, TypeOK, Arcs
  <2>2. /\ AllIdx(rs[i]) = {1} /\ Triggers(rs[i])[1].mode = "Edge"
        /\ 1 \in DOMAIN Triggers(rs[i])
        /\ key \in EdgeKeys(rs) /\ key \in Keys /\ key[2] = i /\ key[3] = 1
    BY <1>1, <2>1, LoneShape
  <2>3. Triggers(rs[i]) # <<>>
    BY <2>2
  <2>4. was'[key] = now
    BY <1>1, <2>2 DEF HTick, KeyOutcome
  <2>5. trigger_edge_matches(Baseline, rs, i, 1) <=> Baseline[key] \notin {"unseen", now}
    BY <2>2 DEF trigger_edge_matches
  <2>6. i \in fired' <=> trigger_edge_matches(Baseline, rs, i, 1)
    BY <1>1, <2>2, <2>3 DEF HTick, Tick, when_satisfied_with_prev, Lone
  <2>7. Baseline[key] = Before[key]
    BY <1>1, BaselineIsHistory
  <2> QED
    BY <2>4, <2>5, <2>6, <2>7
<1>2. IInv /\ EInv /\ [HNext]_hvars =>
        [HTick => \A i \in DOMAIN store.rules :
            LET when == store.rules[i]
                key == TriggerKey(store.rules, i, 1)
            IN  (Len(when.all) = 1 /\ when.any = <<>> /\ EdgeIdx(when) = {1}) =>
                  (i \in fired' <=> Before[key] \notin {"unseen", was'[key]})]_hvars
  BY <1>1 DEF Lone
<1> QED
  BY <1>2, HistoryInvariant, PTL DEF HSpec, LoneEdgeIsExact
=============================================================================
