-------------------------- MODULE EngineLoopProofs --------------------------
(***************************************************************************)
(* Proofs about the engine's life for any topics, rulesets and number of   *)
(* swaps: type correctness, the readiness gate, the agreement of the two   *)
(* halves of the store, the cover of the current topics by subscriber      *)
(* tasks, and that no swap is lost by the subscription rebuild.            *)
(***************************************************************************)
EXTENDS EngineLoop, TLAPS

USE DEF Up

(* Facts about sequences.                                                  *)

LEMMA AppendKeepsPrefix ==
    ASSUME NEW S, NEW s \in Seq(S), NEW e \in S
    PROVE  /\ Append(s, e) \in Seq(S)
           /\ Len(Append(s, e)) = Len(s) + 1
           /\ \A i \in DOMAIN s : i \in DOMAIN Append(s, e) /\ Append(s, e)[i] = s[i]
           /\ Len(s) + 1 \in DOMAIN Append(s, e)
OBVIOUS

LEMMA TailType ==
    ASSUME NEW S, NEW s \in Seq(S), s # <<>>
    PROVE  Head(s) \in S /\ Tail(s) \in Seq(S)
OBVIOUS

InSeq(t, s) == \E i \in DOMAIN s : s[i] = t

LEMMA InTail ==
    ASSUME NEW S, NEW s \in Seq(S), s # <<>>
    PROVE  /\ InSeq(Head(s), s)
           /\ \A t : InSeq(t, s) => t = Head(s) \/ InSeq(t, Tail(s))
           /\ \A t : InSeq(t, Tail(s)) => InSeq(t, s)
<1>1. Len(s) # 0 /\ Head(s) = s[1] /\ 1 \in DOMAIN s
  OBVIOUS
<1>2. \A i \in DOMAIN s : i # 1 => i - 1 \in DOMAIN Tail(s) /\ Tail(s)[i - 1] = s[i]
  OBVIOUS
<1>3. \A i \in DOMAIN Tail(s) : i + 1 \in DOMAIN s /\ Tail(s)[i] = s[i + 1]
  OBVIOUS
<1> QED
  BY <1>1, <1>2, <1>3 DEF InSeq

LEMMA TopicsOfType ==
    ASSUME NEW rs \in Rulesets
    PROVE  /\ TopicsOf[rs] \in Seq(Topics)
           /\ TopicSet(rs) \subseteq Topics
           /\ \A t : InSeq(t, TopicsOf[rs]) <=> t \in TopicSet(rs)
<1>1. TopicsOf[rs] \in Seq(Topics)
  BY LoopConstants
<1>2. \A i \in DOMAIN TopicsOf[rs] : TopicsOf[rs][i] \in Topics
  BY <1>1
<1> QED
  BY <1>1, <1>2 DEF TopicSet, InSeq

-----------------------------------------------------------------------------
(* Types.                                                                  *)

LEMMA SwapInnerType ==
    ASSUME TypeOK, NEW rs \in Rulesets, SwapInner(rs)
    PROVE  /\ TypeOK'
           /\ DOMAIN arcs \subseteq DOMAIN arcs'
           /\ \A i \in DOMAIN arcs : arcs'[i] = arcs[i]
<1>1. /\ arcs' \in Seq(Rulesets) /\ Len(arcs') = Len(arcs) + 1
      /\ \A i \in DOMAIN arcs : i \in DOMAIN arcs' /\ arcs'[i] = arcs[i]
      /\ inner' \in DOMAIN arcs'
  BY AppendKeepsPrefix DEF SwapInner, TypeOK
<1>2. Len(arcs') \in Gens
  BY <1>1, LoopConstants DEF SwapInner, TypeOK, Gens
<1> QED
  BY <1>1, <1>2 DEF SwapInner, TypeOK, subVars, gateVars

LEMMA EngineType ==
    ASSUME TypeOK, Engine
    PROVE  TypeOK'
<1>0. arcs \in Seq(Rulesets) /\ \A i \in DOMAIN arcs : arcs[i] \in Rulesets
  BY DEF TypeOK
<1>1. CASE SubscribeZones
  BY <1>1 DEF SubscribeZones, Die, TypeOK, storeVars, Starting, Looping
<1>2. CASE ReadCurrent
  <2>1. TopicsOf[arcs[inner]] \in Seq(Topics)
    BY <1>0, TopicsOfType DEF TypeOK
  <2> QED
    BY <1>2, <2>1 DEF ReadCurrent, TypeOK, storeVars, gateVars, Starting, Looping
<1>3. CASE SubscribeTopic
  <2>1. Head(todo) \in Topics /\ Tail(todo) \in Seq(Topics)
    BY <1>3, TailType DEF SubscribeTopic, TypeOK
  <2>2. live' \in [Topics -> Nat]
    BY <1>3, <2>1 DEF SubscribeTopic, TypeOK
  <2> QED
    BY <1>3, <2>1, <2>2 DEF SubscribeTopic, TypeOK, storeVars, gateVars
<1>4. CASE SubscribeFails
  BY <1>4 DEF SubscribeFails, Die, TypeOK, storeVars, Starting, Looping
<1>5. CASE SubscribeDone
  <2>1. TopicSet(arcs[target]) \subseteq Topics
    BY <1>0, TopicsOfType DEF TypeOK
  <2> QED
    BY <1>5, <2>1 DEF SubscribeDone, TypeOK, storeVars, gateVars, Starting, Looping
<1>6. CASE Signal
  BY <1>6 DEF Signal, TypeOK, storeVars, subVars, Starting, Looping
<1>7. CASE WatchStore
  BY <1>7 DEF WatchStore, TypeOK, storeVars, subVars, gateVars, Starting, Looping
<1>8. CASE Tick
  BY <1>8 DEF Tick, TypeOK, storeVars, subVars, gateVars
<1>9. CASE Changed
  BY <1>9 DEF Changed, TypeOK, storeVars, subVars, gateVars, Starting, Looping
<1>10. CASE Coalesce
  BY <1>10 DEF Coalesce, TypeOK, storeVars, subVars, gateVars, Starting, Looping
<1>11. CASE CompareTopics
  <2>1. TopicsOf[arcs[watch.val]] \in Seq(Topics)
    BY <1>0, TopicsOfType DEF TypeOK
  <2> QED
    BY <1>11, <2>1 DEF CompareTopics, TypeOK, storeVars, gateVars, Starting, Looping
<1> QED
  BY <1>1, <1>2, <1>3, <1>4, <1>5, <1>6, <1>7, <1>8, <1>9, <1>10, <1>11 DEF Engine

LEMMA StepType ==
    ASSUME TypeOK, [Next]_vars
    PROVE  TypeOK'
<1>1. CASE \E rs \in Rulesets : SwapInner(rs)
  BY <1>1, SwapInnerType
<1>2. CASE SwapNotify
  BY <1>2 DEF SwapNotify, TypeOK, subVars, gateVars
<1>3. CASE FlipReady
  BY <1>3 DEF FlipReady, TypeOK, storeVars, subVars
<1>4. CASE AwaitShutdown
  BY <1>4 DEF AwaitShutdown, TypeOK, storeVars, subVars
<1>5. CASE UNCHANGED vars
  BY <1>5 DEF vars, TypeOK
<1> QED
  BY <1>1, <1>2, <1>3, <1>4, <1>5, EngineType DEF Next

LEMMA InitType == Init => TypeOK
<1> SUFFICES ASSUME Init PROVE TypeOK
  OBVIOUS
<1>1. arcs \in Seq(Rulesets) /\ Len(arcs) = 1 /\ 1 \in DOMAIN arcs
  <2>1. PICK rs \in Rulesets : arcs = <<rs>>
    BY DEF Init
  <2> QED
    BY <2>1
<1>2. Len(arcs) \in Gens
  BY <1>1, LoopConstants DEF Gens
<1>3. /\ inner \in DOMAIN arcs /\ watch \in [val : DOMAIN arcs, ver : Nat]
      /\ last_rules \in DOMAIN arcs /\ target \in DOMAIN arcs
  BY <1>1 DEF Init
<1>4. /\ todo \in Seq(Topics) /\ live \in [Topics -> Nat]
      /\ current_topics \subseteq Topics /\ subscribers \subseteq Topics
  BY DEF Init
<1>5. /\ reload \in {"idle", "written"} /\ pc \in Starting \cup Looping \cup {"dead"}
      /\ seen \in Nat /\ subscribed \in {"pending", "sent", "dropped"}
      /\ ready \in BOOLEAN /\ proc \in {"up", "down"}
  BY DEF Init, Starting
<1> QED
  BY <1>1, <1>2, <1>3, <1>4, <1>5 DEF TypeOK

\* Every variable of store, loop, gate and supervisor keeps its type; in particular
\* no task ever holds a pointer to rules that were not allocated.
THEOREM TypeCorrect == Spec => []TypeOK
<1>1. Init => TypeOK
  BY InitType
<1>2. TypeOK /\ [Next]_vars => TypeOK'
  BY StepType
<1> QED
  BY <1>1, <1>2, PTL DEF Spec

-----------------------------------------------------------------------------
(* The gate.  The oneshot is pending exactly while the engine makes its    *)
(* first subscriptions, and the gate is flipped only after it.             *)

Before == {"zones", "current", "subscribe", "signal"}
PendingMeansBefore == subscribed = "pending" <=> pc \in Before
ReadyAfterSignal == ready => subscribed # "pending"
GateInv == PendingMeansBefore /\ ReadyAfterSignal

LEMMA StepKeepsGate ==
    ASSUME TypeOK, GateInv, [Next]_vars
    PROVE  GateInv'
<1> USE DEF GateInv, PendingMeansBefore, ReadyAfterSignal, Before
<1>1. CASE \E rs \in Rulesets : SwapInner(rs)
  BY <1>1 DEF SwapInner, gateVars
<1>2. CASE SwapNotify
  BY <1>2 DEF SwapNotify, gateVars
<1>3. CASE FlipReady
  BY <1>3 DEF FlipReady
<1>4. CASE AwaitShutdown
  BY <1>4 DEF AwaitShutdown
<1>5. CASE UNCHANGED vars
  BY <1>5 DEF vars
<1>6. CASE SubscribeZones
  BY <1>6 DEF SubscribeZones, Die
<1>7. CASE SubscribeFails
  BY <1>7 DEF SubscribeFails, Die
<1>8. CASE ReadCurrent \/ SubscribeTopic \/ SubscribeDone
  BY <1>8 DEF ReadCurrent, SubscribeTopic, SubscribeDone, gateVars
<1>9. CASE Signal \/ WatchStore
  BY <1>9 DEF Signal, WatchStore, gateVars
<1>10. CASE Tick \/ Changed \/ Coalesce \/ CompareTopics
  BY <1>10 DEF Tick, Changed, Coalesce, CompareTopics, gateVars
<1> QED
  BY <1>1, <1>2, <1>3, <1>4, <1>5, <1>6, <1>7, <1>8, <1>9, <1>10 DEF Next, Engine

LEMMA GateAlways == Spec => []GateInv
<1>1. Init => GateInv
  BY DEF Init, GateInv, PendingMeansBefore, ReadyAfterSignal, Before
<1>2. TypeOK /\ GateInv /\ [Next]_vars => GateInv'
  BY StepKeepsGate
<1> QED
  BY <1>1, <1>2, TypeCorrect, PTL DEF Spec

-----------------------------------------------------------------------------
(* The store.  Nothing is sent before the loop has its receiver, so the    *)
(* first version is one the loop can see; from then on each send carries   *)
(* what the lock holds.                                                    *)

NothingSentBeforeLoop == pc \in Starting => watch.ver = 0 /\ seen = 0
SeenIsPast == seen <= watch.ver
StoreInv == NothingSentBeforeLoop /\ SeenIsPast /\ StoreConverges

LEMMA StepKeepsStore ==
    ASSUME TypeOK, StoreInv, [Next]_vars
    PROVE  StoreInv'
<1> USE DEF StoreInv, NothingSentBeforeLoop, SeenIsPast, StoreConverges, HasReceiver,
            Starting, Looping
<1>1. CASE \E rs \in Rulesets : SwapInner(rs)
  BY <1>1 DEF SwapInner
<1>2. CASE SwapNotify
  BY <1>2 DEF SwapNotify, TypeOK
<1>3. CASE FlipReady \/ AwaitShutdown \/ UNCHANGED vars
  BY <1>3 DEF FlipReady, AwaitShutdown, storeVars, vars
<1>4. CASE SubscribeZones
  BY <1>4 DEF SubscribeZones, Die, storeVars
<1>5. CASE SubscribeFails
  BY <1>5 DEF SubscribeFails, Die, storeVars
<1>6. CASE ReadCurrent \/ SubscribeTopic \/ SubscribeDone
  BY <1>6 DEF ReadCurrent, SubscribeTopic, SubscribeDone, storeVars
<1>7. CASE Signal \/ WatchStore
  BY <1>7 DEF Signal, WatchStore, storeVars, TypeOK
<1>8. CASE Tick \/ Changed \/ Coalesce \/ CompareTopics
  BY <1>8 DEF Tick, Changed, Coalesce, CompareTopics, storeVars, TypeOK
<1> QED
  BY <1>1, <1>2, <1>3, <1>4, <1>5, <1>6, <1>7, <1>8 DEF Next, Engine

LEMMA StoreAlways == Spec => []StoreInv
<1>1. Init => StoreInv
  BY DEF Init, StoreInv, NothingSentBeforeLoop, SeenIsPast, StoreConverges, HasReceiver,
         Starting, Looping
<1>2. TypeOK /\ StoreInv /\ [Next]_vars => StoreInv'
  BY StepKeepsStore
<1> QED
  BY <1>1, <1>2, TypeCorrect, PTL DEF Spec

\* After the first swap the loop is told of, lock and channel agree whenever no swap
\* is half done.
THEOREM StoreIsConsistent == Spec => []StoreConverges
<1>1. StoreInv => StoreConverges
  BY DEF StoreInv
<1> QED
  BY <1>1, StoreAlways, PTL

-----------------------------------------------------------------------------
(* The cover.  Subscriber tasks are never stopped, so a topic stays        *)
(* covered; while subscribe_to_topics runs, each topic of its target is    *)
(* covered or still to come.                                               *)

Subscribing == pc \in {"subscribe", "rebuild"}
Covered(t) == live[t] > 0
CurrentCovered == \A t \in current_topics : Covered(t)
TargetCovered ==
    Subscribing => \A t \in TopicSet(arcs[target]) : Covered(t) \/ InSeq(t, todo)
CoverInv == CurrentCovered /\ TargetCovered

\* The rules behind the pointers a task holds are the same in the next state.
LEMMA PointersKeep ==
    ASSUME TypeOK, [Next]_vars
    PROVE  /\ \A i \in DOMAIN arcs : arcs'[i] = arcs[i]
           /\ target \in DOMAIN arcs /\ watch.val \in DOMAIN arcs
           /\ arcs[target] \in Rulesets /\ arcs[watch.val] \in Rulesets
<1>1. target \in DOMAIN arcs /\ watch.val \in DOMAIN arcs
  BY DEF TypeOK
<1>2. arcs[target] \in Rulesets /\ arcs[watch.val] \in Rulesets
  BY <1>1 DEF TypeOK
<1>3. CASE \E rs \in Rulesets : SwapInner(rs)
  BY <1>1, <1>2, <1>3, SwapInnerType
<1>4. CASE UNCHANGED arcs
  BY <1>1, <1>2, <1>4
<1>5. (\E rs \in Rulesets : SwapInner(rs)) \/ UNCHANGED arcs
  BY DEF Next, Engine, SwapNotify, FlipReady, AwaitShutdown, SubscribeZones, ReadCurrent,
         SubscribeTopic, SubscribeFails, SubscribeDone, Signal, WatchStore, Tick, Changed,
         Coalesce, CompareTopics, storeVars, vars
<1> QED
  BY <1>3, <1>4, <1>5

\* A step that neither subscribes nor starts or ends a subscription round.
LEMMA OtherStepsKeepCover ==
    ASSUME TypeOK, CoverInv, [Next]_vars,
           UNCHANGED <<live, current_topics, target, todo>>,
           Subscribing' => Subscribing
    PROVE  CoverInv'
BY PointersKeep DEF CoverInv, CurrentCovered, TargetCovered, Covered, Subscribing

LEMMA StepKeepsCover ==
    ASSUME TypeOK, CoverInv, [Next]_vars
    PROVE  CoverInv'
<1>1. CASE ReadCurrent
  <2>1. \A t : t \in TopicSet(arcs[inner]) <=> InSeq(t, TopicsOf[arcs[inner]])
    BY TopicsOfType DEF TypeOK
  <2>2. UNCHANGED <<arcs, live, current_topics>> /\ target' = inner
        /\ todo' = TopicsOf[arcs[inner]]
    BY <1>1 DEF ReadCurrent, storeVars
  <2> QED
    BY <2>1, <2>2 DEF CoverInv, CurrentCovered, TargetCovered, Covered
<1>2. CASE SubscribeTopic
  <2>1. todo \in Seq(Topics) /\ todo # <<>> /\ live \in [Topics -> Nat]
    BY <1>2 DEF SubscribeTopic, TypeOK
  <2>2. Head(todo) \in Topics
    BY <2>1, TailType
  <2>3. /\ live' = [live EXCEPT ![Head(todo)] = @ + 1] /\ todo' = Tail(todo)
        /\ UNCHANGED <<arcs, target, current_topics, pc>>
    BY <1>2 DEF SubscribeTopic, storeVars
  <2>4. live'[Head(todo)] > 0 /\ \A t \in Topics : live[t] > 0 => live'[t] > 0
    BY <2>1, <2>2, <2>3
  <2>5. \A t : InSeq(t, todo) => t = Head(todo) \/ InSeq(t, todo')
    BY <2>1, <2>3, InTail
  <2>6. TopicSet(arcs[target]) \subseteq Topics /\ current_topics \subseteq Topics
    BY PointersKeep, TopicsOfType DEF TypeOK
  <2>7. Subscribing
    BY <1>2 DEF SubscribeTopic, Subscribing
  <2>8. \A t \in TopicSet(arcs[target]) : live'[t] > 0 \/ InSeq(t, todo')
    BY <2>4, <2>5, <2>6, <2>7 DEF CoverInv, TargetCovered, Covered
  <2>9. \A t \in current_topics : live'[t] > 0
    BY <2>4, <2>6 DEF CoverInv, CurrentCovered, Covered
  <2> QED
    BY <2>3, <2>8, <2>9 DEF CoverInv, CurrentCovered, TargetCovered, Covered
<1>3. CASE SubscribeDone
  <2>1. \A t : ~InSeq(t, <<>>)
    BY DEF InSeq
  <2>2. /\ todo = <<>> /\ Subscribing /\ current_topics' = TopicSet(arcs[target])
        /\ live' = live /\ ~Subscribing'
    BY <1>3 DEF SubscribeDone, Subscribing
  <2> QED
    BY <2>1, <2>2 DEF CoverInv, CurrentCovered, TargetCovered, Covered
<1>4. CASE SubscribeFails
  BY <1>4 DEF SubscribeFails, Die, Subscribing, CoverInv, CurrentCovered, TargetCovered, Covered
<1>5. CASE CompareTopics
  <2>1. CASE TopicSet(arcs[watch.val]) = current_topics
    BY <1>5, <2>1, OtherStepsKeepCover DEF CompareTopics, Subscribing
  <2>2. CASE TopicSet(arcs[watch.val]) # current_topics
    <3>1. \A t : t \in TopicSet(arcs[watch.val]) <=> InSeq(t, TopicsOf[arcs[watch.val]])
      BY PointersKeep, TopicsOfType
    <3>2. /\ UNCHANGED <<arcs, live, current_topics>> /\ target' = watch.val
          /\ todo' = TopicsOf[arcs[watch.val]]
      BY <1>5, <2>2 DEF CompareTopics, storeVars
    <3> QED
      BY <3>1, <3>2 DEF CoverInv, CurrentCovered, TargetCovered, Covered
  <2> QED
    BY <2>1, <2>2
<1>6. CASE \E rs \in Rulesets : SwapInner(rs)
  BY <1>6, OtherStepsKeepCover DEF SwapInner, subVars, Subscribing
<1>7. CASE SwapNotify \/ FlipReady \/ AwaitShutdown \/ UNCHANGED vars
  BY <1>7, OtherStepsKeepCover
  DEF SwapNotify, FlipReady, AwaitShutdown, subVars, vars, Subscribing
<1>8. CASE SubscribeZones \/ Signal \/ WatchStore \/ Tick \/ Changed \/ Coalesce
  BY <1>8, OtherStepsKeepCover
  DEF SubscribeZones, Die, Signal, WatchStore, Tick, Changed, Coalesce, subVars, Subscribing
<1> QED
  BY <1>1, <1>2, <1>3, <1>4, <1>5, <1>6, <1>7, <1>8 DEF Next, Engine

LEMMA CoverAlways == Spec => []CoverInv
<1>1. Init => CoverInv
  BY DEF Init, CoverInv, CurrentCovered, TargetCovered, Subscribing
<1>2. TypeOK /\ CoverInv /\ [Next]_vars => CoverInv'
  BY StepKeepsCover
<1> QED
  BY <1>1, <1>2, TypeCorrect, PTL DEF Spec

\* Every topic the engine believes it is subscribed to has a running subscriber
\* task, through any sequence of swaps and half-failed rebuilds.
THEOREM CurrentTopicsAreCovered == Spec => []TopicsCovered
<1>1. CoverInv => TopicsCovered
  BY DEF CoverInv, CurrentCovered, Covered, TopicsCovered
<1> QED
  BY <1>1, CoverAlways, PTL

\* A live engine's /readyz answers 200 only past its first subscriptions, each of them
\* with a running task (engine.rs, run_engine and EvalState::run).
THEOREM GateIsSafe == Spec => []ReadyMeansSubscribed
<1>1. TypeOK /\ GateInv /\ CoverInv => ReadyMeansSubscribed
  BY DEF TypeOK, Starting, Looping, GateInv, PendingMeansBefore, ReadyAfterSignal, Before,
         CoverInv, CurrentCovered, Covered, ReadyMeansSubscribed
<1> QED
  BY <1>1, TypeCorrect, GateAlways, CoverAlways, PTL

-----------------------------------------------------------------------------
(* No lost wake-up.  While a rebuild runs, either a newer version is       *)
(* waiting to be seen or the rebuild is for the rules the channel holds.   *)

RebuildIsCurrent == pc = "rebuild" /\ seen = watch.ver => target = watch.val
TodoOfTarget == Subscribing => \A t : InSeq(t, todo) => t \in TopicSet(arcs[target])
SettledInv == RebuildIsCurrent /\ TodoOfTarget /\ SettledMeansSubscribed

\* A step that leaves loop, topics and channel alone.
LEMMA OtherStepsKeepSettled ==
    ASSUME TypeOK, SettledInv, [Next]_vars,
           UNCHANGED <<pc, seen, watch, target, todo, current_topics>>
    PROVE  SettledInv'
<1>1. TopicSet(arcs'[watch.val]) = TopicSet(arcs[watch.val])
      /\ TopicSet(arcs'[target]) = TopicSet(arcs[target])
  BY PointersKeep
<1>2. RebuildIsCurrent' /\ TodoOfTarget'
  BY <1>1 DEF SettledInv, RebuildIsCurrent, TodoOfTarget, Subscribing
<1>3. SettledMeansSubscribed'
  BY <1>1 DEF SettledInv, SettledMeansSubscribed
<1> QED
  BY <1>2, <1>3 DEF SettledInv

LEMMA StepKeepsSettled ==
    ASSUME TypeOK, StoreInv, SettledInv, [Next]_vars
    PROVE  SettledInv'
<1> USE DEF SettledInv
<1>1. CASE SwapNotify
  <2>1. CASE HasReceiver
    <3>1. watch'.ver = watch.ver + 1 /\ seen' = seen
      BY <1>1, <2>1 DEF SwapNotify
    <3>2. seen' # watch'.ver
      BY <3>1 DEF StoreInv, SeenIsPast, TypeOK
    <3>3. UNCHANGED <<arcs, pc, target, todo>>
      BY <1>1 DEF SwapNotify, subVars
    <3> QED
      BY <3>2, <3>3 DEF RebuildIsCurrent, TodoOfTarget, Subscribing, SettledMeansSubscribed
  <2>2. CASE ~HasReceiver
    BY <1>1, <2>2, OtherStepsKeepSettled DEF SwapNotify, subVars
  <2> QED
    BY <2>1, <2>2
<1>2. CASE ReadCurrent
  <2>1. \A t : InSeq(t, TopicsOf[arcs[inner]]) => t \in TopicSet(arcs[inner])
    BY TopicsOfType DEF TypeOK
  <2>2. /\ arcs' = arcs /\ target' = inner /\ todo' = TopicsOf[arcs[inner]]
        /\ pc' = "subscribe"
    BY <1>2 DEF ReadCurrent, storeVars
  <2> QED
    BY <2>1, <2>2 DEF RebuildIsCurrent, TodoOfTarget, SettledMeansSubscribed
<1>3. CASE SubscribeTopic
  <2>1. todo \in Seq(Topics) /\ todo # <<>>
    BY <1>3 DEF SubscribeTopic, TypeOK
  <2>2. /\ todo' = Tail(todo) /\ pc' = pc /\ pc # "loop"
        /\ UNCHANGED <<arcs, watch, seen, target>>
    BY <1>3 DEF SubscribeTopic, storeVars
  <2>3. \A t : InSeq(t, todo') => InSeq(t, todo)
    BY <2>1, <2>2, InTail
  <2> QED
    BY <2>2, <2>3 DEF RebuildIsCurrent, TodoOfTarget, Subscribing, SettledMeansSubscribed
<1>4. CASE SubscribeFails
  <2>1. /\ UNCHANGED <<arcs, watch, seen, target, current_topics>> /\ todo # <<>>
        /\ Head(todo) \notin ReliableTopics
        /\ pc' = "dead" \/ (pc = "rebuild" /\ pc' = "loop")
        /\ Subscribing
    BY <1>4 DEF SubscribeFails, Die, storeVars, Subscribing
  <2>2. Head(todo) \in TopicSet(arcs[target])
    BY <2>1, InTail DEF TypeOK, TodoOfTarget
  <2> QED
    BY <2>1, <2>2 DEF RebuildIsCurrent, TodoOfTarget, Subscribing, SettledMeansSubscribed
<1>5. CASE SubscribeDone
  <2>1. /\ UNCHANGED <<arcs, watch, seen, target>>
        /\ current_topics' = TopicSet(arcs[target])
        /\ pc' = "signal" \/ (pc = "rebuild" /\ pc' = "loop")
    BY <1>5 DEF SubscribeDone, storeVars
  <2> QED
    BY <2>1 DEF RebuildIsCurrent, TodoOfTarget, Subscribing, SettledMeansSubscribed
<1>6. CASE WatchStore
  <2>1. watch' = watch /\ watch.ver = 0 /\ pc' = "loop"
    BY <1>6 DEF WatchStore, storeVars, StoreInv, NothingSentBeforeLoop, Starting
  <2> QED
    BY <2>1 DEF RebuildIsCurrent, TodoOfTarget, Subscribing, SettledMeansSubscribed
<1>7. CASE CompareTopics
  <2>1. CASE TopicSet(arcs[watch.val]) = current_topics
    BY <1>7, <2>1
    DEF CompareTopics, storeVars, RebuildIsCurrent, TodoOfTarget, Subscribing,
        SettledMeansSubscribed
  <2>2. CASE TopicSet(arcs[watch.val]) # current_topics
    <3>1. \A t : InSeq(t, TopicsOf[arcs[watch.val]]) => t \in TopicSet(arcs[watch.val])
      BY PointersKeep, TopicsOfType
    <3>2. /\ UNCHANGED <<arcs, watch>> /\ target' = watch.val
          /\ todo' = TopicsOf[arcs[watch.val]] /\ pc' = "rebuild"
      BY <1>7, <2>2 DEF CompareTopics, storeVars
    <3> QED
      BY <3>1, <3>2 DEF RebuildIsCurrent, TodoOfTarget, SettledMeansSubscribed
  <2> QED
    BY <2>1, <2>2
<1>8. CASE SubscribeZones \/ Signal \/ Changed \/ Coalesce
  <2>1. pc' \in {"current", "dead", "watch", "debounce", "borrow"}
    BY <1>8 DEF SubscribeZones, Die, Signal, Changed, Coalesce
  <2> QED
    BY <2>1 DEF RebuildIsCurrent, TodoOfTarget, Subscribing, SettledMeansSubscribed
<1>9. CASE \E rs \in Rulesets : SwapInner(rs)
  BY <1>9, OtherStepsKeepSettled DEF SwapInner, subVars
<1>10. CASE Tick \/ FlipReady \/ AwaitShutdown \/ UNCHANGED vars
  BY <1>10, OtherStepsKeepSettled
  DEF Tick, FlipReady, AwaitShutdown, storeVars, subVars, vars
<1> QED
  BY <1>1, <1>2, <1>3, <1>4, <1>5, <1>6, <1>7, <1>8, <1>9, <1>10 DEF Next, Engine

\* No wake-up is lost: an engine that has seen the newest version and is back in its
\* loop is subscribed to the topics of the rules it evaluates, unless one of those
\* topics is malformed or the transport may refuse it.
THEOREM NoLostWakeUp == Spec => []SettledMeansSubscribed
<1>1. Init => SettledInv
  BY DEF Init, SettledInv, RebuildIsCurrent, TodoOfTarget, Subscribing, SettledMeansSubscribed
<1>2. TypeOK /\ StoreInv /\ SettledInv /\ [Next]_vars => SettledInv'
  BY StepKeepsSettled
<1>3. SettledInv => SettledMeansSubscribed
  BY DEF SettledInv
<1> QED
  BY <1>1, <1>2, <1>3, TypeCorrect, StoreAlways, PTL DEF Spec
=============================================================================
