----------------------------- MODULE EngineLoop -----------------------------
(***************************************************************************)
(* The life of the rule engine inside a process: the swappable store       *)
(* (`ActiveRules`) and its writer (`HotReload`) of src/config.rs, the      *)
(* start-up and the select loop of `EvalState::run` in src/engine.rs with  *)
(* its subscription rebuild, the readiness task of `run_engine`, and the   *)
(* supervisor of src/health.rs that turns the engine's end into the        *)
(* process's end.                                                          *)
(*                                                                         *)
(* The tasks run on a multi-threaded executor: a step here is a stretch of *)
(* one task between two points where another one can see its effects.      *)
(* What a tick computes is module RuleEngine; here a tick is the Arc it    *)
(* evaluates.                                                              *)
(***************************************************************************)
EXTENDS Naturals, Sequences

CONSTANTS
    Topics,         \* trigger topics
    ValidTopics,    \* those that Pattern::try_new accepts
    Rulesets,       \* compiled rulesets
    TopicsOf,       \* ruleset -> its trigger topics, sorted and without duplicates
    ReliableTopics, \* those of them for which Transport::subscribe never fails
    MaxGen          \* bound: Arc<Rules> allocations, the first one included

TopicSet(rs) == {TopicsOf[rs][i] : i \in DOMAIN TopicsOf[rs]}

ASSUME LoopConstants ==
    /\ ValidTopics \subseteq Topics
    /\ TopicsOf \in [Rulesets -> Seq(Topics)]
    /\ ReliableTopics \subseteq ValidTopics
    /\ MaxGen \in Nat \ {0}

VARIABLES
    arcs,    \* the Arc<Rules> allocated so far; an index is a pointer
    inner,   \* ActiveRules.inner: the Arc behind the lock
    watch,   \* the watch channel: the Arc it holds and its version
    reload,  \* HotReload: "idle", or "written" between the two halves of swap
    pc,      \* where EvalState::run is
    seen,    \* the watch version store_rx has marked as seen
    last_rules,     \* Arc of the previous tick; before the loop, initial_rules
    target,  \* Arc whose topics are being subscribed to
    todo,    \* topics that subscribe_to_topics has not reached yet
    current_topics, \* topics of the last complete subscribe_to_topics
    subscribers,    \* topics with a JoinHandle in `subscribers`
    live,    \* topic -> running subscriber tasks, owned or not
    subscribed,     \* the oneshot of run_engine: "pending", "sent", "dropped"
    ready,   \* ReadyGate
    proc     \* "up", or "down" after Supervisor::await_shutdown returned

storeVars == <<arcs, inner, watch, reload>>
subVars == <<target, todo, current_topics, subscribers, live>>
gateVars == <<subscribed, ready, proc>>
vars == <<arcs, inner, watch, reload, pc, seen, last_rules, target, todo,
          current_topics, subscribers, live, subscribed, ready, proc>>

Starting == {"zones", "current", "subscribe", "signal", "watch"}
Looping == {"loop", "debounce", "borrow", "rebuild"}
Gens == 1..MaxGen

TypeOK ==
    /\ arcs \in Seq(Rulesets) /\ Len(arcs) \in Gens
    /\ inner \in DOMAIN arcs
    /\ watch \in [val : DOMAIN arcs, ver : Nat]
    /\ reload \in {"idle", "written"}
    /\ pc \in Starting \cup Looping \cup {"dead"}
    /\ seen \in Nat
    /\ last_rules \in DOMAIN arcs
    /\ target \in DOMAIN arcs
    /\ todo \in Seq(Topics)
    /\ current_topics \subseteq Topics
    /\ subscribers \subseteq Topics
    /\ live \in [Topics -> Nat]
    /\ subscribed \in {"pending", "sent", "dropped"}
    /\ ready \in BOOLEAN
    /\ proc \in {"up", "down"}

Init ==
    /\ arcs \in {<<rs>> : rs \in Rulesets}
    /\ inner = 1
    /\ watch = [val |-> 1, ver |-> 0]
    /\ reload = "idle"
    /\ pc = "zones"
    /\ seen = 0
    /\ last_rules = 1
    /\ target = 1
    /\ todo = <<>>
    /\ current_topics = {}
    /\ subscribers = {}
    /\ live = [t \in Topics |-> 0]
    /\ subscribed = "pending"
    /\ ready = FALSE
    /\ proc = "up"

\* Every task runs until the process is gone.
Up == proc = "up"

-----------------------------------------------------------------------------
(* The store.  A rejected update changes nothing and is no step.           *)

\* store_rx exists from store.subscribe() until the engine's future is dropped.
HasReceiver == pc \in Looping

\* HotReload::run with a well-formed update: swap writes the lock ...
SwapInner(rs) ==
    /\ Up
    /\ reload = "idle"
    /\ Len(arcs) < MaxGen
    /\ arcs' = Append(arcs, rs)
    /\ inner' = Len(arcs) + 1
    /\ reload' = "written"
    /\ UNCHANGED <<watch, pc, seen, last_rules, subVars, gateVars>>

\* Fault: the loop is told only when the topics differ.
SwapNotify_if_topics_differ ==
    /\ Up
    /\ reload = "written"
    /\ watch' = IF HasReceiver /\ TopicSet(arcs[inner]) # TopicSet(arcs[watch.val])
                THEN [val |-> inner, ver |-> watch.ver + 1] ELSE watch
    /\ reload' = "idle"
    /\ UNCHANGED <<arcs, inner, pc, seen, last_rules, subVars, gateVars>>

\* ... and then sends.  watch::Sender::send without a receiver returns an error
\* and keeps the old value; the error is discarded.
SwapNotify ==
    /\ Up
    /\ reload = "written"
    /\ watch' = IF HasReceiver THEN [val |-> inner, ver |-> watch.ver + 1] ELSE watch
    /\ reload' = "idle"
    /\ UNCHANGED <<arcs, inner, pc, seen, last_rules, subVars, gateVars>>

-----------------------------------------------------------------------------
(* The engine.                                                             *)

\* The future returns an error: the sender of the oneshot, store_rx and the
\* JoinHandles are dropped.  Dropping a JoinHandle detaches its task.
Die ==
    /\ pc' = "dead"
    /\ subscribers' = {}
    /\ subscribed' = IF subscribed = "pending" THEN "dropped" ELSE subscribed

\* zone_subscriptions(...).await?
SubscribeZones ==
    /\ Up
    /\ pc = "zones"
    /\ \/ /\ pc' = "current"
          /\ UNCHANGED <<subscribers, subscribed>>
       \/ Die
    /\ UNCHANGED <<storeVars, seen, last_rules, target, todo, current_topics, live, ready, proc>>

\* initial_rules = store.current().await, and the topics of those rules.
ReadCurrent ==
    /\ Up
    /\ pc = "current"
    /\ target' = inner
    /\ todo' = TopicsOf[arcs[inner]]
    /\ pc' = "subscribe"
    /\ UNCHANGED <<storeVars, seen, last_rules, current_topics, subscribers, live, gateVars>>

\* One iteration of subscribe_to_topics that succeeds.
SubscribeTopic ==
    /\ Up
    /\ pc \in {"subscribe", "rebuild"}
    /\ todo # <<>>
    /\ Head(todo) \in ValidTopics
    /\ live' = [live EXCEPT ![Head(todo)] = @ + 1]
    /\ subscribers' = subscribers \cup {Head(todo)}
    /\ todo' = Tail(todo)
    /\ UNCHANGED <<storeVars, pc, seen, last_rules, target, current_topics, gateVars>>

\* One that fails: fatal at start-up, logged in the loop, where the topics already
\* subscribed to stay and current_topics keeps its value.
SubscribeFails ==
    /\ Up
    /\ pc \in {"subscribe", "rebuild"}
    /\ todo # <<>>
    /\ Head(todo) \notin ReliableTopics
    /\ \/ pc = "subscribe" /\ Die
       \/ pc = "rebuild" /\ pc' = "loop" /\ UNCHANGED <<subscribers, subscribed>>
    /\ todo' = <<>>
    /\ UNCHANGED <<storeVars, seen, last_rules, target, current_topics, live, ready, proc>>

\* Fault: the end of a rebuild marks as seen what came in during it.
SubscribeDone_marks_seen ==
    /\ Up
    /\ pc \in {"subscribe", "rebuild"}
    /\ todo = <<>>
    /\ current_topics' = TopicSet(arcs[target])
    /\ seen' = watch.ver
    /\ pc' = IF pc = "subscribe" THEN "signal" ELSE "loop"
    /\ UNCHANGED <<storeVars, last_rules, target, todo, subscribers, live, gateVars>>

SubscribeDone ==
    /\ Up
    /\ pc \in {"subscribe", "rebuild"}
    /\ todo = <<>>
    /\ current_topics' = TopicSet(arcs[target])
    /\ pc' = IF pc = "subscribe" THEN "signal" ELSE "loop"
    /\ UNCHANGED <<storeVars, seen, last_rules, target, todo, subscribers, live, gateVars>>

\* subscribed.send(()).
Signal ==
    /\ Up
    /\ pc = "signal"
    /\ subscribed' = "sent"
    /\ pc' = "watch"
    /\ UNCHANGED <<storeVars, seen, last_rules, subVars, ready, proc>>

\* store_rx = store.subscribe() marks the version the channel has now as seen, and
\* last_rules = initial_rules.
WatchStore ==
    /\ Up
    /\ pc = "watch"
    /\ seen' = watch.ver
    /\ last_rules' = target
    /\ pc' = "loop"
    /\ UNCHANGED <<storeVars, subVars, gateVars>>

\* The tick arm: evaluate what store_rx.borrow() holds.
Tick ==
    /\ Up
    /\ pc = "loop"
    /\ last_rules' = watch.val
    /\ UNCHANGED <<storeVars, pc, seen, subVars, gateVars>>

\* The changed arm: store_rx.changed() marks the version as seen ...
Changed ==
    /\ Up
    /\ pc = "loop"
    /\ watch.ver # seen
    /\ seen' = watch.ver
    /\ pc' = "debounce"
    /\ UNCHANGED <<storeVars, last_rules, subVars, gateVars>>

\* ... after the debounce sleep, further changes are taken in ...
Coalesce ==
    /\ Up
    /\ pc = "debounce"
    /\ seen' = watch.ver
    /\ pc' = "borrow"
    /\ UNCHANGED <<storeVars, last_rules, subVars, gateVars>>

\* Fault: current_topics is set before the subscriptions are made.
CompareTopics_early ==
    /\ Up
    /\ pc = "borrow"
    /\ IF TopicSet(arcs[watch.val]) = current_topics
       THEN pc' = "loop" /\ UNCHANGED <<target, todo, subscribers, current_topics>>
       ELSE /\ pc' = "rebuild"
            /\ target' = watch.val
            /\ todo' = TopicsOf[arcs[watch.val]]
            /\ subscribers' = {}
            /\ current_topics' = TopicSet(arcs[watch.val])
    /\ UNCHANGED <<storeVars, seen, last_rules, live, gateVars>>

\* Fault: topics that went away do not count as a difference.
CompareTopics_subset ==
    /\ Up
    /\ pc = "borrow"
    /\ IF TopicSet(arcs[watch.val]) \subseteq current_topics
       THEN pc' = "loop" /\ UNCHANGED <<target, todo, subscribers>>
       ELSE /\ pc' = "rebuild"
            /\ target' = watch.val
            /\ todo' = TopicsOf[arcs[watch.val]]
            /\ subscribers' = {}
    /\ UNCHANGED <<storeVars, seen, last_rules, current_topics, live, gateVars>>

\* ... and the topics of the Arc the channel holds are compared: equal, back to the
\* loop; different, the old handles are dropped, which stops none of their tasks.
CompareTopics ==
    /\ Up
    /\ pc = "borrow"
    /\ IF TopicSet(arcs[watch.val]) = current_topics
       THEN pc' = "loop" /\ UNCHANGED <<target, todo, subscribers>>
       ELSE /\ pc' = "rebuild"
            /\ target' = watch.val
            /\ todo' = TopicsOf[arcs[watch.val]]
            /\ subscribers' = {}
    /\ UNCHANGED <<storeVars, seen, last_rules, current_topics, live, gateVars>>

-----------------------------------------------------------------------------
\* Fault: the gate does not wait for the oneshot.
FlipReady_at_once ==
    /\ Up
    /\ ~ready
    /\ ready' = TRUE
    /\ UNCHANGED <<storeVars, pc, seen, last_rules, subVars, subscribed, proc>>

\* The task run_engine spawns: `let _ = rx.await; gate.set_ready()`.
FlipReady ==
    /\ Up
    /\ subscribed # "pending"
    /\ ~ready
    /\ ready' = TRUE
    /\ UNCHANGED <<storeVars, pc, seen, last_rules, subVars, subscribed, proc>>

\* Fault: the supervisor waits for all tasks, and hot-reload never completes.
AwaitShutdown_all ==
    /\ Up
    /\ pc = "dead"
    /\ reload = "completed"
    /\ proc' = "down"
    /\ UNCHANGED <<storeVars, pc, seen, last_rules, subVars, subscribed, ready>>

\* Supervisor::await_shutdown: the engine task has completed, the process ends.
AwaitShutdown ==
    /\ Up
    /\ pc = "dead"
    /\ proc' = "down"
    /\ UNCHANGED <<storeVars, pc, seen, last_rules, subVars, subscribed, ready>>

Engine ==
    \/ SubscribeZones \/ ReadCurrent \/ SubscribeTopic \/ SubscribeFails
    \/ SubscribeDone \/ Signal \/ WatchStore \/ Tick \/ Changed \/ Coalesce
    \/ CompareTopics

Next ==
    \/ \E rs \in Rulesets : SwapInner(rs)
    \/ SwapNotify
    \/ Engine
    \/ FlipReady
    \/ AwaitShutdown

\* The executor keeps polling every task that is ready, and select! picks at random
\* among its ready arms, so a pending change is taken in the end although ticks go
\* on.  Updates from the bus are not obliged to arrive.
Fairness ==
    /\ WF_vars(SwapNotify)
    /\ WF_vars(Engine)
    /\ WF_vars(Changed)
    /\ WF_vars(FlipReady)
    /\ WF_vars(AwaitShutdown)

Spec == Init /\ [][Next]_vars
FairSpec == Spec /\ Fairness

-----------------------------------------------------------------------------
\* While the engine lives, /readyz answers 200 only past its first subscriptions, with
\* a running subscriber task for each topic of the rules they were made for, although
\* the task that flips the gate and the one that subscribes run side by side.
ReadyMeansSubscribed ==
    ready /\ pc # "dead" =>
        pc \in {"watch"} \cup Looping /\ \A t \in current_topics : live[t] > 0

\* Once a swap has been notified, the watch channel and the lock hold the same Arc
\* whenever no swap is half done: later ticks cannot run on superseded rules.
StoreConverges ==
    watch.ver > 0 /\ reload = "idle" /\ HasReceiver => watch.val = inner

\* No lost wake-up in the loop: when the engine has marked the newest version as
\* seen and is back in its loop, it is subscribed to the topics of the rules it
\* evaluates - however swaps fell into debounce, comparison and rebuild, and
\* whatever rebuilds failed before - unless subscribing to one of them may fail.
SettledMeansSubscribed ==
    (pc = "loop" /\ watch.ver > 0 /\ seen = watch.ver) =>
        LET wanted == TopicSet(arcs[watch.val])
        IN  wanted \subseteq ReliableTopics => current_topics = wanted

\* Every topic the engine believes it is subscribed to has a running subscriber
\* task, through rebuilds that fail half way and are followed by others.
TopicsCovered ==
    pc \in Looping => \A t \in current_topics : live[t] > 0

\* A notified ruleset whose topics can be subscribed to is subscribed to in the end,
\* if it is not replaced, whatever other rulesets failed before it.
RulesGetSubscribed ==
    \A g \in Gens :
        (g \in DOMAIN arcs /\ watch.val = g /\ watch.ver > 0
           /\ TopicSet(arcs[g]) \subseteq ReliableTopics)
        ~> (watch.val # g \/ current_topics = TopicSet(arcs[g]))

\* No process stays up without an engine: start-up ends with the gate flipped and
\* the engine in its loop, or with the process down.
ServingOrDown == <>(proc = "down" \/ (ready /\ pc \in Looping))

-----------------------------------------------------------------------------
\* What the comments on ActiveRules say: the watch channel always holds the latest
\* value.
WatchHoldsLatest ==
    HasReceiver /\ reload = "idle" => watch.val = inner

\* "the probe never reports ready while the engine is still subscribing (or dead)"
\* (src/runtime.rs, start_common_subsystems): as long as /readyz is served.
ReadyMeansServing ==
    ready /\ proc = "up" => pc \in {"watch"} \cup Looping
=============================================================================
