----------------------------- MODULE SampleFlow -----------------------------
(***************************************************************************)
(* How samples reach the engine (src/engine.rs): every subscription has a  *)
(* task of its own that reads the subscription's FIFO and forwards with    *)
(* try_send into one bounded channel, which the select loop drains into    *)
(* EvalState::ingest.  Zone events come through two subscriptions,         *)
(* zone/*/entered and zone/*/cleared, hence through two tasks, and through *)
(* a third when a rule is triggered by a zone topic.  A rebuild that keeps *)
(* a topic subscribes to it again; the old task, detached, keeps           *)
(* forwarding (module EngineLoop counts them).                             *)
(*                                                                         *)
(* A payload is the number of the publication it came from.  The zone      *)
(* events are those of one robot and one zone: it enters, leaves, enters   *)
(* again, and announces each crossing in that order.                       *)
(***************************************************************************)
EXTENDS Topics

CONSTANTS
    Triggers,  \* trigger topics of the ruleset, as its rules spell them
    Keys,      \* keys the sensors publish under
    ZonePath,  \* what the events of the zone name: <<zone>>, or <<site, cell, robot>>
    ChanCap,   \* capacity of the sample channel (256 in the code)
    MaxPub,    \* bound: publications per sensor key
    MaxCross,  \* bound: zone crossings
    MaxTasks   \* bound: subscriber tasks per trigger topic

Verbs == {"entered", "cleared"}

\* A subscription and the name its task forwards samples under: the rule's spelling
\* of the topic, or, with no name, the sample's own key.
ZoneSubs == {[pattern |-> zone_pattern(verb), name |-> <<>>] : verb \in Verbs}
TriggerSub(t) == [pattern |-> Pattern_try_new(t), name |-> t]
Subs == ZoneSubs \cup {TriggerSub(t) : t \in Triggers}

\* ingest's test for a zone event, on a topic that is one of the contract's.
IsZone(topic) == topic[1] = "zone" /\ topic[Len(topic)] \in Verbs

\* A sensor publishes under a topic of the contract that is no zone event.
ASSUME FlowConstants ==
    /\ Triggers \subseteq Seq(STRING) \ {<<>>}
    /\ \A t \in Triggers : TriggerSub(t).pattern # TopicErr
    /\ Keys \subseteq Seq(STRING) \ {<<>>}
    /\ \A k \in Keys : /\ Topic_try_new(k) = k /\ ~IsZone(k)
                      /\ \A i \in DOMAIN k : k[i] \notin Wild
    /\ ZonePath \in Seq(STRING)
    /\ \A verb \in Verbs : zone_event(ZonePath, verb) # TopicErr
    /\ ChanCap \in Nat \ {0}
    /\ MaxPub \in Nat \ {0}
    /\ MaxCross \in Nat \ {0}
    /\ MaxTasks \in Nat \ {0}

VARIABLES
    pub,       \* sensor key -> publications so far
    crossings, \* zone crossings announced so far
    tasks,     \* subscription -> running subscriber tasks
    inbox,     \* subscription -> task -> samples it holds
    queue,     \* the sample channel
    latest,    \* trigger topic -> sample in EvalState.latest, 0 for none
    zones,     \* the zones EvalState.zones has the robot in
    lost,      \* history: subscriptions that lost a sample to a full channel
    overtaken  \* history: a crossing was forwarded before an earlier one

vars == <<pub, crossings, tasks, inbox, queue, latest, zones, lost, overtaken>>

Init ==
    /\ pub = [k \in Keys |-> 0]
    /\ crossings = 0
    /\ tasks = [s \in Subs |-> 1]
    /\ inbox = [s \in Subs |-> [k \in 1..MaxTasks |-> <<>>]]
    /\ queue = <<>>
    /\ latest = [t \in Triggers |-> 0]
    /\ zones = {}
    /\ lost = {}
    /\ overtaken = FALSE

\* The bus hands a publication to every subscription that hears its key, in order.
Deliver(key, n) ==
    inbox' = [s \in Subs |-> [k \in 1..MaxTasks |->
                 IF Hears(s.pattern, key) /\ k <= tasks[s]
                 THEN Append(inbox[s][k], [key |-> key, n |-> n]) ELSE inbox[s][k]]]

Publish(key) ==
    /\ pub[key] < MaxPub
    /\ pub' = [pub EXCEPT ![key] = @ + 1]
    /\ Deliver(key, pub'[key])
    /\ UNCHANGED <<crossings, tasks, queue, latest, zones, lost, overtaken>>

\* The robot is inside after an odd number of crossings.
Inside(n) == n % 2 = 1
Cross ==
    /\ crossings < MaxCross
    /\ crossings' = crossings + 1
    /\ LET verb == IF Inside(crossings) THEN "cleared" ELSE "entered"
       IN  Deliver(zone_event(ZonePath, verb), crossings')
    /\ UNCHANGED <<pub, tasks, queue, latest, zones, lost, overtaken>>

\* An earlier crossing than the n-th waits at some subscription.
Overtakes(n) ==
    \E s \in Subs, k \in 1..MaxTasks : \E i \in DOMAIN inbox[s][k] :
        IsZone(inbox[s][k][i].key) /\ inbox[s][k][i].n < n

\* Fault: the newest sample of the subscription is taken first.
Forward_newest_first(s, k) ==
    /\ inbox[s][k] # <<>>
    /\ LET sample == inbox[s][k][Len(inbox[s][k])]
           topic == IF s.name = <<>> THEN sample.key ELSE s.name
       IN  IF Len(queue) < ChanCap
           THEN queue' = Append(queue, [topic |-> topic, n |-> sample.n]) /\ UNCHANGED lost
           ELSE UNCHANGED queue /\ lost' = lost \cup {s}
    /\ inbox' = [inbox EXCEPT ![s][k] = SubSeq(@, 1, Len(@) - 1)]
    /\ UNCHANGED <<pub, crossings, tasks, latest, zones, overtaken>>

\* Fault: samples are passed on under their own key, not as the rule spells it.
Forward_own_key(s, k) ==
    /\ inbox[s][k] # <<>>
    /\ LET sample == Head(inbox[s][k])
       IN  IF Len(queue) < ChanCap
           THEN /\ queue' = Append(queue, [topic |-> sample.key, n |-> sample.n])
                /\ UNCHANGED lost
           ELSE UNCHANGED queue /\ lost' = lost \cup {s}
    /\ inbox' = [inbox EXCEPT ![s][k] = Tail(@)]
    /\ UNCHANGED <<pub, crossings, tasks, latest, zones, overtaken>>

\* A subscriber task takes its next sample and tries to send it; a full channel
\* drops the sample, the task goes on.
Forward(s, k) ==
    /\ inbox[s][k] # <<>>
    /\ LET sample == Head(inbox[s][k])
           topic == IF s.name = <<>> THEN sample.key ELSE s.name
       IN  /\ IF Len(queue) < ChanCap
              THEN queue' = Append(queue, [topic |-> topic, n |-> sample.n]) /\ UNCHANGED lost
              ELSE UNCHANGED queue /\ lost' = lost \cup {s}
           /\ overtaken' = (overtaken \/ (IsZone(topic) /\ Overtakes(sample.n)))
    /\ inbox' = [inbox EXCEPT ![s][k] = Tail(@)]
    /\ UNCHANGED <<pub, crossings, tasks, latest, zones>>

\* Fault: cleared events are ignored.
ingest_never_clears(s) ==
    IF IsZone(s.topic)
    THEN /\ zones' = zones \cup (IF s.topic[Len(s.topic)] = "entered" THEN {s.topic[2]} ELSE {})
         /\ UNCHANGED latest
    ELSE latest' = [latest EXCEPT ![s.topic] = s.n] /\ UNCHANGED zones

\* EvalState::ingest.  The zone is the second segment, whatever the form.
ingest(s) ==
    IF IsZone(s.topic)
    THEN /\ zones' = IF s.topic[Len(s.topic)] = "entered"
                     THEN zones \cup {s.topic[2]} ELSE zones \ {s.topic[2]}
         /\ UNCHANGED latest
    ELSE latest' = [latest EXCEPT ![s.topic] = s.n] /\ UNCHANGED zones

\* Fault: a zone event ends the sample arm.
Ingest_stops_at_zone ==
    /\ queue # <<>>
    /\ ~IsZone(Head(queue).topic)
    /\ ingest(Head(queue))
    /\ queue' = Tail(queue)
    /\ UNCHANGED <<pub, crossings, tasks, inbox, lost, overtaken>>

\* The sample arm of the select loop.
Ingest ==
    /\ queue # <<>>
    /\ ingest(Head(queue))
    /\ queue' = Tail(queue)
    /\ UNCHANGED <<pub, crossings, tasks, inbox, lost, overtaken>>

\* A hot reload changes the topic set and keeps this topic: one more task.
Resubscribe(t) ==
    /\ tasks[TriggerSub(t)] < MaxTasks
    /\ tasks' = [tasks EXCEPT ![TriggerSub(t)] = @ + 1]
    /\ UNCHANGED <<pub, crossings, inbox, queue, latest, zones, lost, overtaken>>

Next ==
    \/ \E k \in Keys : Publish(k)
    \/ Cross
    \/ \E s \in Subs, k \in 1..MaxTasks : Forward(s, k)
    \/ Ingest
    \/ \E t \in Triggers : Resubscribe(t)

Spec == Init /\ [][Next]_vars

\* Tasks that have something to forward, and the loop that has something to
\* ingest, are polled in the end; publishers owe nothing.
Fairness ==
    /\ \A s \in Subs, k \in 1..MaxTasks : WF_vars(Forward(s, k))
    /\ WF_vars(Ingest)

FairSpec == Spec /\ Fairness

-----------------------------------------------------------------------------
\* The trigger topics that name, in either spelling, what a sensor publishes under.
SensorTriggers == {t \in Triggers : ~IsZone(t) /\ canonicalize(t) \in Keys}

Waiting(s) == \E k \in 1..MaxTasks : inbox[s][k] # <<>>
InFlight(t) == Waiting(TriggerSub(t)) \/ \E i \in DOMAIN queue : queue[i].topic = t

\* A topic with one subscriber task is ingested in publication order, whatever the
\* other tasks do to the shared channel: `latest` never goes back to an older sample.
LoneTaskKeepsOrder ==
    [][\A t \in SensorTriggers :
         tasks[TriggerSub(t)] = 1 => latest'[t] >= latest[t]]_vars

\* With nothing in flight and nothing lost to a full channel, `latest` holds the
\* last publication of a topic that has one task, in whichever spelling a rule names
\* the topic.
DrainedIsCurrent ==
    \A t \in SensorTriggers :
        ~InFlight(t) /\ TriggerSub(t) \notin lost /\ tasks[TriggerSub(t)] = 1
            => latest[t] = pub[canonicalize(t)]

\* Only a lost event, or one forwarded before an earlier one of another task, can
\* leave the zone map wrong once the events are drained, also when a rule triggered
\* by a zone topic brings the events in twice.  It is stated for the form
\* zone/{zone}/...: neither subscription hears zone/{site}/{cell}/{robot}/... .  And
\* for rules that name their zone: one triggered by zone/*/entered has its samples
\* forwarded under that name, and puts the robot into a zone "*" as well.
OnlyOvertakingMisplaces ==
    (/\ Len(ZonePath) = 1 /\ \A t \in Triggers : IsZone(t) => t[2] # "*"
     /\ lost = {} /\ ~overtaken
     /\ \A s \in Subs : ~Waiting(s)
     /\ \A i \in DOMAIN queue : ~IsZone(queue[i].topic))
    => zones = IF Inside(crossings) THEN {ZonePath[1]} ELSE {}

\* The engine always catches up: no subscriber task or sample is stuck, even when
\* the channel overflowed on the way.
CatchesUp ==
    \A t \in SensorTriggers : []<>~InFlight(t)
=============================================================================
