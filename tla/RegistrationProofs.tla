------------------------- MODULE RegistrationProofs -------------------------
(***************************************************************************)
(* Proofs about fleet registration for any processes, robots, retries and  *)
(* restarts: type correctness, the contract of the lease, the alerts, that *)
(* a death is noticed unless the grant came after it, and that a client    *)
(* with an Ack is not forgotten.                                           *)
(***************************************************************************)
EXTENDS RegistrationHistory, TLAPS

USE DEF NoReply

LEMMA AppendKeepsType ==
    ASSUME NEW S, NEW s \in Seq(S), NEW e \in S
    PROVE  Append(s, e) \in Seq(S)
OBVIOUS

LEMMA TailKeepsType ==
    ASSUME NEW S, NEW s \in Seq(S), s # <<>>
    PROVE  Head(s) \in S /\ Tail(s) \in Seq(S)
OBVIOUS

LEMMA IntoKeepsType ==
    ASSUME NEW h, NEW q \in Seq(Robots), NEW r \in Robots
    PROVE  Into(h, q, r) \in Seq(Robots)
BY AppendKeepsType DEF Into

\* A process backs off only when an attempt is left.
BackoffHasAttempt == \A p \in Procs : pc[p] = "backoff" => attempt[p] < Retries

TInv == TypeOK /\ BackoffHasAttempt

LEMMA ExitType ==
    ASSUME TInv, NEW p \in Procs, Exit(p)
    PROVE  TInv'
<1>1. Into("heartbeat", hbQ, RobotOf[p]) \in Seq(Robots)
  BY RegistrationConstants, IntoKeepsType DEF TInv, TypeOK
<1> QED
  BY <1>1 DEF TInv, TypeOK, BackoffHasAttempt, Exit, serverVars, PC

LEMMA ClientType ==
    ASSUME TInv, NEW p \in Procs, Client(p)
    PROVE  TInv'
<1>1. CASE Start(p)
  <2>1. run[p] + 1 \in Nat
    BY DEF TInv, TypeOK
  <2> QED
    BY <1>1, <2>1, RegistrationConstants DEF Start, TInv, TypeOK, BackoffHasAttempt, serverVars, PC
<1>2. CASE Register(p)
  <2>1. Into("reg", regQ, RobotOf[p]) \in Seq(Robots)
    BY RegistrationConstants, IntoKeepsType DEF TInv, TypeOK
  <2> QED
    BY <1>2, <2>1 DEF Register, TInv, TypeOK, BackoffHasAttempt, serverVars, PC
<1>3. CASE Timeout(p)
  <2>1. CASE attempt[p] < Retries
    BY <1>3, <2>1 DEF Timeout, TInv, TypeOK, BackoffHasAttempt, serverVars, PC
  <2> QED
    BY <1>3, <2>1, ExitType DEF Timeout
<1>4. CASE Retry(p)
  <2>1. attempt[p] + 1 \in 1..Retries
    BY <1>4, RegistrationConstants DEF Retry, TInv, TypeOK, BackoffHasAttempt
  <2> QED
    BY <1>4, <2>1 DEF Retry, TInv, TypeOK, BackoffHasAttempt, serverVars, PC
<1>5. CASE Answered(p)
  <2>1. CASE reply[p] = "Ack"
    BY <1>5, <2>1 DEF Answered, TInv, TypeOK, BackoffHasAttempt, serverVars, PC
  <2> QED
    BY <1>5, <2>1, ExitType DEF Answered
<1>6. CASE Deregister(p)
  <2>1. Into("dereg", deregQ, RobotOf[p]) \in Seq(Robots)
    BY RegistrationConstants, IntoKeepsType DEF TInv, TypeOK
  <2> QED
    BY <1>6, <2>1 DEF Deregister, TInv, TypeOK, BackoffHasAttempt, serverVars, PC
<1>7. CASE Crash(p)
  BY <1>7, ExitType DEF Crash
<1> QED
  BY <1>1, <1>2, <1>3, <1>4, <1>5, <1>6, <1>7 DEF Client

LEMMA ServerType ==
    ASSUME TInv,
           \/ HandleRegister \/ HandleDeregister \/ HandleDelete \/ Restart
           \/ \E r \in Robots : PublishResponse(r) \/ PublishAlert(r)
           \/ \E h \in Mortal : TaskEnds(h)
    PROVE  TInv'
<1> USE DEF TInv, TypeOK, BackoffHasAttempt
<1>1. CASE HandleRegister
  <2>1. Head(regQ) \in Robots /\ Tail(regQ) \in Seq(Robots)
    BY <1>1, TailKeepsType DEF HandleRegister
  <2>2. clients' \in [Robots -> ClientState]
    BY <1>1, <2>1 DEF HandleRegister, ClientState
  <2>3. answer' \in [Robots -> Status \cup {NoReply}]
    BY <1>1, <2>1 DEF HandleRegister, Status
  <2> QED
    BY <1>1, <2>1, <2>2, <2>3 DEF HandleRegister, clientVars
<1>2. CASE HandleDeregister
  <2>1. Head(deregQ) \in Robots /\ Tail(deregQ) \in Seq(Robots)
    BY <1>2, TailKeepsType DEF HandleDeregister
  <2> QED
    BY <1>2, <2>1 DEF HandleDeregister, clientVars, ClientState
<1>3. CASE HandleDelete
  <2>1. Head(hbQ) \in Robots /\ Tail(hbQ) \in Seq(Robots)
    BY <1>3, TailKeepsType DEF HandleDelete
  <2>2. clients' \in [Robots -> ClientState]
    BY <1>3, <2>1 DEF HandleDelete, ClientState
  <2>3. alerting' \subseteq Robots
    BY <1>3, <2>1 DEF HandleDelete
  <2> QED
    BY <1>3, <2>1, <2>2, <2>3 DEF HandleDelete, clientVars
<1>4. CASE Restart
  BY <1>4, RegistrationConstants DEF Restart, FreshTable, NoAnswer, clientVars, ClientState
<1>5. CASE \E h \in Mortal : TaskEnds(h)
  <2>1. PICK h \in Mortal : TaskEnds(h)
    BY <1>5
  <2>2. /\ regQ' \in Seq(Robots) /\ deregQ' \in Seq(Robots) /\ hbQ' \in Seq(Robots)
        /\ stopped' \subseteq Mortal
    BY <2>1 DEF TaskEnds
  <2>3. answer' \in [Robots -> Status \cup {NoReply}] /\ alerting' \subseteq Robots
    BY <2>1 DEF TaskEnds, NoAnswer
  <2> QED
    BY <2>1, <2>2, <2>3 DEF TaskEnds, clientVars
<1>6. ASSUME NEW r \in Robots, PublishResponse(r)
      PROVE  TInv'
  <2>1. answer[r] \in Status /\ answer' \in [Robots -> Status \cup {NoReply}]
    BY <1>6 DEF PublishResponse
  <2>2. reply' \in [Procs -> Status \cup {NoReply}]
    BY <1>6, <2>1 DEF PublishResponse
  <2> QED
    BY <1>6, <2>1, <2>2 DEF PublishResponse
<1>7. ASSUME NEW r \in Robots, PublishAlert(r)
      PROVE  TInv'
  <2>1. alerts' = alerts \/ alerts' = [alerts EXCEPT ![r] = @ + 1]
    BY <1>7 DEF PublishAlert
  <2>2. alerts' \in [Robots -> Nat]
    <3>1. alerts \in [Robots -> Nat]
      OBVIOUS
    <3> HIDE DEF TInv, TypeOK
    <3> QED
      BY <2>1, <3>1
  <2> QED
    BY <1>7, <2>2 DEF PublishAlert, clientVars
<1> QED
  BY <1>1, <1>2, <1>3, <1>4, <1>5, <1>6, <1>7

LEMMA StepType ==
    ASSUME TInv, [Next]_vars
    PROVE  TInv'
<1>1. CASE \E p \in Procs : Client(p)
  BY <1>1, ClientType
<1>2. CASE UNCHANGED vars
  BY <1>2 DEF vars, TInv, TypeOK, BackoffHasAttempt
<1> QED
  BY <1>1, <1>2, ServerType DEF Next

LEMMA InitType == Init => TInv
BY RegistrationConstants
DEF Init, TInv, TypeOK, BackoffHasAttempt, FreshTable, NoAnswer, ClientState, PC

\* Every variable of the table, the queues and the processes keeps its type in every
\* interleaving of clients, server tasks and restarts.
THEOREM TypeCorrect == Spec => []TypeOK
<1>1. Init => TInv
  BY InitType
<1>2. TInv /\ [Next]_vars => TInv'
  BY StepType
<1>3. TInv => TypeOK
  BY DEF TInv
<1> QED
  BY <1>1, <1>2, <1>3, PTL DEF Spec

-----------------------------------------------------------------------------
(* The contract.  A client step leaves the table alone, so it is a stutter *)
(* of the contract; each server task maps to one of its actions.           *)

LEMMA ClientsLeaveTheTable ==
    ASSUME NEW p \in Procs, Client(p)
    PROVE  UNCHANGED <<clients, answer, alerting, alerts, restarts, stopped>>
BY DEF Client, Start, Register, Timeout, Retry, Answered, Deregister, Crash, Exit, serverVars

LEMMA StepIsPromised ==
    ASSUME TypeOK, Next
    PROVE  [Promise!Next]_lease
<1>1. CASE \E p \in Procs : Client(p)
  BY <1>1, ClientsLeaveTheTable DEF lease
<1>2. CASE HandleRegister
  <2> DEFINE r == Head(regQ)
  <2>1. r \in Robots
    BY <1>2, TailKeepsType DEF HandleRegister, TypeOK
  <2>2. CASE clients[r] \in {"Unknown", "Expected"}
    <3>1. clients' = [clients EXCEPT ![r] = "Registered"]
      BY <1>2, <2>2 DEF HandleRegister
    <3>2. Promise!Grant(r)
      BY <2>1, <2>2, <3>1 DEF Promise!Grant, lease, TypeOK
    <3> QED
      BY <2>1, <3>2 DEF Promise!Next
  <2>3. CASE clients[r] \in {"Registered", "Poisoned"}
    BY <1>2, <2>3 DEF HandleRegister, lease
  <2> QED
    BY <2>1, <2>2, <2>3 DEF TypeOK, ClientState
<1>3. CASE HandleDeregister
  <2> DEFINE r == Head(deregQ)
  <2>1. r \in Robots
    BY <1>3, TailKeepsType DEF HandleDeregister, TypeOK
  <2>2. CASE clients[r] = "Registered"
    <3>1. clients' = [clients EXCEPT ![r] = "Unknown"]
      BY <1>3, <2>2 DEF HandleDeregister
    <3>2. Promise!Release(r)
      BY <2>1, <2>2, <3>1 DEF Promise!Release, lease, TypeOK
    <3> QED
      BY <2>1, <3>2 DEF Promise!Next
  <2>3. CASE clients[r] # "Registered"
    BY <1>3, <2>3 DEF HandleDeregister, lease
  <2> QED
    BY <2>2, <2>3
<1>4. CASE HandleDelete
  <2> DEFINE r == Head(hbQ)
  <2>1. r \in Robots
    BY <1>4, TailKeepsType DEF HandleDelete, TypeOK
  <2>2. CASE clients[r] = "Registered"
    <3>1. clients' = [clients EXCEPT ![r] = "Poisoned"]
      BY <1>4, <2>2 DEF HandleDelete
    <3>2. Promise!Bar(r)
      BY <2>1, <2>2, <3>1 DEF Promise!Bar, lease, TypeOK
    <3> QED
      BY <2>1, <3>2 DEF Promise!Next
  <2>3. CASE clients[r] # "Registered"
    BY <1>4, <2>3 DEF HandleDelete, lease
  <2> QED
    BY <2>2, <2>3
<1>5. CASE Restart
  BY <1>5 DEF Restart, FreshTable, lease, Promise!Next, Promise!Reset, Promise!Free
<1>6. CASE \E h \in Mortal : TaskEnds(h)
  BY <1>6 DEF TaskEnds, lease
<1>7. CASE \E r \in Robots : PublishResponse(r) \/ PublishAlert(r)
  BY <1>7 DEF PublishResponse, PublishAlert, lease
<1> QED
  BY <1>1, <1>2, <1>3, <1>4, <1>5, <1>6, <1>7 DEF Next

\* The table of lease.rs under its three tasks, with late, repeated and lost
\* requests and restarts, implements the contract of the lease: poison only from
\* Registered, and for good.
THEOREM ImplementsContract == Spec => Contract
<1>1. Init => Promise!Init
  BY DEF Init, FreshTable, lease, Promise!Init, Promise!Free
<1>2. TypeOK /\ [Next]_vars => [Promise!Next]_lease
  <2>1. UNCHANGED vars => UNCHANGED lease
    BY DEF vars, lease
  <2> QED
    BY <2>1, StepIsPromised
<1> QED
  BY <1>1, <1>2, TypeCorrect, PTL DEF Spec, Contract, Promise!Spec

-----------------------------------------------------------------------------
(* The alerts.  A robot is poisoned once, being Registered before, and     *)
(* that is when its alert becomes due.                                     *)

Due(r) == IF r \in alerting THEN 1 ELSE 0
Poisonings(r) == IF clients[r] = "Poisoned" THEN 1 ELSE 0

LEMMA StepKeepsAlerts ==
    ASSUME TypeOK, AtMostOneAlert, [Next]_vars, NEW r \in Robots
    PROVE  alerts'[r] + Due(r)' <= Poisonings(r)'
<1> USE DEF Due, Poisonings
<1>0. alerts[r] \in Nat /\ alerts[r] + Due(r) <= Poisonings(r)
  BY DEF AtMostOneAlert, TypeOK
<1>1. CASE UNCHANGED <<clients, alerting, alerts>>
  BY <1>0, <1>1
<1>2. CASE HandleRegister
  <2>1. Head(regQ) \in Robots
    BY <1>2, TailKeepsType DEF HandleRegister, TypeOK
  <2>2. UNCHANGED <<alerting, alerts>> /\ (clients[r] = "Poisoned" => clients'[r] = "Poisoned")
    BY <1>2, <2>1 DEF HandleRegister, TypeOK
  <2> QED
    BY <1>0, <2>2
<1>3. CASE HandleDeregister
  <2>1. UNCHANGED <<alerting, alerts>> /\ (clients[r] = "Poisoned" => clients'[r] = "Poisoned")
    BY <1>3 DEF HandleDeregister, TypeOK
  <2> QED
    BY <1>0, <2>1
<1>4. CASE HandleDelete
  <2>1. alerts' = alerts /\ alerting = {}
    BY <1>4 DEF HandleDelete
  <2>2. CASE r = Head(hbQ) /\ clients[r] = "Registered"
    <3>1. clients'[r] = "Poisoned" /\ alerts[r] = 0
      BY <1>0, <1>4, <2>2 DEF HandleDelete, TypeOK
    <3> QED
      BY <2>1, <3>1
  <2>3. CASE ~(r = Head(hbQ) /\ clients[r] = "Registered")
    <3>1. clients'[r] = clients[r] /\ r \notin alerting'
      BY <1>4, <2>1, <2>3 DEF HandleDelete, TypeOK
    <3> QED
      BY <1>0, <2>1, <3>1
  <2> QED
    BY <2>2, <2>3
<1>5. ASSUME NEW q \in Robots, PublishAlert(q)
      PROVE  alerts'[r] + Due(r)' <= Poisonings(r)'
  <2>1. clients' = clients /\ q \in alerting /\ alerting' = alerting \ {q}
    BY <1>5 DEF PublishAlert
  <2>2. alerts'[r] = alerts[r] \/ (q = r /\ alerts'[r] = alerts[r] + 1)
    BY <1>5 DEF PublishAlert, TypeOK
  <2> QED
    BY <1>0, <2>1, <2>2
<1>6. CASE Restart
  BY <1>6 DEF Restart, FreshTable
<1>7. CASE \E h \in Mortal : TaskEnds(h)
  <2>1. UNCHANGED <<clients, alerts>> /\ alerting' \subseteq alerting
    BY <1>7 DEF TaskEnds
  <2> QED
    BY <1>0, <2>1
<1>8. CASE \E p \in Procs : Client(p)
  BY <1>1, <1>8, ClientsLeaveTheTable
<1>9. CASE (\E q \in Robots : PublishResponse(q)) \/ UNCHANGED vars
  BY <1>1, <1>9 DEF PublishResponse, vars
<1> QED
  BY <1>2, <1>3, <1>4, <1>5, <1>6, <1>7, <1>8, <1>9 DEF Next

\* No robot that is not poisoned is alerted of, and none twice, although the alert is
\* published after the lock is released and may fail (transport.rs,
\* run_heartbeat_monitor; lease.rs, on_liveliness_delete).
THEOREM AlertsMatch == Spec => []AtMostOneAlert
<1>1. Init => AtMostOneAlert
  BY DEF Init, FreshTable, AtMostOneAlert
<1>2. TypeOK /\ AtMostOneAlert /\ [Next]_vars => AtMostOneAlert'
  BY StepKeepsAlerts DEF AtMostOneAlert, Due, Poisonings
<1> QED
  BY <1>1, <1>2, TypeCorrect, PTL DEF Spec

-----------------------------------------------------------------------------
(* A death is pending or noticed.  The history variable changes in grants  *)
(* only, and a grant is a step of reg_task.                                *)

LEMMA QueuedAfterAppend ==
    ASSUME NEW S, NEW s \in Seq(S), NEW e \in S
    PROVE  /\ \E i \in DOMAIN Append(s, e) : Append(s, e)[i] = e
           /\ \A d : (\E i \in DOMAIN s : s[i] = d)
                    => \E i \in DOMAIN Append(s, e) : Append(s, e)[i] = d
<1>1. Append(s, e)[Len(s) + 1] = e /\ Len(s) + 1 \in DOMAIN Append(s, e)
  OBVIOUS
<1>2. \A i \in DOMAIN s : i \in DOMAIN Append(s, e) /\ Append(s, e)[i] = s[i]
  OBVIOUS
<1> QED
  BY <1>1, <1>2

LEMMA QueuedAfterTail ==
    ASSUME NEW S, NEW s \in Seq(S), NEW i \in DOMAIN s, s[i] # Head(s)
    PROVE  i - 1 \in DOMAIN Tail(s) /\ Tail(s)[i - 1] = s[i]
OBVIOUS

Queued(r) == \E i \in DOMAIN hbQ : hbQ[i] = r

LEMMA ExitQueues ==
    ASSUME TInv, NEW p \in Procs, Exit(p), NEW r \in Robots, "heartbeat" \notin stopped
    PROVE  /\ Queued(r) => Queued(r)'
           /\ Alive(r)' = {} /\ Alive(r) # {} => Queued(r)'
<1>1. RobotOf[p] \in Robots /\ hbQ \in Seq(Robots)
  BY RegistrationConstants DEF TInv, TypeOK
<1>2. hbQ' = Into("heartbeat", hbQ, RobotOf[p]) => (Queued(r) => Queued(r)') /\ Queued(RobotOf[p])'
  <2>1. Into("heartbeat", hbQ, RobotOf[p]) = Append(hbQ, RobotOf[p])
    BY DEF Into
  <2> QED
    BY <1>1, <2>1, QueuedAfterAppend DEF Queued
<1>3. hbQ' = hbQ => (Queued(r) => Queued(r)')
  BY DEF Queued
<1>4. ASSUME Alive(r)' = {}, Alive(r) # {}
      PROVE  RobotOf[p] = r /\ Alive(RobotOf[p]) = {p}
  <2>1. \A q \in Procs : q # p => pc'[q] = pc[q]
    BY DEF Exit, TInv, TypeOK
  <2>2. \A q \in Procs : q # p /\ RobotOf[q] = r => pc[q] = "off"
    BY <1>4, <2>1 DEF Alive
  <2>3. PICK q \in Procs : RobotOf[q] = r /\ pc[q] # "off"
    BY <1>4 DEF Alive
  <2> QED
    BY <2>2, <2>3 DEF Alive
<1> QED
  BY <1>2, <1>3, <1>4 DEF Exit

HInv == TInv /\ HTypeOK /\ DeathIsPending

\* One client step: the table is as before, a Delete in the queue stays there, and
\* a robot's last process takes its leave through the queue.
LEMMA ClientKeepsPending ==
    ASSUME TInv, NEW p \in Procs, Client(p), NEW r \in Robots, "heartbeat" \notin stopped
    PROVE  /\ Queued(r) => Queued(r)'
           /\ Alive(r)' = {} /\ Alive(r) # {} => Queued(r)'
<1>1. CASE Exit(p)
  BY <1>1, ExitQueues
<1>2. ASSUME hbQ' = hbQ, NEW to \in PC \ {"off"}, pc' = [pc EXCEPT ![p] = to]
      PROVE  /\ Queued(r) => Queued(r)'
             /\ Alive(r)' = {} /\ Alive(r) # {} => Queued(r)'
  <2>1. Alive(r) \subseteq Alive(r)'
    BY <1>2 DEF Alive, TInv, TypeOK
  <2> QED
    BY <1>2, <2>1 DEF Queued
<1>3. Exit(p) \/ (hbQ' = hbQ /\ \E to \in PC \ {"off"} : pc' = [pc EXCEPT ![p] = to])
  BY DEF Client, Start, Register, Timeout, Retry, Answered, Deregister, Crash, PC
<1> QED
  BY <1>1, <1>2, <1>3

LEMMA StepKeepsPending ==
    ASSUME HInv, [HNext]_hvars
    PROVE  HInv'
<1> DEFINE Pending(r) == /\ clients[r] = "Registered"
                         /\ Alive(r) = {}
                         /\ ~orphan[r]
                         /\ "heartbeat" \notin stopped
                         => Queued(r)
<1>1. TInv'
  <2>1. [Next]_vars
    BY DEF HNext, hvars
  <2> QED
    BY <2>1, StepType DEF HInv
<1>2. HTypeOK'
  BY DEF HInv, HTypeOK, HNext, hvars
<1>3. \A r \in Robots : Pending(r)
  BY DEF HInv, DeathIsPending, Queued
<1>4. ASSUME NEW r \in Robots PROVE Pending(r)'
  <2>1. CASE UNCHANGED hvars
    BY <2>1, <1>3 DEF hvars, vars, Alive, Queued
  <2> SUFFICES ASSUME HNext PROVE Pending(r)'
    BY <2>1
  <2>2. /\ Granted(r) => orphan'[r] = (Alive(r) = {})
        /\ ~Granted(r) => orphan'[r] = orphan[r]
    BY DEF HNext
  <2>3. CASE \E p \in Procs : Client(p)
    <3>1. PICK p \in Procs : Client(p)
      BY <2>3
    <3>2. clients' = clients /\ stopped' = stopped /\ ~Granted(r)
      BY <3>1, ClientsLeaveTheTable DEF Granted
    <3>3. "heartbeat" \notin stopped
          => /\ Queued(r) => Queued(r)'
             /\ Alive(r)' = {} /\ Alive(r) # {} => Queued(r)'
      BY <3>1, ClientKeepsPending DEF HInv
    <3> QED
      BY <1>3, <2>2, <3>2, <3>3
  <2>4. CASE HandleRegister
    <3>1. Alive(r)' = Alive(r) /\ (Queued(r) => Queued(r)') /\ stopped' = stopped
      BY <2>4 DEF HandleRegister, clientVars, Alive, Queued
    <3>2. CASE Granted(r)
      BY <2>2, <3>1, <3>2
    <3>3. CASE ~Granted(r)
      BY <1>3, <2>2, <3>1, <3>3 DEF Granted
    <3> QED
      BY <3>2, <3>3
  <2>5. CASE HandleDeregister
    <3>1. Alive(r)' = Alive(r) /\ Queued(r)' = Queued(r) /\ stopped' = stopped
      BY <2>5 DEF HandleDeregister, clientVars, Alive, Queued
    <3>2. clients'[r] = "Registered" => clients[r] = "Registered"
      BY <2>5 DEF HandleDeregister, HInv, TInv, TypeOK
    <3> QED
      BY <1>3, <2>2, <3>1, <3>2 DEF Granted
  <2>6. CASE HandleDelete
    <3>1. Alive(r)' = Alive(r) /\ stopped' = stopped
      BY <2>6 DEF HandleDelete, clientVars, Alive
    <3>2. clients'[r] = "Registered" => clients[r] = "Registered" /\ r # Head(hbQ)
      BY <2>6 DEF HandleDelete, HInv, TInv, TypeOK
    <3>3. r # Head(hbQ) /\ Queued(r) => Queued(r)'
      <4>1. hbQ \in Seq(Robots) /\ hbQ' = Tail(hbQ)
        BY <2>6 DEF HandleDelete, HInv, TInv, TypeOK
      <4> QED
        BY <4>1, QueuedAfterTail DEF Queued
    <3> QED
      BY <1>3, <2>2, <3>1, <3>2, <3>3 DEF Granted
  <2>7. CASE Restart
    BY <2>7 DEF Restart, FreshTable
  <2>8. CASE \E h \in Mortal : TaskEnds(h)
    <3>1. PICK h \in Mortal : TaskEnds(h)
      BY <2>8
    <3>2. Alive(r)' = Alive(r) /\ clients' = clients /\ ~Granted(r)
      BY <3>1 DEF TaskEnds, clientVars, Alive, Granted
    <3>3. "heartbeat" \notin stopped' => "heartbeat" \notin stopped /\ hbQ' = hbQ
      BY <3>1 DEF TaskEnds
    <3> QED
      BY <1>3, <2>2, <3>2, <3>3 DEF Queued
  <2>9. CASE \E q \in Robots : PublishResponse(q) \/ PublishAlert(q)
    <3>1. UNCHANGED <<clients, pc, hbQ, stopped>>
      BY <2>9 DEF PublishResponse, PublishAlert, clientVars
    <3> QED
      BY <1>3, <2>2, <3>1 DEF Granted, Alive, Queued
  <2> QED
    BY <2>3, <2>4, <2>5, <2>6, <2>7, <2>8, <2>9 DEF HNext, Next
<1>5. DeathIsPending'
  BY <1>4 DEF DeathIsPending, Queued
<1> QED
  BY <1>1, <1>2, <1>5 DEF HInv

\* A registered robot whose last process has ended has its Delete in the queue of
\* the heartbeat task, unless its lease was granted after that end or the task itself
\* has ended: the one race the lock of lease.rs leaves is the order of the two queues.
THEOREM DeathIsNeverLost == HSpec => []DeathIsPending
<1>1. HInit => HInv
  <2>1. HInit => TInv
    BY InitType DEF HInit
  <2>2. HInit => HTypeOK /\ DeathIsPending
    BY DEF HInit, Init, FreshTable, HTypeOK, DeathIsPending
  <2> QED
    BY <2>1, <2>2 DEF HInv
<1>2. HInv /\ [HNext]_hvars => HInv'
  BY StepKeepsPending
<1>3. HInv => DeathIsPending
  BY DEF HInv
<1> QED
  BY <1>1, <1>2, <1>3, PTL DEF HSpec
-----------------------------------------------------------------------------
(* An Ack is kept.  For a process that is alone under its id, a request to *)
(* deregister is queued only while the table knows the robot, so no lease  *)
(* is granted before it is handled, and the one it ends is the one of the  *)
(* run that sent it.  An Ack that reg_task has still to publish counts as  *)
(* given: until then nobody can leave.                                     *)

Known(r) == clients[r] \in {"Registered", "Poisoned"}
Leaving(r) == \E i \in DOMAIN deregQ : deregQ[i] = r
LeavesOnce(r) ==
    \A i, j \in DOMAIN deregQ : deregQ[i] = r /\ deregQ[j] = r => i = j

\* The process has its Ack, or will have it when it looks.
Admitted(p) == pc[p] = "running" \/ (pc[p] = "waiting" /\ reply[p] = "Ack")

Alone(p) == /\ restarts = 0
            /\ \A q \in Procs \ {p} : RobotOf[q] = RobotOf[p] => run[q] = 0

\* reg_task has granted the lease and is about to say so.
Granting(r) == answer[r] = "Ack"

Kept(p) ==
    Alone(p) => /\ Admitted(p) \/ Granting(RobotOf[p])
                        => Known(RobotOf[p]) /\ ~Leaving(RobotOf[p])
                /\ Granting(RobotOf[p]) => ~Admitted(p)
                /\ Leaving(RobotOf[p]) => Known(RobotOf[p])
                /\ LeavesOnce(RobotOf[p])

\* A process that was never started is off.
UpWasStarted == \A p \in Procs : run[p] = 0 => pc[p] = "off"

AInv == TInv /\ UpWasStarted /\ \A p \in Procs : Kept(p)

LEMMA AppendEntries ==
    ASSUME NEW S, NEW s \in Seq(S), NEW e \in S, NEW i \in DOMAIN Append(s, e)
    PROVE  \/ i \in DOMAIN s /\ Append(s, e)[i] = s[i]
           \/ i = Len(s) + 1 /\ Append(s, e)[i] = e
OBVIOUS

LEMMA TailEntries ==
    ASSUME NEW S, NEW s \in Seq(S), s # <<>>
    PROVE  /\ 1 \in DOMAIN s /\ s[1] = Head(s)
           /\ \A i \in DOMAIN Tail(s) :
                 /\ i \in Nat /\ i + 1 \in DOMAIN s /\ i + 1 # 1
                 /\ Tail(s)[i] = s[i + 1]
OBVIOUS

\* What a step of process q does to who is admitted, started and leaving.
LEMMA ClientEffect ==
    ASSUME TInv, UpWasStarted, NEW q \in Procs, Client(q)
    PROVE  /\ UNCHANGED <<clients, answer, restarts>>
           /\ run'[q] # 0
           /\ \A p \in Procs \ {q} : run'[p] = run[p] /\ pc'[p] = pc[p] /\ reply'[p] = reply[p]
           /\ Admitted(q)' => Admitted(q)
           /\ \/ deregQ' = deregQ
              \/ deregQ' = Append(deregQ, RobotOf[q]) /\ Admitted(q) /\ ~Admitted(q)'
<1> USE DEF TInv, TypeOK, PC, Admitted, serverVars
<1>1. CASE Exit(q) /\ pc[q] # "off"
  BY <1>1 DEF Exit, UpWasStarted
<1>2. CASE Start(q)
  <2>1. run[q] + 1 # 0
    OBVIOUS
  <2> QED
    BY <1>2, <2>1 DEF Start
<1>3. CASE Register(q)
  BY <1>3 DEF Register, UpWasStarted
<1>4. CASE Timeout(q) /\ ~Exit(q)
  BY <1>4 DEF Timeout, UpWasStarted
<1>5. CASE Retry(q)
  BY <1>5 DEF Retry, UpWasStarted
<1>6. CASE Answered(q) /\ ~Exit(q)
  BY <1>6 DEF Answered, UpWasStarted
<1>7. CASE Deregister(q)
  BY <1>7 DEF Deregister, UpWasStarted, Into
<1>8. Timeout(q) \/ Answered(q) \/ Crash(q) => pc[q] # "off"
  BY DEF Timeout, Answered, Crash
<1>9. Crash(q) => Exit(q)
  BY DEF Crash
<1> QED
  BY <1>1, <1>2, <1>3, <1>4, <1>5, <1>6, <1>7, <1>8, <1>9 DEF Client

LEMMA ClientKeeps ==
    ASSUME AInv, NEW q \in Procs, Client(q)
    PROVE  UpWasStarted' /\ \A p \in Procs : Kept(p)'
<1>1. /\ UNCHANGED <<clients, answer, restarts>>
      /\ run'[q] # 0
      /\ \A p \in Procs \ {q} : run'[p] = run[p] /\ pc'[p] = pc[p] /\ reply'[p] = reply[p]
      /\ Admitted(q)' => Admitted(q)
      /\ \/ deregQ' = deregQ
         \/ deregQ' = Append(deregQ, RobotOf[q]) /\ Admitted(q) /\ ~Admitted(q)'
  BY ClientEffect DEF AInv
<1>2. UpWasStarted'
  BY <1>1 DEF AInv, UpWasStarted
<1>3. ASSUME NEW p \in Procs, Alone(p)'
      PROVE  Kept(p)'
  <2> DEFINE r == RobotOf[p]
  <2>1. p = q \/ RobotOf[q] # r
    BY <1>1, <1>3 DEF Alone
  <2>2. CASE p # q
    <3>1. Admitted(p)' = Admitted(p) /\ Known(r)' = Known(r) /\ Granting(r)' = Granting(r)
      BY <1>1, <2>2 DEF Admitted, Known, Granting
    <3>2. Alone(p)
      <4>1. \A s \in Procs \ {p} : RobotOf[s] = r => s # q
        BY <2>1, <2>2
      <4> QED
        BY <1>1, <1>3, <4>1 DEF Alone
    <3>3. Leaving(r)' => Leaving(r)
      <4>1. CASE deregQ' = deregQ
        BY <4>1 DEF Leaving
      <4>2. CASE deregQ' = Append(deregQ, RobotOf[q])
        BY <2>1, <2>2, <4>2, AppendEntries, RegistrationConstants DEF Leaving, AInv, TInv, TypeOK
      <4> QED
        BY <1>1, <4>1, <4>2
    <3>4. LeavesOnce(r)'
      <4>0. LeavesOnce(r)
        BY <3>2 DEF AInv, Kept
      <4>1. CASE deregQ' = deregQ
        BY <4>0, <4>1 DEF LeavesOnce
      <4>2. CASE deregQ' = Append(deregQ, RobotOf[q])
        <5>1. \A i \in DOMAIN deregQ' : deregQ'[i] = r => i \in DOMAIN deregQ /\ deregQ[i] = r
          BY <2>1, <2>2, <4>2, AppendEntries, RegistrationConstants DEF AInv, TInv, TypeOK
        <5> QED
          BY <4>0, <5>1 DEF LeavesOnce
      <4> QED
        BY <1>1, <4>1, <4>2
    <3> QED
      BY <3>1, <3>2, <3>3, <3>4 DEF AInv, Kept
  <2>3. CASE p = q
    <3>1. Alone(p) /\ Known(r)' = Known(r) /\ Granting(r)' = Granting(r)
      BY <1>1, <1>3, <2>3 DEF Alone, Known, Granting
    <3>2. CASE deregQ' = deregQ
      BY <1>1, <2>3, <3>1, <3>2 DEF AInv, Kept, Leaving, LeavesOnce
    <3>3. CASE deregQ' = Append(deregQ, RobotOf[q]) /\ Admitted(q) /\ ~Admitted(q)'
      <4>1. Known(r) /\ ~Leaving(r) /\ ~Granting(r)
        BY <2>3, <3>1, <3>3 DEF AInv, Kept
      <4>2. \A i \in DOMAIN deregQ' : deregQ'[i] = r => i = Len(deregQ) + 1
        BY <2>3, <3>3, <4>1, AppendEntries, RegistrationConstants DEF AInv, TInv, TypeOK, Leaving
      <4> QED
        BY <2>3, <3>1, <3>3, <4>1, <4>2 DEF Kept, LeavesOnce
    <3> QED
      BY <1>1, <3>2, <3>3
  <2> QED
    BY <2>2, <2>3
<1> QED
  BY <1>2, <1>3 DEF Kept

LEMMA RegisterKeeps ==
    ASSUME AInv, HandleRegister, NEW p \in Procs
    PROVE  Kept(p)'
<1> DEFINE r == RobotOf[p]
<1>1. r \in Robots /\ Head(regQ) \in Robots
  BY RegistrationConstants, TailKeepsType DEF HandleRegister, AInv, TInv, TypeOK
<1>2. /\ Alone(p)' = Alone(p) /\ Leaving(r)' = Leaving(r) /\ LeavesOnce(r)' = LeavesOnce(r)
      /\ Admitted(p)' = Admitted(p)
  BY DEF HandleRegister, clientVars, Alone, Leaving, LeavesOnce, Admitted
<1>3. Known(r) => Known(r)'
  BY <1>1 DEF HandleRegister, Known, AInv, TInv, TypeOK
<1>4. CASE Known(r) \/ Head(regQ) # r
  <2>1. ~Granting(r)'
    BY <1>1, <1>4 DEF HandleRegister, NoAnswer, Granting, Known, AInv, TInv, TypeOK
  <2> QED
    BY <1>2, <1>3, <2>1 DEF AInv, Kept
<1>5. CASE ~Known(r) /\ Head(regQ) = r
  <2>1. Known(r)'
    BY <1>1, <1>5 DEF HandleRegister, Known, AInv, TInv, TypeOK
  <2> QED
    BY <1>2, <1>5, <2>1 DEF AInv, Kept
<1> QED
  BY <1>4, <1>5

\* The publication of an Ack admits the process, that of anything else nobody.
LEMMA ResponseKeeps ==
    ASSUME AInv, NEW q \in Robots, PublishResponse(q), NEW p \in Procs
    PROVE  Kept(p)'
<1> DEFINE r == RobotOf[p]
<1>1. r \in Robots /\ answer \in [Robots -> Status \cup {NoReply}]
  BY RegistrationConstants DEF AInv, TInv, TypeOK
<1>2. /\ Alone(p)' = Alone(p) /\ Leaving(r)' = Leaving(r) /\ LeavesOnce(r)' = LeavesOnce(r)
      /\ Known(r)' = Known(r)
  BY DEF PublishResponse, Alone, Leaving, LeavesOnce, Known
<1>3. Granting(r)' => Granting(r) /\ q # r
  BY <1>1 DEF PublishResponse, Granting
<1>4. Admitted(p)' => Admitted(p) \/ (q = r /\ Granting(r))
  BY DEF PublishResponse, Admitted, Granting
<1> QED
  BY <1>2, <1>3, <1>4 DEF AInv, Kept

LEMMA DeregisterKeeps ==
    ASSUME AInv, HandleDeregister, NEW p \in Procs
    PROVE  Kept(p)'
<1> DEFINE r == RobotOf[p]
<1>1. r \in Robots /\ deregQ \in Seq(Robots) /\ deregQ # <<>> /\ deregQ' = Tail(deregQ)
  BY RegistrationConstants DEF HandleDeregister, AInv, TInv, TypeOK
<1>2. Alone(p)' = Alone(p) /\ Admitted(p)' = Admitted(p) /\ Granting(r)' = Granting(r)
  BY DEF HandleDeregister, clientVars, Alone, Admitted, Granting
<1>3. /\ 1 \in DOMAIN deregQ /\ deregQ[1] = Head(deregQ)
      /\ \A i \in DOMAIN deregQ' : /\ i \in Nat /\ i + 1 \in DOMAIN deregQ /\ i + 1 # 1
                                   /\ deregQ'[i] = deregQ[i + 1]
  BY <1>1, TailEntries
<1>4. LeavesOnce(r) => LeavesOnce(r)'
  <2> SUFFICES ASSUME LeavesOnce(r), NEW i \in DOMAIN deregQ', NEW j \in DOMAIN deregQ',
                      deregQ'[i] = r, deregQ'[j] = r
               PROVE  i = j
    BY DEF LeavesOnce
  <2>1. i + 1 = j + 1
    BY <1>3 DEF LeavesOnce
  <2> QED
    BY <1>3, <2>1
<1>5. CASE Head(deregQ) = r
  <2>1. Leaving(r)
    BY <1>3, <1>5 DEF Leaving
  <2>2. LeavesOnce(r) => ~Leaving(r)'
    BY <1>3, <1>5 DEF Leaving, LeavesOnce
  <2> QED
    BY <1>2, <1>4, <2>1, <2>2 DEF AInv, Kept
<1>6. CASE Head(deregQ) # r
  <2>1. Leaving(r)' => Leaving(r)
    BY <1>3 DEF Leaving
  <2>2. Known(r)' = Known(r)
    BY <1>1, <1>6 DEF HandleDeregister, Known, AInv, TInv, TypeOK
  <2> QED
    BY <1>2, <1>4, <2>1, <2>2 DEF AInv, Kept
<1> QED
  BY <1>5, <1>6

LEMMA StepKeeps ==
    ASSUME AInv, [Next]_vars
    PROVE  AInv'
<1>1. TInv'
  BY StepType DEF AInv
<1>2. CASE \E q \in Procs : Client(q)
  BY <1>1, <1>2, ClientKeeps DEF AInv
<1>3. ASSUME UNCHANGED <<pc, run, reply>>
      PROVE  UpWasStarted' /\ \A p \in Procs : Admitted(p)' = Admitted(p)
  BY <1>3 DEF AInv, UpWasStarted, Admitted
<1>4. CASE HandleRegister
  BY <1>1, <1>4, RegisterKeeps DEF HandleRegister, clientVars, AInv, UpWasStarted
<1>5. CASE HandleDeregister
  BY <1>1, <1>5, DeregisterKeeps DEF HandleDeregister, clientVars, AInv, UpWasStarted
<1>6. CASE HandleDelete
  <2>1. \A p \in Procs : Known(RobotOf[p]) => Known(RobotOf[p])'
    BY <1>6, RegistrationConstants DEF HandleDelete, Known, AInv, TInv, TypeOK
  <2>2. UNCHANGED <<deregQ, answer, restarts, pc, run, reply>>
    BY <1>6 DEF HandleDelete, clientVars
  <2> QED
    BY <1>1, <1>3, <2>1, <2>2 DEF AInv, Kept, Granting, Alone, Leaving, LeavesOnce
<1>7. CASE Restart
  <2>1. restarts' # 0
    BY <1>7 DEF Restart, AInv, TInv, TypeOK
  <2> QED
    BY <1>1, <1>3, <1>7, <2>1 DEF Restart, clientVars, AInv, Kept, Alone
<1>8. CASE \E h \in Mortal : TaskEnds(h)
  <2>1. UNCHANGED <<clients, restarts, pc, run, reply>> /\ (deregQ' = deregQ \/ deregQ' = <<>>)
    BY <1>8 DEF TaskEnds, clientVars
  <2>2. \A p \in Procs : Granting(RobotOf[p])' => Granting(RobotOf[p])
    BY <1>8, RegistrationConstants DEF TaskEnds, NoAnswer, Granting
  <2> QED
    BY <1>1, <1>3, <2>1, <2>2 DEF AInv, Kept, Alone, Known, Leaving, LeavesOnce
<1>9. CASE (\E r \in Robots : PublishAlert(r)) \/ UNCHANGED vars
  <2>1. UNCHANGED <<clients, deregQ, answer, restarts, pc, run, reply>>
    BY <1>9 DEF PublishAlert, clientVars, vars
  <2> QED
    BY <1>1, <1>3, <2>1 DEF AInv, Kept, Granting, Alone, Known, Leaving, LeavesOnce
<1>10. CASE \E r \in Robots : PublishResponse(r)
  BY <1>1, <1>10, ResponseKeeps DEF PublishResponse, AInv, UpWasStarted
<1> QED
  BY <1>2, <1>4, <1>5, <1>6, <1>7, <1>8, <1>9, <1>10 DEF Next

\* While the server lives, a robot whose only process has an Ack is in the table: no
\* stale deregistration, late request, Delete of an earlier run or end of a server
\* task makes the lease of a running client disappear.
THEOREM AckIsKept == Spec => []AckedIsKnown
<1>1. Init => AInv
  <2>1. Init => UpWasStarted /\ \A p \in Procs : Kept(p)
    BY RegistrationConstants DEF Init, NoAnswer, UpWasStarted, Kept, Granting, Admitted, Leaving, LeavesOnce
  <2> QED
    BY <2>1, InitType DEF AInv
<1>2. AInv /\ [Next]_vars => AInv'
  BY StepKeeps
<1>3. AInv => AckedIsKnown
  BY DEF AInv, Kept, Alone, Admitted, Known, AckedIsKnown
<1> QED
  BY <1>1, <1>2, <1>3, PTL DEF Spec
=============================================================================
