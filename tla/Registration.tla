---------------------------- MODULE Registration ----------------------------
(***************************************************************************)
(* Fleet registration: the lease table of src/registration/lease.rs, the   *)
(* three server tasks of src/registration/transport.rs that work on it     *)
(* (register, deregister, heartbeat), and the client processes whose       *)
(* start-up in src/runtime.rs declares a liveliness token and then tries   *)
(* to register.                                                            *)
(*                                                                         *)
(* Each server task reads a queue of its own, so only the order within a   *)
(* queue is kept.  A lease operation is one critical section of the write  *)
(* lock; what it makes the task publish follows outside of the lock, and   *)
(* an error there is discarded.  Replies go to a topic of the robot id:    *)
(* every process of that id that is waiting at that moment gets them,      *)
(* whoever asked.                                                          *)
(***************************************************************************)
EXTENDS Naturals, Sequences

CONSTANTS
    Procs,       \* client processes; several may run under one robot id
    Robots,      \* robot ids
    RobotOf,     \* process -> the id it was started with
    Expected,    \* ids in ServerConfig.expected_clients
    Retries,     \* REGISTRATION_RETRIES
    MaxRuns,     \* bound: starts of each process
    MaxRestarts, \* bound: restarts of the server
    Mortal       \* bound: the server tasks that may end

ASSUME RegistrationConstants ==
    /\ RobotOf \in [Procs -> Robots]
    /\ Expected \subseteq Robots
    /\ Retries \in Nat \ {0}
    /\ MaxRuns \in [Procs -> Nat]
    /\ MaxRestarts \in Nat
    /\ Mortal \subseteq {"reg", "dereg", "heartbeat"}

VARIABLES
    clients,  \* robot -> ClientState; "Unknown" stands for no entry
    regQ,     \* robots of the requests reg_task has not handled
    deregQ,   \* robots of the requests dereg_task has not handled
    hbQ,      \* robots of the token Deletes the heartbeat task has not handled
    answer,   \* robot -> the response reg_task is about to publish, if any
    alerting, \* the robots whose alert the heartbeat task is about to publish
    alerts,   \* robot -> Poisoned alerts published since the server started
    restarts, \* restarts of the server
    stopped,  \* server tasks that have ended while the server lives
    pc,       \* process -> where it is
    run,      \* process -> how often it was started
    attempt,  \* process -> attempt number of the retry loop
    reply     \* process -> first status its response subscription received

serverVars == <<clients, answer, alerting, alerts, restarts, stopped>>
clientVars == <<pc, run, attempt, reply>>
vars == <<clients, regQ, deregQ, hbQ, answer, alerting, alerts, restarts, stopped,
          pc, run, attempt, reply>>

ClientState == {"Unknown", "Expected", "Registered", "Poisoned"}
Status == {"Ack", "RejectAlreadyRegistered", "RejectPoisoned"}
NoReply == "none"
PC == {"off", "attempt", "waiting", "backoff", "running", "safe", "leaving"}

TypeOK ==
    /\ clients \in [Robots -> ClientState]
    /\ regQ \in Seq(Robots)
    /\ deregQ \in Seq(Robots)
    /\ hbQ \in Seq(Robots)
    /\ answer \in [Robots -> Status \cup {NoReply}]
    /\ alerting \subseteq Robots
    /\ alerts \in [Robots -> Nat]
    /\ restarts \in 0..MaxRestarts
    /\ stopped \subseteq Mortal
    /\ pc \in [Procs -> PC]
    /\ run \in [Procs -> Nat]
    /\ attempt \in [Procs -> 1..Retries]
    /\ reply \in [Procs -> Status \cup {NoReply}]

NoAnswer == [r \in Robots |-> NoReply]

\* RegistrationLease::new.
FreshTable == [r \in Robots |-> IF r \in Expected THEN "Expected" ELSE "Unknown"]

Init ==
    /\ clients = FreshTable
    /\ regQ = <<>>
    /\ deregQ = <<>>
    /\ hbQ = <<>>
    /\ answer = NoAnswer
    /\ alerting = {}
    /\ alerts = [r \in Robots |-> 0]
    /\ restarts = 0
    /\ stopped = {}
    /\ pc = [p \in Procs |-> "off"]
    /\ run = [p \in Procs |-> 0]
    /\ attempt = [p \in Procs |-> 1]
    /\ reply = [p \in Procs |-> NoReply]

\* The processes that hold a liveliness token of robot r.
Alive(r) == {p \in Procs : RobotOf[p] = r /\ pc[p] # "off"}

\* The queue q of server task h after robot r was put: a task that has ended has
\* dropped its subscription.
Into(h, q, r) == IF h \in stopped THEN q ELSE Append(q, r)

-----------------------------------------------------------------------------
(* A client process.                                                       *)

\* bootstrap: the token is declared; then the retry loop if there is a valid client
\* config, else the safe state, which does not register.
Start(p) ==
    /\ pc[p] = "off"
    /\ run[p] < MaxRuns[p]
    /\ run' = [run EXCEPT ![p] = @ + 1]
    /\ attempt' = [attempt EXCEPT ![p] = 1]
    /\ \E first \in {"attempt", "safe"} : pc' = [pc EXCEPT ![p] = first]
    /\ UNCHANGED <<serverVars, regQ, deregQ, hbQ, reply>>

\* register_with_client: subscribe to the response topic, then publish.  The put
\* reaches the server's queue or nobody.
Register(p) ==
    /\ pc[p] = "attempt"
    /\ pc' = [pc EXCEPT ![p] = "waiting"]
    /\ reply' = [reply EXCEPT ![p] = NoReply]
    /\ \/ regQ' = Into("reg", regQ, RobotOf[p])
       \/ UNCHANGED regQ
    /\ UNCHANGED <<serverVars, deregQ, hbQ, run, attempt>>

\* The process ends: its token goes, and when no other process holds one on the
\* same key, the monitor is told.
Exit(p) ==
    /\ pc' = [pc EXCEPT ![p] = "off"]
    /\ reply' = [reply EXCEPT ![p] = NoReply]
    /\ hbQ' = IF Alive(RobotOf[p]) = {p} THEN Into("heartbeat", hbQ, RobotOf[p]) ELSE hbQ
    /\ UNCHANGED <<serverVars, regQ, deregQ, run, attempt>>

\* Fault: one attempt too many.
Timeout_off_by_one(p) ==
    /\ pc[p] = "waiting"
    /\ reply[p] = NoReply
    /\ IF attempt[p] <= Retries
       THEN /\ pc' = [pc EXCEPT ![p] = "backoff"]
            /\ UNCHANGED <<serverVars, regQ, deregQ, hbQ, run, attempt, reply>>
       ELSE Exit(p)

\* REGISTRATION_TIMEOUT passes with nothing received: back off, or give up.
Timeout(p) ==
    /\ pc[p] = "waiting"
    /\ reply[p] = NoReply
    /\ IF attempt[p] < Retries
       THEN /\ pc' = [pc EXCEPT ![p] = "backoff"]
            /\ UNCHANGED <<serverVars, regQ, deregQ, hbQ, run, attempt, reply>>
       ELSE Exit(p)

\* Fault: the attempts are not counted.
Retry_uncounted(p) ==
    /\ pc[p] = "backoff"
    /\ pc' = [pc EXCEPT ![p] = "attempt"]
    /\ UNCHANGED <<serverVars, regQ, deregQ, hbQ, run, attempt, reply>>

Retry(p) ==
    /\ pc[p] = "backoff"
    /\ attempt' = [attempt EXCEPT ![p] = @ + 1]
    /\ pc' = [pc EXCEPT ![p] = "attempt"]
    /\ UNCHANGED <<serverVars, regQ, deregQ, hbQ, run, reply>>

\* The first reply decides: Ack ends the loop, every rejection ends the process.
Answered(p) ==
    /\ pc[p] = "waiting"
    /\ reply[p] # NoReply
    /\ IF reply[p] = "Ack"
       THEN /\ pc' = [pc EXCEPT ![p] = "running"]
            /\ reply' = [reply EXCEPT ![p] = NoReply]
            /\ UNCHANGED <<serverVars, regQ, deregQ, hbQ, run, attempt>>
       ELSE Exit(p)

\* deregister_with_server: its outcome, Ok or Timeout, changes nothing here.
Deregister(p) ==
    /\ pc[p] = "running"
    /\ pc' = [pc EXCEPT ![p] = "leaving"]
    /\ \/ deregQ' = Into("dereg", deregQ, RobotOf[p])
       \/ UNCHANGED deregQ
    /\ UNCHANGED <<serverVars, regQ, hbQ, run, attempt, reply>>

\* A supervised subsystem ends, or the process is killed.
Crash(p) == pc[p] # "off" /\ Exit(p)

-----------------------------------------------------------------------------
(* The server.                                                             *)

\* Fault: a poisoned robot is admitted again.
HandleRegister_pardons ==
    /\ regQ # <<>> /\ answer = NoAnswer /\ "reg" \notin stopped
    /\ regQ' = Tail(regQ)
    /\ LET r == Head(regQ)
       IN  \/ /\ clients[r] = "Registered"
              /\ answer' = [answer EXCEPT ![r] = "RejectAlreadyRegistered"]
              /\ UNCHANGED clients
           \/ /\ clients[r] # "Registered"
              /\ clients' = [clients EXCEPT ![r] = "Registered"]
              /\ answer' = [answer EXCEPT ![r] = "Ack"]
    /\ UNCHANGED <<deregQ, hbQ, alerting, alerts, restarts, stopped, clientVars>>

\* A turn of reg_task: RegistrationLease::register gives the status to answer.
HandleRegister ==
    /\ regQ # <<>> /\ answer = NoAnswer /\ "reg" \notin stopped
    /\ regQ' = Tail(regQ)
    /\ LET r == Head(regQ)
       IN  \/ /\ clients[r] = "Poisoned"
              /\ answer' = [answer EXCEPT ![r] = "RejectPoisoned"]
              /\ UNCHANGED clients
           \/ /\ clients[r] = "Registered"
              /\ answer' = [answer EXCEPT ![r] = "RejectAlreadyRegistered"]
              /\ UNCHANGED clients
           \/ /\ clients[r] \in {"Unknown", "Expected"}
              /\ clients' = [clients EXCEPT ![r] = "Registered"]
              /\ answer' = [answer EXCEPT ![r] = "Ack"]
    /\ UNCHANGED <<deregQ, hbQ, alerting, alerts, restarts, stopped, clientVars>>

\* publish_response on the response topic of r, before the next request is taken: it
\* reaches the processes that wait, or nobody (`let _ =`).
PublishResponse(r) ==
    /\ answer[r] # NoReply
    /\ answer' = [answer EXCEPT ![r] = NoReply]
    /\ \/ reply' = [p \in Procs |->
                      IF RobotOf[p] = r /\ pc[p] = "waiting" /\ reply[p] = NoReply
                      THEN answer[r] ELSE reply[p]]
       \/ UNCHANGED reply
    /\ UNCHANGED <<clients, regQ, deregQ, hbQ, alerting, alerts, restarts, stopped, pc, run, attempt>>

\* One turn of dereg_task: RegistrationLease::deregister.  No client step depends
\* on its response.
HandleDeregister ==
    /\ deregQ # <<>> /\ "dereg" \notin stopped
    /\ deregQ' = Tail(deregQ)
    /\ LET r == Head(deregQ)
       IN  clients' = [clients EXCEPT ![r] = IF @ = "Registered" THEN "Unknown" ELSE @]
    /\ UNCHANGED <<regQ, hbQ, answer, alerting, alerts, restarts, stopped, clientVars>>

\* Fault: the alert is published whatever on_liveliness_delete returned.
HandleDelete_always_alerts ==
    /\ hbQ # <<>> /\ alerting = {} /\ "heartbeat" \notin stopped
    /\ hbQ' = Tail(hbQ)
    /\ LET r == Head(hbQ)
       IN  /\ alerting' = {r}
           /\ clients' = [clients EXCEPT ![r] = IF @ = "Registered" THEN "Poisoned" ELSE @]
    /\ UNCHANGED <<regQ, deregQ, answer, alerts, restarts, stopped, clientVars>>

\* Fault: the entry is removed instead of poisoned.
HandleDelete_removes ==
    /\ hbQ # <<>> /\ alerting = {} /\ "heartbeat" \notin stopped
    /\ hbQ' = Tail(hbQ)
    /\ LET r == Head(hbQ)
       IN  clients' = [clients EXCEPT ![r] = IF @ = "Registered" THEN "Unknown" ELSE @]
    /\ UNCHANGED <<regQ, deregQ, answer, alerting, alerts, restarts, stopped, clientVars>>

\* Fault: the Delete poisons a robot that is expected, not one that is registered.
HandleDelete_wrong_state ==
    /\ hbQ # <<>> /\ alerting = {} /\ "heartbeat" \notin stopped
    /\ hbQ' = Tail(hbQ)
    /\ LET r == Head(hbQ)
       IN  IF clients[r] = "Expected"
           THEN /\ clients' = [clients EXCEPT ![r] = "Poisoned"]
                /\ alerting' = {r}
           ELSE UNCHANGED <<clients, alerting>>
    /\ UNCHANGED <<regQ, deregQ, answer, alerts, restarts, stopped, clientVars>>

\* Fault: the Deletes are handled in the loop of reg_task, and end with it.
HandleDelete_with_reg_task ==
    /\ hbQ # <<>> /\ alerting = {} /\ "reg" \notin stopped
    /\ hbQ' = Tail(hbQ)
    /\ LET r == Head(hbQ)
       IN  IF clients[r] = "Registered"
           THEN /\ clients' = [clients EXCEPT ![r] = "Poisoned"]
                /\ alerting' = {r}
           ELSE UNCHANGED <<clients, alerting>>
    /\ UNCHANGED <<regQ, deregQ, answer, alerts, restarts, stopped, clientVars>>

\* A turn of the heartbeat task on a Delete: on_liveliness_delete, and an alert is due
\* if it returns true.
HandleDelete ==
    /\ hbQ # <<>> /\ alerting = {} /\ "heartbeat" \notin stopped
    /\ hbQ' = Tail(hbQ)
    /\ LET r == Head(hbQ)
       IN  IF clients[r] = "Registered"
           THEN /\ clients' = [clients EXCEPT ![r] = "Poisoned"]
                /\ alerting' = {r}
           ELSE UNCHANGED <<clients, alerting>>
    /\ UNCHANGED <<regQ, deregQ, answer, alerts, restarts, stopped, clientVars>>

\* publish_response on the alert topic of r, before the next Delete is taken; its
\* error is discarded (`let _ =`).
PublishAlert(r) ==
    /\ r \in alerting
    /\ alerting' = alerting \ {r}
    /\ \/ alerts' = [alerts EXCEPT ![r] = @ + 1]
       \/ UNCHANGED alerts
    /\ UNCHANGED <<clients, regQ, deregQ, hbQ, answer, restarts, stopped, clientVars>>

\* The task a handler has spawned ends, by a panic or a closed channel, and its
\* subscription, its queue and what it was about to publish go with it.  The
\* supervised future behind it stays in join! or pending for good, so the server goes
\* on without the task.
TaskEnds(h) ==
    /\ h \notin stopped
    /\ stopped' = stopped \cup {h}
    /\ regQ' = IF h = "reg" THEN <<>> ELSE regQ
    /\ deregQ' = IF h = "dereg" THEN <<>> ELSE deregQ
    /\ hbQ' = IF h = "heartbeat" THEN <<>> ELSE hbQ
    /\ answer' = IF h = "reg" THEN NoAnswer ELSE answer
    /\ alerting' = IF h = "heartbeat" THEN {} ELSE alerting
    /\ UNCHANGED <<clients, alerts, restarts, clientVars>>

\* A supervised subsystem of the server ends and the process is started again: the
\* table and the queues are in memory.
Restart ==
    /\ restarts < MaxRestarts
    /\ restarts' = restarts + 1
    /\ clients' = FreshTable
    /\ alerts' = [r \in Robots |-> 0]
    /\ regQ' = <<>>
    /\ deregQ' = <<>>
    /\ hbQ' = <<>>
    /\ answer' = NoAnswer
    /\ alerting' = {}
    /\ stopped' = {}
    /\ UNCHANGED clientVars

-----------------------------------------------------------------------------
Client(p) ==
    \/ Start(p) \/ Register(p) \/ Timeout(p) \/ Retry(p) \/ Answered(p)
    \/ Deregister(p) \/ Crash(p)

Next ==
    \/ \E p \in Procs : Client(p)
    \/ HandleRegister \/ HandleDeregister \/ HandleDelete
    \/ \E r \in Robots : PublishResponse(r) \/ PublishAlert(r)
    \/ \E h \in Mortal : TaskEnds(h)
    \/ Restart

\* The executor keeps polling the three server tasks and a client's start-up, whose
\* waits are bounded by timers.  Starting, leaving and crashing are not obligations.
Fairness ==
    /\ WF_vars(HandleRegister)
    /\ WF_vars(HandleDeregister)
    /\ WF_vars(HandleDelete)
    /\ \A r \in Robots : WF_vars(PublishResponse(r)) /\ WF_vars(PublishAlert(r))
    /\ \A p \in Procs : WF_vars(Register(p) \/ Timeout(p) \/ Retry(p) \/ Answered(p))

Spec == Init /\ [][Next]_vars
FairSpec == Spec /\ Fairness

-----------------------------------------------------------------------------
\* What the table says, as LeaseContract puts it.
lease == [r \in Robots |->
            CASE clients[r] = "Registered" -> "held"
              [] clients[r] = "Poisoned" -> "barred"
              [] OTHER -> "free"]

Promise == INSTANCE LeaseContract

\* The table with its three tasks, late requests and restarts implements the
\* contract: a lease is granted only when free, barred only when held, and a barred
\* one stays barred until the server starts again.
Contract == Promise!Spec

\* A heartbeat alert is published at most once for a poisoned robot, and for no other,
\* however many Deletes of its processes are handled, in whatever order, and whatever
\* happens between the poisoning and the publication.
AtMostOneAlert ==
    \A r \in Robots : alerts[r] + (IF r \in alerting THEN 1 ELSE 0)
                        <= (IF clients[r] = "Poisoned" THEN 1 ELSE 0)

\* While the server lives, the only process ever started under its robot id that has
\* seen an Ack and has not left is known to the server, as a holder or as poisoned:
\* no late request, retry or Delete of an earlier run, and no end of a server task,
\* makes the table forget it.
AckedIsKnown ==
    \A p \in Procs :
        (pc[p] = "running" /\ restarts = 0
           /\ \A q \in Procs \ {p} : RobotOf[q] = RobotOf[p] => run[q] = 0)
        => clients[RobotOf[p]] \in {"Registered", "Poisoned"}

\* A start-up ends: every process that begins to register is running or gone in
\* the end, whatever the server does.
StartupEnds ==
    \A p \in Procs :
        pc[p] \in {"attempt", "waiting", "backoff"} ~> pc[p] \in {"running", "off"}
=============================================================================
