------------------------ MODULE RegistrationHistory ------------------------
(***************************************************************************)
(* Registration with a history variable: whether a robot's lease was       *)
(* granted when no process of the robot was left, that is, whether the     *)
(* heartbeat task handled the last Delete before reg_task got to the       *)
(* request.  The variable is never read by a step.                         *)
(***************************************************************************)
EXTENDS Registration

VARIABLE orphan

hvars == <<vars, orphan>>

HTypeOK == orphan \in [Robots -> BOOLEAN]

HInit == Init /\ orphan = [r \in Robots |-> FALSE]

Granted(r) == clients[r] # "Registered" /\ clients'[r] = "Registered"

HNext ==
    /\ Next
    /\ orphan' = [r \in Robots |-> IF Granted(r) THEN Alive(r) = {} ELSE orphan[r]]

HSpec == HInit /\ [][HNext]_hvars
HFairSpec == HSpec /\ Fairness

\* A robot whose lease was granted while it had a process, and that has none now, is
\* no longer registered, or its Delete is still to be handled.  A dead robot stays
\* registered in two ways only: by a request handled after its last Delete, and when
\* the heartbeat task has ended.
DeathIsPending ==
    \A r \in Robots :
        clients[r] = "Registered" /\ Alive(r) = {} /\ ~orphan[r]
            /\ "heartbeat" \notin stopped
        => \E i \in DOMAIN hbQ : hbQ[i] = r

\* The death of a registered robot is noticed in the end: the lease goes, unless a
\* new process of the robot comes up in between or the heartbeat task ends.  The end
\* of any other task of the server does not delay it.
DeathIsNoticed ==
    \A r \in Robots :
        (clients[r] = "Registered" /\ Alive(r) = {} /\ ~orphan[r])
        ~> (clients[r] # "Registered" \/ Alive(r) # {} \/ "heartbeat" \in stopped)
=============================================================================
