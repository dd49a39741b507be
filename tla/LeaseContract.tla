--------------------------- MODULE LeaseContract ---------------------------
(***************************************************************************)
(* What the registration lease of src/registration/lease.rs promises to    *)
(* the fleet, without tables, queues or messages: a robot's lease is free, *)
(* held or barred; it is granted only when free, given back or barred only *)
(* when held, and barred for good until the server starts again.           *)
(***************************************************************************)
CONSTANT Robots

VARIABLE lease

LeaseTypeOK == lease \in [Robots -> {"free", "held", "barred"}]

Free == [r \in Robots |-> "free"]

Init == lease = Free

Grant(r) ==
    /\ lease[r] = "free"
    /\ lease' = [lease EXCEPT ![r] = "held"]

Release(r) ==
    /\ lease[r] = "held"
    /\ lease' = [lease EXCEPT ![r] = "free"]

Bar(r) ==
    /\ lease[r] = "held"
    /\ lease' = [lease EXCEPT ![r] = "barred"]

\* The table is in memory: a restarted server knows of no lease.
Reset == lease' = Free

Next ==
    \/ \E r \in Robots : Grant(r) \/ Release(r) \/ Bar(r)
    \/ Reset

Spec == Init /\ [][Next]_lease
=============================================================================
