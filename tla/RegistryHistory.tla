-------------------------- MODULE RegistryHistory --------------------------
(***************************************************************************)
(* Registry with a history variable that no step reads: the names whose    *)
(* row was written by a server that had read another one.                  *)
(***************************************************************************)
EXTENDS Registry

VARIABLE raced

hvars == <<registry, audit, active, pc, pushed, existing, raced>>

HInit == Init /\ raced = {}

\* A row write of s that overwrites something else than what s has read.
Overwrites(s) ==
    /\ pc[s] = "update"
    /\ registry[NameOf[pushed[s]]] # existing[s]

HNext == \E s \in Servers :
    /\ Server(s)
    /\ raced' = IF Overwrites(s) /\ Update(s) THEN raced \cup {NameOf[pushed[s]]} ELSE raced

HSpec == HInit /\ [][HNext]_hvars

-----------------------------------------------------------------------------
\* A version names one content: two accepted audit rows of one name and version
\* have the same digest, unless two servers' reads and writes of the row crossed.
VersionNamesOneDigest ==
    \A a, b \in audit :
        (Accepted(a) /\ Accepted(b) /\ a.name = b.name /\ a.version = b.version
           /\ a.name \notin raced) => a.sha = b.sha
=============================================================================
