------------------------------ MODULE Registry ------------------------------
(***************************************************************************)
(* Rulesets pushed to the fleet: `Registry::publish` of src/registry.rs on *)
(* its SQLite file, and the registry branch of `HotReload::run` in         *)
(* src/config.rs that swaps the store when the push is accepted.           *)
(*                                                                         *)
(* publish runs up to three SQL statements, each one a transaction of its  *)
(* own: read the row, write the row, write the audit row.  The file is at  *)
(* a fixed path, so several servers may have it open; the mutex orders     *)
(* only the statements of one of them.  The file outlives a server, the    *)
(* store does not.  The two halves of the swap are module EngineLoop's.    *)
(***************************************************************************)
EXTENDS Naturals

CONSTANTS
    Servers,     \* server processes on the same file
    Rulesets,    \* rulesets that are pushed, parsed
    Names,       \* ruleset names
    ValidNames,  \* those that publish does not refuse as BadName
    Owners,      \* values of robot_owner
    Digests,     \* SHA-256 values
    NameOf, OwnerOf,  \* fields of a ruleset
    DigestOf,    \* ruleset_digest: rule order does not count
    Bootstrap,   \* the rules of bootstrap_demo
    MaxVersion   \* bound: version of a row

ASSUME RegistryConstants ==
    /\ ValidNames \subseteq Names
    /\ NameOf \in [Rulesets -> Names]
    /\ OwnerOf \in [Rulesets -> Owners]
    /\ DigestOf \in [Rulesets -> Digests]
    /\ Bootstrap \notin Rulesets
    /\ MaxVersion \in Nat \ {0}

\* The digest covers name and owner, and SHA-256 is taken to be collision-free.
ASSUME DigestsIdentify ==
    \A a, b \in Rulesets : DigestOf[a] = DigestOf[b] =>
        NameOf[a] = NameOf[b] /\ OwnerOf[a] = OwnerOf[b]

VARIABLES
    registry,  \* name -> its row, or NoRow
    audit,     \* audit rows; equal rows count once
    active,    \* server -> ruleset in its store
    pc,        \* server -> the statement HotReload comes to next
    pushed,    \* server -> the ruleset being handled, or the last one (none: Bootstrap)
    existing   \* server -> the row publish read

vars == <<registry, audit, active, pc, pushed, existing>>

NoRow == [owner |-> "none", version |-> 0, sha |-> "none"]
Row == [owner : Owners, version : 1..MaxVersion, sha : Digests]
AuditRow == [name : Names, owner : Owners, version : 1..MaxVersion, sha : Digests,
             status : {"inserted", "updated", "rejected_conflict"}]
PC == {"idle", "insert", "update", "reject", "audit", "swap"}

TypeOK ==
    /\ registry \in [Names -> Row \cup {NoRow}]
    /\ audit \subseteq AuditRow
    /\ active \in [Servers -> Rulesets \cup {Bootstrap}]
    /\ pc \in [Servers -> PC]
    /\ pushed \in [Servers -> Rulesets \cup {Bootstrap}]
    /\ existing \in [Servers -> Row \cup {NoRow}]

Init ==
    /\ registry = [n \in Names |-> NoRow]
    /\ audit = {}
    /\ active = [s \in Servers |-> Bootstrap]
    /\ pc = [s \in Servers |-> "idle"]
    /\ pushed = [s \in Servers |-> Bootstrap]
    /\ existing = [s \in Servers |-> NoRow]

-----------------------------------------------------------------------------
\* The push of rs arrives: the row of its name is read and decides what publish
\* does.  A name that is refused, or a read that fails, changes nothing.
Read(s, rs) ==
    LET row == registry[NameOf[rs]]
    IN  /\ pc[s] = "idle"
        /\ NameOf[rs] \in ValidNames
        /\ row.version < MaxVersion
        /\ pushed' = [pushed EXCEPT ![s] = rs]
        /\ existing' = [existing EXCEPT ![s] = row]
        /\ pc' = [pc EXCEPT ![s] =
                    IF row = NoRow THEN "insert"
                    ELSE IF row.owner # OwnerOf[rs] THEN "reject"
                    ELSE IF row.sha = DigestOf[rs] THEN "swap"
                    ELSE "update"]
        /\ UNCHANGED <<registry, audit, active>>

RowOf(rs, version) == [owner |-> OwnerOf[rs], version |-> version, sha |-> DigestOf[rs]]

\* Fault: INSERT OR REPLACE.
Insert_replaces(s) ==
    LET rs == pushed[s]
    IN  /\ pc[s] = "insert"
        /\ pc' = [pc EXCEPT ![s] = "audit"]
        /\ registry' = [registry EXCEPT ![NameOf[rs]] = RowOf(rs, 1)]
        /\ UNCHANGED <<audit, active, pushed, existing>>

\* Fault: INSERT OR IGNORE.
Insert_ignores(s) ==
    LET rs == pushed[s]
    IN  /\ pc[s] = "insert"
        /\ pc' = [pc EXCEPT ![s] = "audit"]
        /\ registry' = IF registry[NameOf[rs]] # NoRow THEN registry
                       ELSE [registry EXCEPT ![NameOf[rs]] = RowOf(rs, 1)]
        /\ UNCHANGED <<audit, active, pushed, existing>>

\* INSERT; the primary key makes it fail if another server was first.
Insert(s) ==
    LET rs == pushed[s]
    IN  /\ pc[s] = "insert"
        /\ IF registry[NameOf[rs]] # NoRow
           THEN pc' = [pc EXCEPT ![s] = "idle"] /\ UNCHANGED registry
           ELSE /\ pc' = [pc EXCEPT ![s] = "audit"]
                /\ registry' = [registry EXCEPT ![NameOf[rs]] = RowOf(rs, 1)]
        /\ UNCHANGED <<audit, active, pushed, existing>>

\* Fault: the row keeps the version that was read.
Update_same_version(s) ==
    LET rs == pushed[s]
    IN  /\ pc[s] = "update"
        /\ pc' = [pc EXCEPT ![s] = "audit"]
        /\ registry' = [registry EXCEPT ![NameOf[rs]] = RowOf(rs, existing[s].version)]
        /\ UNCHANGED <<audit, active, pushed, existing>>

\* UPDATE, with the version that was read plus one.
Update(s) ==
    LET rs == pushed[s]
    IN  /\ pc[s] = "update"
        /\ pc' = [pc EXCEPT ![s] = "audit"]
        /\ registry' = [registry EXCEPT ![NameOf[rs]] = RowOf(rs, existing[s].version + 1)]
        /\ UNCHANGED <<audit, active, pushed, existing>>

\* write_audit of what was done, and of the version it was done with.
AuditOf(s) ==
    [name |-> NameOf[pushed[s]], owner |-> OwnerOf[pushed[s]], sha |-> DigestOf[pushed[s]],
     version |-> existing[s].version + (IF pc[s] = "reject" THEN 0 ELSE 1),
     status |-> IF pc[s] = "reject" THEN "rejected_conflict"
                ELSE IF existing[s] = NoRow THEN "inserted" ELSE "updated"]

\* Fault: a rejected ruleset is swapped in after its audit row.
WriteAudit_swaps_rejected(s) ==
    /\ pc[s] \in {"audit", "reject"}
    /\ audit' = audit \cup {AuditOf(s)}
    /\ pc' = [pc EXCEPT ![s] = "swap"]
    /\ UNCHANGED <<registry, active, pushed, existing>>

WriteAudit(s) ==
    /\ pc[s] \in {"audit", "reject"}
    /\ audit' = audit \cup {AuditOf(s)}
    /\ pc' = [pc EXCEPT ![s] = IF pc[s] = "audit" THEN "swap" ELSE "idle"]
    /\ UNCHANGED <<registry, active, pushed, existing>>

\* A statement returns an error (RegistryError::Db): the previous rules are kept.
\* What earlier statements of the same publish did stays.
StatementFails(s) ==
    /\ pc[s] \in {"insert", "update", "audit", "reject"}
    /\ pc' = [pc EXCEPT ![s] = "idle"]
    /\ UNCHANGED <<registry, audit, active, pushed, existing>>

\* Inserted or Updated: the store takes the rules.  They parse, being written from
\* a ruleset that was parsed.
Swap(s) ==
    /\ pc[s] = "swap"
    /\ active' = [active EXCEPT ![s] = pushed[s]]
    /\ pc' = [pc EXCEPT ![s] = "idle"]
    /\ UNCHANGED <<registry, audit, pushed, existing>>

\* The server dies, wherever it is, and comes up with the built-in rules.
Restart(s) ==
    /\ active' = [active EXCEPT ![s] = Bootstrap]
    /\ pc' = [pc EXCEPT ![s] = "idle"]
    /\ UNCHANGED <<registry, audit, pushed, existing>>

Server(s) ==
    \/ \E rs \in Rulesets : Read(s, rs)
    \/ Insert(s) \/ Update(s) \/ WriteAudit(s) \/ StatementFails(s) \/ Swap(s)
    \/ Restart(s)

Next == \E s \in Servers : Server(s)

Spec == Init /\ [][Next]_vars

-----------------------------------------------------------------------------
\* The first owner of a name keeps it: no interleaving of two servers' statements,
\* failure or restart hands a name to another owner or frees it, although the owner
\* is checked on a row that may be out of date when the UPDATE writes the column.
OwnerIsFixed ==
    [][\A n \in Names : registry[n] # NoRow =>
          registry'[n] # NoRow /\ registry'[n].owner = registry[n].owner]_vars

\* The rules a server runs are the built-in ones or belong to the owner of their
\* name: what was refused on one server is not run by another.
ActiveIsOwned ==
    \A s \in Servers : active[s] # Bootstrap =>
        /\ registry[NameOf[active[s]]] # NoRow
        /\ registry[NameOf[active[s]]].owner = OwnerOf[active[s]]

Accepted(a) == a.status \in {"inserted", "updated"}

\* The audit and the registry agree on who owns a name: the accepted pushes are the
\* owner's and the rejected ones somebody else's, whichever servers wrote the rows,
\* from rows read before.
AuditAgreesOnOwner ==
    \A a \in audit : Accepted(a) <=> a.owner = registry[a.name].owner

\* "each accepted/rejected push = one row", "On success: atomically swaps [...] writes
\* WORM audit copy + SHA" (docs/superpowers/specs/2026-07-20-flo-engine-ruleset-design.md):
\* what a server runs was audited as accepted, or its audit row is about to be written.
ActiveIsAudited ==
    \A s \in Servers : active[s] # Bootstrap =>
        LET d == DigestOf[active[s]]
        IN  \/ \E a \in audit : Accepted(a) /\ a.sha = d
            \/ \E q \in Servers : pc[q] = "audit" /\ DigestOf[pushed[q]] = d
=============================================================================
