--------------------------- MODULE RegistryProofs ---------------------------
(***************************************************************************)
(* Ownership in the registry, for any number of servers, rulesets and      *)
(* names.  The argument: a row, once there, keeps its owner.  Only UPDATE  *)
(* could change it, and a server about to UPDATE has read a row with the   *)
(* owner of its ruleset; that row may be out of date, but not in its       *)
(* owner.  So "the name belongs to the owner of the ruleset" is stable,    *)
(* and holds from the accepting read or the row write up to the swap.      *)
(***************************************************************************)
EXTENDS RegistryHistory, TLAPS

\* The name of rs has a row, and the row has the owner of rs.
Owned(rs) ==
    /\ registry[NameOf[rs]] # NoRow
    /\ registry[NameOf[rs]].owner = OwnerOf[rs]

\* A server past the check handles a ruleset whose name has its owner, with a
\* version it may count up from.
InFlight(s) ==
    /\ pc[s] # "idle" => pushed[s] \in Rulesets /\ existing[s].version < MaxVersion
    /\ pc[s] = "reject" => existing[s] \in Row
    /\ pc[s] \in {"update", "audit", "swap"} => Owned(pushed[s])

InFlightIsOwned == \A s \in Servers : InFlight(s)

OwnInv == TypeOK /\ InFlightIsOwned /\ ActiveIsOwned

\* Ownership is stable: steps keep every row's owner.
OwnersKept ==
    \A n \in Names : registry[n] # NoRow =>
        registry'[n] # NoRow /\ registry'[n].owner = registry[n].owner

LEMMA OwnedIsStable ==
    ASSUME OwnersKept, NEW rs \in Rulesets, Owned(rs)
    PROVE  Owned(rs)'
BY RegistryConstants DEF OwnersKept, Owned

LEMMA RowOfType ==
    ASSUME NEW rs \in Rulesets, NEW v \in 1..MaxVersion
    PROVE  RowOf(rs, v) \in Row /\ RowOf(rs, v) # NoRow /\ RowOf(rs, v).owner = OwnerOf[rs]
BY RegistryConstants DEF RowOf, Row, NoRow

LEMMA VersionType ==
    ASSUME NEW row \in Row \cup {NoRow}
    PROVE  row.version \in 0..MaxVersion
BY RegistryConstants DEF Row, NoRow

\* The steps that write a row keep the owners.
LEMMA StepKeepsOwners ==
    ASSUME OwnInv, [Next]_vars
    PROVE  OwnersKept
<1>1. CASE UNCHANGED vars
  BY <1>1 DEF vars, OwnersKept
<1>2. ASSUME NEW s \in Servers, Server(s)
      PROVE  OwnersKept
  <2>1. CASE Insert(s)
    BY <2>1 DEF Insert, OwnersKept, OwnInv, TypeOK
  <2>2. CASE Update(s)
    <3>1. pushed[s] \in Rulesets /\ existing[s].version + 1 \in 1..MaxVersion
      BY <2>2, VersionType, RegistryConstants DEF Update, OwnInv, TypeOK, InFlightIsOwned, InFlight
    <3>2. Owned(pushed[s])
      BY <2>2 DEF Update, OwnInv, InFlightIsOwned, InFlight
    <3> QED
      BY <2>2, <3>1, <3>2, RowOfType DEF Update, OwnersKept, Owned, OwnInv, TypeOK
  <2>3. CASE UNCHANGED registry
    BY <2>3 DEF OwnersKept
  <2> QED
    BY <1>2, <2>1, <2>2, <2>3 DEF Server, Read, WriteAudit, StatementFails, Swap, Restart
<1> QED
  BY <1>1, <1>2 DEF Next

LEMMA StepKeepsType ==
    ASSUME OwnInv, [Next]_vars
    PROVE  TypeOK'
<1>1. CASE UNCHANGED vars
  BY <1>1 DEF vars, OwnInv, TypeOK
<1>2. ASSUME NEW s \in Servers, Server(s)
      PROVE  TypeOK'
  <2> USE DEF OwnInv
  <2>1. ASSUME NEW rs \in Rulesets, Read(s, rs)
        PROVE  TypeOK'
    BY <2>1, RegistryConstants DEF Read, TypeOK, PC
  <2>2. CASE Insert(s)
    <3>1. pushed[s] \in Rulesets /\ 1 \in 1..MaxVersion
      BY <2>2, RegistryConstants DEF Insert, InFlightIsOwned, InFlight
    <3> QED
      BY <2>2, <3>1, RowOfType, RegistryConstants DEF Insert, TypeOK, PC
  <2>3. CASE Update(s)
    <3>1. pushed[s] \in Rulesets /\ existing[s].version + 1 \in 1..MaxVersion
      BY <2>3, VersionType, RegistryConstants DEF Update, TypeOK, InFlightIsOwned, InFlight
    <3> QED
      BY <2>3, <3>1, RowOfType, RegistryConstants DEF Update, TypeOK, PC
  <2>4. CASE WriteAudit(s)
    <3>1. pushed[s] \in Rulesets /\ existing[s].version \in 0..MaxVersion
            /\ existing[s].version < MaxVersion
      BY <2>4, VersionType DEF WriteAudit, TypeOK, InFlightIsOwned, InFlight
    <3>2. pc[s] = "reject" => existing[s].version \in 1..MaxVersion
      BY <2>4 DEF WriteAudit, InFlightIsOwned, InFlight, Row
    <3>3. AuditOf(s).version \in 1..MaxVersion
      BY <3>1, <3>2, RegistryConstants DEF AuditOf
    <3>4. AuditOf(s) \in AuditRow
      BY <3>1, <3>3, RegistryConstants DEF AuditOf, AuditRow
    <3> QED
      BY <2>4, <3>4 DEF WriteAudit, TypeOK, PC
  <2>5. CASE StatementFails(s)
    BY <2>5 DEF StatementFails, TypeOK, PC
  <2>6. CASE Swap(s)
    BY <2>6 DEF Swap, TypeOK, PC
  <2>7. CASE Restart(s)
    BY <2>7 DEF Restart, TypeOK, PC
  <2> QED
    BY <1>2, <2>1, <2>2, <2>3, <2>4, <2>5, <2>6, <2>7 DEF Server
<1> QED
  BY <1>1, <1>2 DEF Next

LEMMA StepKeepsInFlight ==
    ASSUME OwnInv, [Next]_vars
    PROVE  InFlightIsOwned'
<1>1. \A rs \in Rulesets : Owned(rs) => Owned(rs)'
  BY StepKeepsOwners, OwnedIsStable
<1>2. SUFFICES ASSUME NEW q \in Servers
               PROVE  InFlight(q)'
  BY DEF InFlightIsOwned
<1>3. CASE UNCHANGED <<pc[q], pushed[q], existing[q]>>
  BY <1>1, <1>3 DEF OwnInv, InFlightIsOwned, InFlight, Owned
<1>4. CASE pc'[q] = "idle"
  BY <1>4 DEF InFlight
<1>5. ASSUME NEW rs \in Rulesets, Read(q, rs)
      PROVE  InFlight(q)'
  <2>1. registry[NameOf[rs]] \in Row \cup {NoRow}
    BY RegistryConstants DEF OwnInv, TypeOK
  <2>2. /\ pushed'[q] = rs /\ existing'[q] = registry[NameOf[rs]]
        /\ registry' = registry /\ registry[NameOf[rs]].version < MaxVersion
    BY <1>5 DEF Read, OwnInv, TypeOK
  <2>3. pc'[q] = "reject" => registry[NameOf[rs]] # NoRow
    BY <1>5 DEF Read, OwnInv, TypeOK
  <2>4. pc'[q] \in {"update", "audit", "swap"} => Owned(rs)
    BY <1>5 DEF Read, OwnInv, TypeOK, Owned
  <2> QED
    BY <2>1, <2>2, <2>3, <2>4 DEF InFlight, Owned
<1>6. ASSUME Insert(q) \/ Update(q), pc'[q] = "audit"
      PROVE  InFlight(q)'
  <2>1. pushed[q] \in Rulesets /\ existing[q].version < MaxVersion
    BY <1>6 DEF Insert, Update, OwnInv, InFlightIsOwned, InFlight
  <2>2. /\ pushed' = pushed /\ existing' = existing
        /\ \E v \in 1..MaxVersion :
              registry' = [registry EXCEPT ![NameOf[pushed[q]]] = RowOf(pushed[q], v)]
    <3>1. existing[q].version + 1 \in 1..MaxVersion /\ 1 \in 1..MaxVersion
      BY <2>1, VersionType, RegistryConstants DEF OwnInv, TypeOK
    <3> QED
      BY <1>6, <3>1 DEF Insert, Update, OwnInv, TypeOK
  <2>3. Owned(pushed[q])'
    BY <2>1, <2>2, RowOfType, RegistryConstants DEF Owned, OwnInv, TypeOK
  <2> QED
    BY <1>6, <2>1, <2>2, <2>3 DEF InFlight
<1>7. ASSUME WriteAudit(q), pc'[q] = "swap"
      PROVE  InFlight(q)'
  <2>1. pc[q] = "audit"
    BY <1>7 DEF WriteAudit, OwnInv, TypeOK
  <2> QED
    BY <1>7, <2>1 DEF WriteAudit, OwnInv, InFlightIsOwned, InFlight, Owned
<1>8. ASSUME NEW s \in Servers, Server(s), s # q
      PROVE  UNCHANGED <<pc[q], pushed[q], existing[q]>>
  BY <1>8 DEF Server, Read, Insert, Update, WriteAudit, StatementFails, Swap, Restart,
              OwnInv, TypeOK
<1>9. ASSUME Server(q)
      PROVE  InFlight(q)'
  <2>1. CASE Insert(q) \/ Update(q)
    BY <2>1, <1>4, <1>6 DEF Insert, Update, OwnInv, TypeOK
  <2>2. CASE WriteAudit(q)
    BY <2>2, <1>4, <1>7 DEF WriteAudit, OwnInv, TypeOK
  <2>3. CASE StatementFails(q) \/ Swap(q) \/ Restart(q)
    BY <2>3, <1>4 DEF StatementFails, Swap, Restart, OwnInv, TypeOK
  <2> QED
    BY <1>5, <1>9, <2>1, <2>2, <2>3 DEF Server
<1>10. CASE UNCHANGED vars
  BY <1>3, <1>10 DEF vars
<1> QED
  BY <1>3, <1>8, <1>9, <1>10 DEF Next

LEMMA StepKeepsActive ==
    ASSUME OwnInv, [Next]_vars
    PROVE  ActiveIsOwned'
<1>1. \A rs \in Rulesets : Owned(rs) => Owned(rs)'
  BY StepKeepsOwners, OwnedIsStable
<1>2. SUFFICES ASSUME NEW q \in Servers, active'[q] # Bootstrap
               PROVE  Owned(active[q])'
  BY DEF ActiveIsOwned, Owned
<1>3. CASE active'[q] = active[q]
  BY <1>1, <1>2, <1>3 DEF OwnInv, TypeOK, ActiveIsOwned, Owned
<1>4. CASE Swap(q)
  <2>1. pushed[q] \in Rulesets /\ Owned(pushed[q]) /\ active'[q] = pushed[q]
    BY <1>4 DEF Swap, OwnInv, TypeOK, InFlightIsOwned, InFlight
  <2> QED
    BY <1>1, <2>1 DEF Owned
<1>5. active'[q] = active[q] \/ Swap(q)
  BY <1>2 DEF Next, Server, Read, Insert, Update, WriteAudit, StatementFails, Swap,
              Restart, vars, OwnInv, TypeOK
<1> QED
  BY <1>3, <1>4, <1>5

LEMMA InitOwn == Init => OwnInv
BY RegistryConstants DEF Init, OwnInv, TypeOK, PC, InFlightIsOwned, InFlight, ActiveIsOwned

LEMMA OwnAlways == Spec => []OwnInv
<1>1. OwnInv /\ [Next]_vars => OwnInv'
  BY StepKeepsType, StepKeepsInFlight, StepKeepsActive DEF OwnInv
<1> QED
  BY InitOwn, <1>1, PTL DEF Spec

\* File, stores and servers keep their types: no version counts past what was read
\* plus one, and no audit row is written with the version of a missing row.
THEOREM TypeCorrect == Spec => []TypeOK
<1>1. OwnInv => TypeOK
  BY DEF OwnInv
<1> QED
  BY OwnAlways, <1>1, PTL

\* Only rulesets of the owner of their name are run, on any number of servers that
\* share the file, through failing statements and restarts.
THEOREM OnlyOwnersRun == Spec => []ActiveIsOwned
<1>1. OwnInv => ActiveIsOwned
  BY DEF OwnInv
<1> QED
  BY OwnAlways, <1>1, PTL

\* The first owner of a name keeps it for good.
THEOREM OwnershipIsStable == Spec => OwnerIsFixed
<1>1. OwnInv /\ [Next]_vars => [OwnersKept]_vars
  BY StepKeepsOwners
<1>2. [OwnersKept]_vars <=>
        [\A n \in Names : registry[n] # NoRow =>
            registry'[n] # NoRow /\ registry'[n].owner = registry[n].owner]_vars
  BY DEF OwnersKept
<1> QED
  BY OwnAlways, <1>1, <1>2, PTL DEF Spec, OwnerIsFixed

\* A server about to audit a conflict handles a ruleset whose name is somebody else's.
Foreign(rs) ==
    /\ registry[NameOf[rs]] # NoRow
    /\ registry[NameOf[rs]].owner # OwnerOf[rs]
ConflictsAreForeign == \A s \in Servers : pc[s] = "reject" => Foreign(pushed[s])

\* An audit row is of a name that has a row, of the same owner if it is accepted.
AuditedRow(a) ==
    /\ registry[a.name] # NoRow
    /\ Accepted(a) <=> a.owner = registry[a.name].owner
AuditInv == ConflictsAreForeign /\ \A a \in audit : AuditedRow(a)

LEMMA StepKeepsAudit ==
    ASSUME OwnInv, AuditInv, [Next]_vars
    PROVE  AuditInv'
<1>1. OwnersKept
  BY StepKeepsOwners
<1>2. \A rs \in Rulesets : Foreign(rs) => Foreign(rs)'
  BY <1>1, RegistryConstants DEF OwnersKept, Foreign
<1>3. \A a \in audit : AuditedRow(a)'
  BY <1>1 DEF AuditInv, AuditedRow, Accepted, OwnersKept, OwnInv, TypeOK, AuditRow
<1>4. CASE UNCHANGED vars
  BY <1>4 DEF vars, AuditInv, ConflictsAreForeign, Foreign, AuditedRow, Accepted
<1>5. ASSUME NEW s \in Servers, Server(s)
      PROVE  AuditInv'
  <2>1. \A q \in Servers \ {s} : pc'[q] = pc[q] /\ pushed'[q] = pushed[q]
    BY <1>5 DEF Server, Read, Insert, Update, WriteAudit, StatementFails, Swap, Restart,
                OwnInv, TypeOK
  <2>2. ASSUME pc'[s] = "reject"
        PROVE  Foreign(pushed[s])'
    <3>1. PICK rs \in Rulesets : Read(s, rs)
      BY <1>5, <2>2 DEF Server, Insert, Update, WriteAudit, StatementFails, Swap, Restart,
                        OwnInv, TypeOK
    <3>2. pushed'[s] = rs /\ registry' = registry /\ Foreign(rs)
      BY <2>2, <3>1 DEF Read, Foreign, OwnInv, TypeOK
    <3> QED
      BY <3>2 DEF Foreign
  <2>3. ConflictsAreForeign'
    <3>1. ASSUME NEW q \in Servers, q # s, pc'[q] = "reject"
          PROVE  Foreign(pushed[q])'
      <4>1. pushed'[q] = pushed[q] /\ pushed[q] \in Rulesets /\ Foreign(pushed[q])
        BY <2>1, <3>1 DEF AuditInv, ConflictsAreForeign, OwnInv, InFlightIsOwned, InFlight
      <4> QED
        BY <1>2, <4>1 DEF Foreign
    <3> QED
      BY <2>2, <3>1 DEF ConflictsAreForeign
  <2>4. CASE audit' = audit
    BY <1>3, <2>3, <2>4 DEF AuditInv
  <2>5. CASE WriteAudit(s)
    <3>1. /\ pc[s] \in {"audit", "reject"} /\ audit' = audit \cup {AuditOf(s)}
          /\ registry' = registry
      BY <2>5 DEF WriteAudit
    <3>2. AuditOf(s).name = NameOf[pushed[s]] /\ AuditOf(s).owner = OwnerOf[pushed[s]]
      BY DEF AuditOf
    <3>3. CASE pc[s] = "audit"
      <4>1. Owned(pushed[s]) /\ Accepted(AuditOf(s))
        BY <3>3 DEF OwnInv, InFlightIsOwned, InFlight, Accepted, AuditOf
      <4>2. AuditedRow(AuditOf(s))
        BY <3>2, <4>1 DEF AuditedRow, Owned
      <4> QED
        BY <1>3, <2>3, <3>1, <4>2 DEF AuditInv, AuditedRow, Accepted
    <3>4. CASE pc[s] = "reject"
      <4>1. Foreign(pushed[s]) /\ ~Accepted(AuditOf(s))
        BY <3>4 DEF AuditInv, ConflictsAreForeign, Accepted, AuditOf
      <4>2. AuditedRow(AuditOf(s))
        BY <3>2, <4>1 DEF AuditedRow, Foreign
      <4> QED
        BY <1>3, <2>3, <3>1, <4>2 DEF AuditInv, AuditedRow, Accepted
    <3> QED
      BY <3>1, <3>3, <3>4
  <2> QED
    BY <1>5, <2>4, <2>5 DEF Server, Read, Insert, Update, StatementFails, Swap, Restart
<1> QED
  BY <1>4, <1>5 DEF Next

\* Audit and registry agree on the owner of every name: no accepted push of somebody
\* else and no rejected one of the owner, on any number of servers (registry.rs, publish
\* and write_audit).
THEOREM AuditIsTruthful == Spec => []AuditAgreesOnOwner
<1>1. Init => AuditInv
  BY DEF Init, AuditInv, ConflictsAreForeign
<1>2. OwnInv /\ AuditInv /\ [Next]_vars => AuditInv'
  BY StepKeepsAudit
<1>3. AuditInv => AuditAgreesOnOwner
  BY DEF AuditInv, AuditedRow, AuditAgreesOnOwner
<1> QED
  BY <1>1, <1>2, <1>3, OwnAlways, PTL DEF Spec

-----------------------------------------------------------------------------
(***************************************************************************)
(* What a version identifies.  The argument follows a row from the         *)
(* statement that writes it to the statement that writes its audit row: in *)
(* between, the audit row is a claim of the server that is about to write  *)
(* it.                                                                     *)
(***************************************************************************)
\* A server about to INSERT has read that there is no row.
InsertReadNothing == \A s \in Servers : pc[s] = "insert" => existing[s] = NoRow

\* The accepted audit rows, written or about to be.
Claims == {a \in audit : Accepted(a)} \cup {AuditOf(s) : s \in {q \in Servers : pc[q] = "audit"}}

\* The claims on a name that nobody raced for: none is ahead of the row, the newest
\* is the row, and a version is claimed for one digest.
ClaimsAgree ==
    \A c \in Claims : c.name \notin raced =>
        /\ c.version <= registry[c.name].version
        /\ c.version = registry[c.name].version => c.sha = registry[c.name].sha
        /\ \A d \in Claims : d.name = c.name /\ d.version = c.version => d.sha = c.sha

\* A step that writes a row, and so makes a claim.
Writes(s) == pc[s] \in {"insert", "update"} /\ pc'[s] = "audit"

LEMMA HistoryAlwaysOwn == HSpec => []OwnInv
<1>1. HInit => OwnInv
  BY InitOwn DEF HInit
<1>2. OwnInv /\ [HNext]_hvars => OwnInv'
  <2>1. [HNext]_hvars => [Next]_vars
    BY DEF HNext, Next, hvars, vars
  <2> QED
    BY <2>1, StepKeepsType, StepKeepsInFlight, StepKeepsActive DEF OwnInv
<1> QED
  BY <1>1, <1>2, PTL DEF HSpec

LEMMA OthersWait ==
    ASSUME OwnInv, NEW s \in Servers, Server(s), NEW q \in Servers, q # s
    PROVE  pc'[q] = pc[q] /\ pushed'[q] = pushed[q] /\ existing'[q] = existing[q]
BY DEF Server, Read, Insert, Update, WriteAudit, StatementFails, Swap, Restart, OwnInv, TypeOK

\* What a server does to the file, and where that leaves it.
LEMMA ServerEffect ==
    ASSUME OwnInv, NEW s \in Servers, Server(s)
    PROVE  /\ Writes(s) \/ registry' = registry
           /\ audit' = audit \/ (pc[s] \in {"audit", "reject"} /\ audit' = audit \cup {AuditOf(s)})
           /\ pc'[s] = "audit" => Writes(s)
           /\ pc[s] = "audit" => \/ pc'[s] = "idle"
                                 \/ pc'[s] = "swap" /\ audit' = audit \cup {AuditOf(s)}
           /\ pc[s] # "idle" => pushed'[s] = pushed[s] /\ existing'[s] = existing[s]
<1> USE DEF OwnInv, TypeOK, Writes
<1>1. CASE \E rs \in Rulesets : Read(s, rs)
  BY <1>1 DEF Read
<1>2. CASE Insert(s)
  BY <1>2 DEF Insert
<1>3. CASE Update(s)
  BY <1>3 DEF Update
<1>4. CASE WriteAudit(s)
  BY <1>4 DEF WriteAudit
<1>5. CASE StatementFails(s) \/ Swap(s) \/ Restart(s)
  BY <1>5 DEF StatementFails, Swap, Restart
<1> QED
  BY <1>1, <1>2, <1>3, <1>4, <1>5 DEF Server

LEMMA InsertStep ==
    ASSUME OwnInv, InsertReadNothing, [HNext]_hvars
    PROVE  InsertReadNothing'
<1>1. CASE UNCHANGED hvars
  BY <1>1 DEF hvars, InsertReadNothing
<1>2. ASSUME NEW s \in Servers, Server(s)
      PROVE  InsertReadNothing'
  <2>1. pc'[s] = "insert" => existing'[s] = NoRow
    <3>1. CASE \E rs \in Rulesets : Read(s, rs)
      BY <3>1 DEF Read, OwnInv, TypeOK
    <3>2. CASE Insert(s) \/ Update(s) \/ WriteAudit(s) \/ StatementFails(s) \/ Swap(s) \/ Restart(s)
      BY <3>2 DEF Insert, Update, WriteAudit, StatementFails, Swap, Restart, OwnInv, TypeOK
    <3> QED
      BY <1>2, <3>1, <3>2 DEF Server
  <2> QED
    BY <1>2, <2>1, OthersWait DEF InsertReadNothing
<1> QED
  BY <1>1, <1>2 DEF HNext

\* A row is written from the version that was read, and is the one that was read
\* unless the name is raced for.
LEMMA WriteEffect ==
    ASSUME OwnInv, InsertReadNothing, NEW s \in Servers, Server(s), Writes(s),
           raced' = IF Overwrites(s) /\ Update(s) THEN raced \cup {NameOf[pushed[s]]} ELSE raced
    PROVE  /\ pushed[s] \in Rulesets /\ NameOf[pushed[s]] \in Names
           /\ existing[s].version + 1 \in 1..MaxVersion
           /\ registry' = [registry EXCEPT ![NameOf[pushed[s]]] =
                              RowOf(pushed[s], existing[s].version + 1)]
           /\ NameOf[pushed[s]] \notin raced' => registry[NameOf[pushed[s]]] = existing[s]
<1>1. Insert(s) \/ Update(s)
  BY DEF Server, Writes, Read, Insert, Update, WriteAudit, StatementFails, Swap, Restart, OwnInv, TypeOK
<1>2. pushed[s] \in Rulesets /\ existing[s].version < MaxVersion
  BY DEF Writes, OwnInv, InFlightIsOwned, InFlight
<1>3. existing[s].version + 1 \in 1..MaxVersion
  BY <1>2, VersionType, RegistryConstants DEF OwnInv, TypeOK
<1>4. CASE Insert(s)
  <2>1. existing[s] = NoRow /\ NoRow.version + 1 = 1
    BY <1>4 DEF Insert, InsertReadNothing, NoRow
  <2>2. registry[NameOf[pushed[s]]] = NoRow
    BY <1>4 DEF Insert, Writes, OwnInv, TypeOK
  <2> QED
    BY <1>2, <1>3, <1>4, <2>1, <2>2, RegistryConstants DEF Insert
<1>5. CASE Update(s)
  BY <1>2, <1>3, <1>5, RegistryConstants DEF Update, Overwrites
<1> QED
  BY <1>1, <1>4, <1>5

LEMMA ClaimType ==
    ASSUME OwnInv, NEW c \in Claims
    PROVE  c \in AuditRow
<1>1. CASE c \in audit
  BY <1>1 DEF OwnInv, TypeOK
<1>2. ASSUME NEW s \in Servers, pc[s] = "audit", c = AuditOf(s)
      PROVE  c \in AuditRow
  <2>1. pushed[s] \in Rulesets /\ existing[s].version \in 0..MaxVersion
          /\ existing[s].version < MaxVersion
    BY <1>2, VersionType DEF OwnInv, TypeOK, InFlightIsOwned, InFlight
  <2>2. AuditOf(s).version \in 1..MaxVersion
    BY <1>2, <2>1, RegistryConstants DEF AuditOf
  <2> QED
    BY <1>2, <2>1, <2>2, RegistryConstants DEF AuditOf, AuditRow
<1> QED
  BY <1>1, <1>2 DEF Claims

\* Only the write of a row makes a claim.
LEMMA ClaimsStep ==
    ASSUME OwnInv, NEW s \in Servers, Server(s), NEW c \in Claims'
    PROVE  c \in Claims \/ (Writes(s) /\ c = AuditOf(s)')
<1>1. CASE c \in audit' /\ Accepted(c)
  <2>1. CASE c \in audit
    BY <1>1, <2>1 DEF Claims
  <2>2. CASE c \notin audit
    <3>1. c = AuditOf(s) /\ pc[s] \in {"audit", "reject"}
      BY <1>1, <2>2, ServerEffect
    <3>2. pc[s] # "reject"
      BY <1>1, <3>1 DEF Accepted, AuditOf
    <3> QED
      BY <3>1, <3>2 DEF Claims
  <2> QED
    BY <2>1, <2>2
<1>2. ASSUME NEW q \in Servers, pc'[q] = "audit", c = AuditOf(q)'
      PROVE  c \in Claims \/ (Writes(s) /\ c = AuditOf(s)')
  <2>1. CASE q = s
    BY <1>2, <2>1, ServerEffect
  <2>2. CASE q # s
    BY <1>2, <2>2, OthersWait DEF Claims, AuditOf
  <2> QED
    BY <2>1, <2>2
<1> QED
  BY <1>1, <1>2 DEF Claims, Accepted

LEMMA AgreeStep ==
    ASSUME OwnInv, InsertReadNothing, ClaimsAgree, [HNext]_hvars
    PROVE  ClaimsAgree'
<1>1. CASE UNCHANGED hvars
  BY <1>1 DEF hvars, ClaimsAgree, Claims, AuditOf
<1>2. ASSUME NEW s \in Servers, Server(s),
             raced' = IF Overwrites(s) /\ Update(s) THEN raced \cup {NameOf[pushed[s]]} ELSE raced
      PROVE  ClaimsAgree'
  <2>1. raced \subseteq raced'
    BY <1>2
  <2>2. CASE ~Writes(s)
    <3>1. Claims' \subseteq Claims /\ registry' = registry
      BY <1>2, <2>2, ClaimsStep, ServerEffect
    <3> QED
      BY <2>1, <3>1 DEF ClaimsAgree
  <2>3. CASE Writes(s)
    <3> DEFINE n == NameOf[pushed[s]]
               v == existing[s].version + 1
               new == AuditOf(s)'
    <3>1. /\ pushed[s] \in Rulesets /\ n \in Names /\ v \in 1..MaxVersion
          /\ registry' = [registry EXCEPT ![n] = RowOf(pushed[s], v)]
          /\ n \notin raced' => registry[n] = existing[s]
      BY <1>2, <2>3, WriteEffect
    <3>2. new.name = n /\ new.version = v /\ new.sha = DigestOf[pushed[s]]
      <4>1. pushed'[s] = pushed[s] /\ existing'[s] = existing[s] /\ pc'[s] = "audit"
        BY <1>2, <2>3, ServerEffect DEF Writes
      <4>2. existing[s].version + 0 + 1 = v
        BY VersionType DEF OwnInv, TypeOK
      <4> QED
        BY <4>1, <4>2 DEF AuditOf
    <3>3. registry'[n].version = v /\ registry'[n].sha = DigestOf[pushed[s]]
      BY <3>1 DEF RowOf, OwnInv, TypeOK
    <3>4. \A m \in Names : m # n => registry'[m] = registry[m]
      BY <3>1 DEF OwnInv, TypeOK
    <3>5. ASSUME NEW c \in Claims, c.name \notin raced'
          PROVE  c.name = n => c.version < v
      <4>1. c \in AuditRow
        BY ClaimType
      <4>2. c.name = n => c.version <= existing[s].version
        BY <2>1, <3>1, <3>5 DEF ClaimsAgree
      <4>3. c.version \in Nat /\ existing[s].version \in Nat
        BY <4>1, VersionType, RegistryConstants DEF AuditRow, OwnInv, TypeOK
      <4> QED
        BY <4>2, <4>3
    <3>6. \A c \in Claims : c.name \in Names /\ c.version \in Nat
      BY ClaimType, RegistryConstants DEF AuditRow
    <3> HIDE DEF n, v, new
    <3>7. \A c \in Claims' : c \in Claims \/ c = new
      BY <1>2, ClaimsStep DEF new
    <3>8. v \in Nat
      BY <3>1, RegistryConstants
    <3>9. ASSUME NEW c \in Claims', c.name \notin raced'
          PROVE  /\ c.version <= registry'[c.name].version
                 /\ c.version = registry'[c.name].version => c.sha = registry'[c.name].sha
                 /\ \A d \in Claims' : d.name = c.name /\ d.version = c.version => d.sha = c.sha
      <4>1. CASE c = new
        BY <3>2, <3>3, <3>5, <3>6, <3>7, <3>8, <3>9, <4>1
      <4>2. CASE c \in Claims /\ c.name = n
        <5>1. c.version < v /\ c.version \in Nat
          BY <3>5, <3>6, <3>9, <4>2
        <5>2. \A d \in Claims : d.name = c.name /\ d.version = c.version => d.sha = c.sha
          BY <2>1, <3>9, <4>2 DEF ClaimsAgree
        <5> QED
          BY <3>2, <3>3, <3>7, <3>8, <4>2, <5>1, <5>2
      <4>3. CASE c \in Claims /\ c.name # n
        <5>1. registry'[c.name] = registry[c.name]
          BY <3>4, <3>6, <4>3
        <5> QED
          BY <2>1, <3>2, <3>7, <3>9, <4>3, <5>1 DEF ClaimsAgree
      <4> QED
        BY <3>7, <3>9, <4>1, <4>2, <4>3
    <3> QED
      BY <3>9 DEF ClaimsAgree
  <2> QED
    BY <2>2, <2>3
<1> QED
  BY <1>1, <1>2 DEF HNext

\* Two accepted audit rows of one name and version are of one content, for any number
\* of servers, pushes, failing statements and restarts, unless the reads and writes of
\* two servers crossed on that name.
THEOREM VersionsIdentify == HSpec => []VersionNamesOneDigest
<1> DEFINE VInv == InsertReadNothing /\ ClaimsAgree
<1>1. HInit => VInv
  BY DEF HInit, Init, InsertReadNothing, ClaimsAgree, Claims
<1>2. OwnInv /\ VInv /\ [HNext]_hvars => VInv'
  BY InsertStep, AgreeStep
<1>3. VInv => VersionNamesOneDigest
  BY DEF ClaimsAgree, Claims, VersionNamesOneDigest
<1> HIDE DEF VInv
<1> QED
  BY <1>1, <1>2, <1>3, HistoryAlwaysOwn, PTL DEF HSpec
=============================================================================
