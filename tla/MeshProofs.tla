----------------------------- MODULE MeshProofs -----------------------------
(***************************************************************************)
(* Proofs about signaling for any robots, calls and restarts.  First,      *)
(* sessions: only the PeerConnection in the peer table negotiates for the  *)
(* mesh listener, a session stays, and it starts one capture; nothing is   *)
(* assumed of the routes, of what the webrtc crate accepts or of the       *)
(* number of runs.  Then, calls: whom a first call is connected to, whose  *)
(* candidates a connection is given, and why a call may stay unanswered.   *)
(***************************************************************************)
EXTENDS Mesh, SequenceTheorems, TLAPS

\* A task at one of these steps works on the PeerConnection it has been given.
Negotiating == {"set_remote", "create_answer", "set_local", "publish", "add_ice"}

\* The table is filed by robot and caller.
TableIsFiled ==
    \A s \in DOMAIN peers : /\ s \in Robots \X Robots
                            /\ peers[s].owner = s[1] /\ peers[s].for.by = s[2]

\* What a task's step says of its message and its PeerConnection: a negotiating task
\* has the connection of a call or that of the session of its sender.
Settled(t) ==
    /\ t.msg.kind = "offer" => t.msg.offer.by = t.from
    /\ t.ans.kind # "offer"
    /\ t.at = "create" => t.msg.kind = "offer"
    /\ t.at = "insert" => t.pc.owner = t.robot /\ t.pc.for.by = t.from
    /\ t.at \in Negotiating =>
         t.pc.for = NoOffer \/ (<<t.robot, t.from>> \in DOMAIN peers
                                  /\ peers[<<t.robot, t.from>>] = t.pc)

\* A capture task belongs to a session that has no capture and no other such task.
CaptureIsDue(t) ==
    /\ <<t.robot, t.from>> \in DOMAIN peers
    /\ \A c \in captures : ~(c[1] = t.robot /\ c[2] = t.from)
    /\ \A u \in tasks : u.at = "capture" /\ u.robot = t.robot /\ u.from = t.from => u = t

CapturesAreFiled == \A c \in captures : <<c[1], c[2]>> \in DOMAIN peers

\* The shape of a task and of a connection's state, whatever values V are in them.
TaskOf(V) == [robot : Robots, from : Robots, msg : V, at : V, pc : V, ans : V]
IsTask(t) == \E V : t \in TaskOf(V)

IsPc(c) == \E V : c \in [sig : V, remote : V, gathers : V]

Typed ==
    /\ \A t \in tasks : IsTask(t)
    /\ peers = [s \in DOMAIN peers |-> peers[s]]
    /\ pcs = [pc \in DOMAIN pcs |-> pcs[pc]]
    /\ \A pc \in DOMAIN pcs : IsPc(pcs[pc]) /\ pc.owner \in Robots

MInv ==
    /\ Typed
    /\ TableIsFiled
    /\ \A t \in tasks : Settled(t)
    /\ SessionsNegotiate
    /\ \A t \in tasks : t.at = "capture" => CaptureIsDue(t)
    /\ CapturesAreFiled
    /\ OneCapture

LEMMA InitHolds == Init => MInv
<1> SUFFICES ASSUME Init PROVE MInv
  OBVIOUS
<1>1. /\ peers = [s \in {} |-> NoPc] /\ pcs = [pc \in {} |-> NewPc]
      /\ tasks = {} /\ captures = {}
  BY DEF Init
<1>2. Typed
  BY <1>1 DEF Typed
<1> QED
  BY <1>1, <1>2 DEF MInv, TableIsFiled, SessionsNegotiate, CapturesAreFiled, OneCapture

LEMMA TaskIsTask ==
    ASSUME NEW r \in Robots, NEW from \in Robots, NEW msg, NEW at, NEW pc
    PROVE  LET u == Task(r, from, msg, at, pc)
           IN  /\ IsTask(u) /\ u.robot = r /\ u.from = from /\ u.msg = msg
               /\ u.at = at /\ u.pc = pc /\ u.ans.kind # "offer"
<1> DEFINE u == Task(r, from, msg, at, pc)
<1> DEFINE W == {msg, at, pc, NoMsg}
<1>1. u \in TaskOf(W)
  BY DEF Task, TaskOf
<1>2. IsTask(u)
  BY <1>1 DEF IsTask
<1>3. NoMsg.kind = "none"
  BY DEF NoMsg, Msg
<1> QED
  BY <1>2, <1>3 DEF Task

\* A connection's state with another remote description or of a new connection.
LEMMA PcsArePcs ==
    /\ IsPc(NewPc) /\ IsPc([NewPc EXCEPT !.sig = "local", !.gathers = TRUE])
    /\ NewPc.remote = NoMsg /\ [NewPc EXCEPT !.sig = "local", !.gathers = TRUE].remote = NoMsg
<1> DEFINE W == {"stable", "local", NoMsg, FALSE, TRUE}
<1>1. NewPc \in [sig : W, remote : W, gathers : W]
  BY DEF NewPc
<1>2. [NewPc EXCEPT !.sig = "local", !.gathers = TRUE] \in [sig : W, remote : W, gathers : W]
  BY <1>1
<1> QED
  BY <1>1, <1>2 DEF IsPc, NewPc

LEMMA RemoteIsSet ==
    ASSUME NEW c, IsPc(c), NEW sig, NEW remote
    PROVE  IsPc([c EXCEPT !.sig = sig, !.remote = remote])
<1>1. PICK V : c \in [sig : V, remote : V, gathers : V]
  BY DEF IsPc
<1> DEFINE W == V \cup {sig, remote}
<1>2. [c EXCEPT !.sig = sig, !.remote = remote] \in [sig : W, remote : W, gathers : W]
  BY <1>1
<1> QED
  BY <1>2 DEF IsPc

\* What the bus starts is settled, whoever hears the message.
LEMMA DeliveredIsSettled ==
    ASSUME NEW from \in Robots, NEW to, NEW msg,
           msg.kind = "offer" => msg.offer.by = from,
           NEW t \in Deliver(from, to, msg)
    PROVE  IsTask(t) /\ Settled(t) /\ t.at # "capture"
<1> DEFINE first == IF msg.kind = "ice" THEN "add_ice" ELSE "set_remote"
<1>1. CASE \E q \in Robots : t = Task(q, from, msg, "find", NoPc)
  BY <1>1, TaskIsTask DEF Settled, Negotiating
<1>2. CASE \E q \in Robots : t = Task(q, from, msg, first, CallPc(q))
  <2>1. PICK q \in Robots : t = Task(q, from, msg, first, CallPc(q))
    BY <1>2
  <2>2. CallPc(q).for = NoOffer
    BY DEF CallPc
  <2> QED
    BY <2>1, <2>2, TaskIsTask DEF Settled, Negotiating
<1> QED
  BY <1>1, <1>2 DEF Deliver

\* A step that leaves table and captures alone keeps the invariant if the tasks it
\* adds are settled and the connections still fit the table.
LEMMA TasksMove ==
    ASSUME MInv, peers' = peers, captures' = captures, Typed', SessionsNegotiate',
           \A t \in tasks' : t \in tasks \/ (Settled(t) /\ t.at # "capture")
    PROVE  MInv'
<1>1. TableIsFiled' /\ CapturesAreFiled' /\ OneCapture'
  BY DEF MInv, TableIsFiled, CapturesAreFiled, OneCapture
<1>2. \A t \in tasks' : Settled(t)'
  BY DEF MInv, Settled
<1>3. ASSUME NEW t \in tasks', t.at = "capture" PROVE CaptureIsDue(t)'
  <2>1. t \in tasks /\ CaptureIsDue(t)
    BY <1>3 DEF MInv
  <2>2. \A u \in tasks' : u.at = "capture" => u \in tasks
    OBVIOUS
  <2> QED
    BY <2>1, <2>2 DEF CaptureIsDue
<1> QED
  BY <1>1, <1>2, <1>3 DEF MInv

\* The same for a step that leaves the connections alone too.
LEMMA TasksMoveOnly ==
    ASSUME MInv, peers' = peers, captures' = captures, pcs' = pcs,
           \A t \in tasks' : t \in tasks \/ (IsTask(t) /\ Settled(t) /\ t.at # "capture")
    PROVE  MInv'
<1>1. Typed'
  BY DEF MInv, Typed
<1>2. SessionsNegotiate'
  BY DEF MInv, SessionsNegotiate, Session
<1> QED
  BY <1>1, <1>2, TasksMove

\* A connection is added, without a remote description.
LEMMA NewConnection ==
    ASSUME MInv, NEW q, q.owner \in Robots, NEW new, IsPc(new), new.remote = NoMsg,
           pcs' = With(pcs, q, new), peers' = peers, \A t \in tasks' : IsTask(t)
    PROVE  Typed' /\ SessionsNegotiate'
<1>1. /\ DOMAIN pcs' = DOMAIN pcs \cup {q} /\ pcs'[q] = new
      /\ \A pc \in DOMAIN pcs : pc # q => pcs'[pc] = pcs[pc]
      /\ pcs' = [pc \in DOMAIN pcs' |-> pcs'[pc]]
  BY DEF With
<1>2. \A pc \in DOMAIN pcs' : IsPc(pcs'[pc]) /\ pc.owner \in Robots
  BY <1>1 DEF MInv, Typed
<1>3. Typed'
  BY <1>1, <1>2 DEF MInv, Typed
<1>4. \A pc \in DOMAIN pcs' : pcs'[pc].remote # NoMsg => pc \in DOMAIN pcs /\ pcs'[pc] = pcs[pc]
  BY <1>1
<1> QED
  BY <1>3, <1>4 DEF MInv, SessionsNegotiate, Session

-----------------------------------------------------------------------------
(* Processes.                                                              *)

LEMMA DownKeeps ==
    ASSUME MInv, NEW r \in Robots, Down(r)
    PROVE  MInv'
<1> USE DEF MInv, Down
<1>0. /\ peers' = [s \in {x \in DOMAIN peers : x[1] # r} |-> peers[s]]
      /\ pcs' = [pc \in {q \in DOMAIN pcs : q.owner # r} |-> pcs[pc]]
      /\ tasks' = {t \in tasks : t.robot # r}
      /\ captures' = {c \in captures : c[1] # r}
     
  OBVIOUS
<1>1. Typed'
  BY <1>0 DEF Typed
<1> HIDE DEF Down
<1>2. \A a, b : a \in Robots /\ b \in Robots /\ a # r =>
         /\ <<a, b>> \in DOMAIN peers' <=> <<a, b>> \in DOMAIN peers
         /\ <<a, b>> \in DOMAIN peers => peers'[<<a, b>>] = peers[<<a, b>>]
  BY <1>0
<1>3. TableIsFiled'
  BY <1>0 DEF TableIsFiled
<1>4. \A t \in tasks' : t \in tasks /\ t.robot # r /\ t.robot \in Robots /\ t.from \in Robots
  BY <1>0 DEF Typed, IsTask, TaskOf
<1>5. \A t \in tasks' : Settled(t)'
  BY <1>2, <1>4 DEF Settled
<1>6. SessionsNegotiate'
  <2> SUFFICES ASSUME NEW pc \in DOMAIN pcs', pc.for # NoOffer, pcs'[pc].remote # NoMsg
               PROVE  Session(pc.owner, pc.for.by)' = pc
    BY DEF SessionsNegotiate
  <2>1. pc \in DOMAIN pcs /\ pc.owner # r /\ pcs'[pc] = pcs[pc]
    BY <1>0
  <2>2. Session(pc.owner, pc.for.by) = pc
    BY <2>1 DEF SessionsNegotiate
  <2>3. pc # NoPc
    BY DEF NoPc
  <2>4. <<pc.owner, pc.for.by>> \in DOMAIN peers /\ peers[<<pc.owner, pc.for.by>>] = pc
    BY <2>2, <2>3 DEF Session
  <2>5. <<pc.owner, pc.for.by>> \in DOMAIN peers' /\ peers'[<<pc.owner, pc.for.by>>] = pc
    BY <1>0, <2>1, <2>4
  <2> QED
    BY <2>5 DEF Session
<1>7. ASSUME NEW t \in tasks', t.at = "capture" PROVE CaptureIsDue(t)'
  BY <1>0, <1>2, <1>4, <1>7 DEF CaptureIsDue
<1>8. CapturesAreFiled' /\ OneCapture'
  BY <1>0 DEF CapturesAreFiled, OneCapture
<1> QED
  BY <1>1, <1>3, <1>5, <1>6, <1>7, <1>8

LEMMA ProcessKeeps ==
    ASSUME MInv, NEW r \in Robots,
           \/ \E p \in PeersOf[r] : Start(r, p)
           \/ MeshSubscribe(r) \/ CreateOffer(r) \/ PublishOffer(r) \/ CallSubscribe(r)
           \/ SubsystemFails(r) \/ SupervisorExit(r)
    PROVE  MInv'
<1>1. CASE \E p \in PeersOf[r] : Start(r, p)
  BY <1>1, TasksMoveOnly DEF Start
<1>2. CASE MeshSubscribe(r)
  BY <1>2, TasksMoveOnly DEF MeshSubscribe
<1>3. CASE CallSubscribe(r)
  BY <1>3, TasksMoveOnly DEF CallSubscribe
<1>4. CASE CreateOffer(r)
  <2> DEFINE new == [NewPc EXCEPT !.sig = "local", !.gathers = TRUE]
  <2>1. IsPc(new) /\ new.remote = NoMsg
    BY PcsArePcs
  <2>2. pcs' = With(pcs, CallPc(r), new) /\ peers' = peers /\ captures' = captures
        /\ tasks' = tasks
    BY <1>4 DEF CreateOffer
  <2> HIDE DEF new
  <2>3. CallPc(r).owner = r
    BY DEF CallPc
  <2>4. \A t \in tasks' : IsTask(t)
    BY <2>2 DEF MInv, Typed
  <2>5. Typed' /\ SessionsNegotiate'
    BY <2>1, <2>2, <2>3, <2>4, NewConnection
  <2> QED
    BY <2>2, <2>5, TasksMove
<1>5. CASE PublishOffer(r)
  <2> DEFINE m == Msg("offer", CallPc(r), Offer(r))
  <2>1. m.offer.by = r
    BY DEF Msg, Offer
  <2>2. /\ tasks' \subseteq tasks \cup Deliver(r, peer[r], m)
        /\ peers' = peers /\ captures' = captures /\ pcs' = pcs
    BY <1>5 DEF PublishOffer
  <2> HIDE DEF m
  <2>3. \A t \in Deliver(r, peer[r], m) : IsTask(t) /\ Settled(t) /\ t.at # "capture"
    BY <2>1, DeliveredIsSettled
  <2> QED
    BY <2>2, <2>3, TasksMoveOnly
<1>6. CASE SubsystemFails(r) \/ SupervisorExit(r)
  BY <1>6, DownKeeps DEF SubsystemFails, SupervisorExit
<1> QED
  BY <1>1, <1>2, <1>3, <1>4, <1>5, <1>6

LEMMA IceKeeps ==
    ASSUME MInv, NEW pc \in DOMAIN pcs, PublishIce(pc)
    PROVE  MInv'
<1> DEFINE m == Msg("ice", pc, NoOffer)
<1> DEFINE to == IF pc.for = NoOffer THEN peer[pc.owner] ELSE pc.for.by
<1>1. pc.owner \in Robots
  BY DEF MInv, Typed
<1>2. m.kind = "ice"
  BY DEF Msg
<1>3. /\ tasks' = tasks \cup Deliver(pc.owner, to, m)
      /\ peers' = peers /\ captures' = captures /\ pcs' = pcs
  BY DEF PublishIce, procVars
<1> HIDE DEF m, to
<1>4. \A t \in Deliver(pc.owner, to, m) : IsTask(t) /\ Settled(t) /\ t.at # "capture"
  BY <1>1, <1>2, DeliveredIsSettled
<1> QED
  BY <1>3, <1>4, TasksMoveOnly

-----------------------------------------------------------------------------
(* Tasks.                                                                  *)

\* A task in hand, and what its step may leave it as.
LEMMA TaskInHand ==
    ASSUME MInv, NEW t \in tasks
    PROVE  Typed /\ Settled(t) /\ IsTask(t) /\ t.robot \in Robots /\ t.from \in Robots
BY DEF MInv, Typed, IsTask, TaskOf

\* A session in the table is one, and is filed under its owner and its caller.
LEMMA SessionIs ==
    ASSUME MInv, NEW r \in Robots, NEW p \in Robots
    PROVE  /\ Session(r, p) = NoPc <=> <<r, p>> \notin DOMAIN peers
           /\ <<r, p>> \in DOMAIN peers =>
                peers[<<r, p>>] = Session(r, p) /\ Session(r, p).owner = r /\ Session(r, p).for.by = p
<1>1. NoPc.owner = NoRobot /\ r # NoRobot
  BY MeshConstants DEF NoPc
<1>2. <<r, p>> \in DOMAIN peers => peers[<<r, p>>].owner = r /\ peers[<<r, p>>].for.by = p
  BY DEF MInv, TableIsFiled
<1> QED
  BY <1>1, <1>2 DEF Session

LEMMA FindPeerKeeps ==
    ASSUME MInv, NEW t \in tasks, FindPeer(t)
    PROVE  MInv'
<1> DEFINE pc == Session(t.robot, t.from)
<1> DEFINE then == IF t.msg.kind = "ice" THEN "add_ice" ELSE "set_remote"
<1> DEFINE u == [t EXCEPT !.at = then, !.pc = pc]
<1> DEFINE v == [t EXCEPT !.at = "create"]
<1>1. /\ \/ pc # NoPc /\ tasks' = (tasks \ {t}) \cup {u}
         \/ t.msg.kind = "offer" /\ tasks' = (tasks \ {t}) \cup {v}
         \/ tasks' = tasks \ {t}
      /\ peers' = peers /\ captures' = captures /\ pcs' = pcs
  BY DEF FindPeer, Becomes, Ends, procVars
<1>2. PICK V : t \in TaskOf(V)
  BY TaskInHand DEF IsTask
<1>3. ASSUME pc # NoPc PROVE IsTask(u) /\ Settled(u) /\ u.at # "capture"
  <2>1. <<t.robot, t.from>> \in DOMAIN peers /\ peers[<<t.robot, t.from>>] = pc
    BY <1>3, TaskInHand, SessionIs
  <2>2. /\ u \in TaskOf(V \cup {then, pc}) /\ u.at = then /\ u.pc = pc
        /\ u.robot = t.robot /\ u.from = t.from /\ u.msg = t.msg /\ u.ans = t.ans
    BY <1>2 DEF TaskOf
  <2> HIDE DEF u
  <2> QED
    BY <2>1, <2>2, TaskInHand DEF Settled, IsTask
<1>4. ASSUME t.msg.kind = "offer" PROVE IsTask(v) /\ Settled(v) /\ v.at # "capture"
  <2>1. /\ v \in TaskOf(V \cup {"create"}) /\ v.at = "create"
        /\ v.robot = t.robot /\ v.from = t.from /\ v.msg = t.msg /\ v.ans = t.ans
    BY <1>2 DEF TaskOf
  <2> HIDE DEF v
  <2> QED
    BY <1>4, <2>1, TaskInHand DEF Settled, Negotiating, IsTask
<1> HIDE DEF u, v, pc
<1> QED
  BY <1>1, <1>3, <1>4, TasksMoveOnly

\* A task that goes on at another step with the connection it has, its message too.
LEMMA GoesOn ==
    ASSUME MInv, NEW t \in tasks, t.at \in Negotiating, NEW at \in Negotiating, NEW ans,
           ans.kind # "offer", NEW u, u = [t EXCEPT !.at = at, !.ans = ans]
    PROVE  IsTask(u) /\ Settled(u) /\ u.at # "capture"
<1>1. PICK V : t \in TaskOf(V)
  BY TaskInHand DEF IsTask
<1>2. /\ u \in TaskOf(V \cup {at, ans}) /\ u.at = at /\ u.pc = t.pc /\ u.ans = ans
      /\ u.robot = t.robot /\ u.from = t.from /\ u.msg = t.msg
  BY <1>1 DEF TaskOf
<1> QED
  BY <1>2, TaskInHand DEF Settled, Negotiating, IsTask

LEMMA CreatePeerKeeps ==
    ASSUME MInv, NEW t \in tasks, CreatePeer(t)
    PROVE  MInv'
<1> DEFINE q == AnswerPc(t.robot, t.msg.offer)
<1> DEFINE u == [t EXCEPT !.at = "insert", !.pc = q]
<1>1. /\ \/ pcs' = With(pcs, q, NewPc) /\ tasks' = (tasks \ {t}) \cup {u}
         \/ pcs' = pcs /\ tasks' = tasks \ {t}
      /\ peers' = peers /\ captures' = captures
  BY DEF CreatePeer, Becomes, Ends, procVars
<1>2. t.msg.kind = "offer" /\ t.msg.offer.by = t.from
  BY TaskInHand DEF Settled, CreatePeer
<1>3. q.owner = t.robot /\ q.for.by = t.from
  BY <1>2 DEF AnswerPc
<1> HIDE DEF q
<1>4. IsTask(u) /\ u.at = "insert" /\ u.pc = q
      /\ u.robot = t.robot /\ u.from = t.from /\ u.msg = t.msg /\ u.ans = t.ans
  <2>1. PICK V : t \in TaskOf(V)
    BY TaskInHand DEF IsTask
  <2>2. /\ u \in TaskOf(V \cup {"insert", q}) /\ u.at = "insert" /\ u.pc = q
        /\ u.robot = t.robot /\ u.from = t.from /\ u.msg = t.msg /\ u.ans = t.ans
    BY <2>1 DEF TaskOf
  <2> HIDE DEF u
  <2> QED
    BY <2>2 DEF IsTask
<1> HIDE DEF u
<1>5. Settled(u)
  BY <1>2, <1>3, <1>4, TaskInHand DEF Settled, Negotiating
<1>6. CASE pcs' = pcs /\ tasks' = tasks \ {t}
  BY <1>1, <1>6, TaskInHand, TasksMoveOnly
<1>7. CASE pcs' = With(pcs, q, NewPc) /\ tasks' = (tasks \ {t}) \cup {u}
  <2>1. \A x \in tasks' : IsTask(x)
    BY <1>4, <1>7 DEF MInv, Typed
  <2>2. IsPc(NewPc) /\ NewPc.remote = NoMsg
    BY PcsArePcs
  <2>3. Typed' /\ SessionsNegotiate'
    BY <1>1, <1>3, <1>7, <2>1, <2>2, TaskInHand, NewConnection
  <2>4. \A x \in tasks' : x \in tasks \/ (Settled(x) /\ x.at # "capture")
    BY <1>4, <1>5, <1>7
  <2> QED
    BY <1>1, <2>3, <2>4, TasksMove
<1> QED
  BY <1>1, <1>6, <1>7

LEMMA StartCaptureKeeps ==
    ASSUME MInv, NEW t \in tasks, StartCapture(t)
    PROVE  MInv'
<1> DEFINE c0 == <<t.robot, t.from, t.msg.offer>>
<1>1. /\ t.at = "capture" /\ tasks' = tasks \ {t}
      /\ captures' = captures \/ captures' = captures \cup {c0}
      /\ peers' = peers /\ pcs' = pcs
  BY DEF StartCapture, Ends, procVars
<1>2. CaptureIsDue(t)
  BY <1>1 DEF MInv
<1>3. c0[1] = t.robot /\ c0[2] = t.from
  OBVIOUS
<1> HIDE DEF c0
<1>4. Typed' /\ TableIsFiled' /\ SessionsNegotiate' /\ \A u \in tasks' : Settled(u)'
  BY <1>1 DEF MInv, Typed, TableIsFiled, SessionsNegotiate, Session, Settled
<1>5. ASSUME NEW u \in tasks', u.at = "capture" PROVE CaptureIsDue(u)'
  <2>1. u \in tasks /\ u # t /\ CaptureIsDue(u)
    BY <1>1, <1>5 DEF MInv
  <2>2. ~(u.robot = t.robot /\ u.from = t.from)
    BY <1>2, <1>5, <2>1 DEF CaptureIsDue
  <2> QED
    BY <1>1, <1>3, <2>1, <2>2 DEF CaptureIsDue
<1>6. CapturesAreFiled'
  BY <1>1, <1>2, <1>3 DEF MInv, CapturesAreFiled, CaptureIsDue
<1>7. OneCapture'
  BY <1>1, <1>2, <1>3 DEF MInv, OneCapture, CaptureIsDue
<1> QED
  BY <1>4, <1>5, <1>6, <1>7 DEF MInv

\* A negotiating task changes the connection it has been given and no other.
LEMMA Negotiates ==
    ASSUME MInv, NEW t \in tasks, t.at \in Negotiating, NEW new, IsPc(new),
           pcs' = [pcs EXCEPT ![t.pc] = new], peers' = peers, \A x \in tasks' : IsTask(x)
    PROVE  Typed' /\ SessionsNegotiate'
<1>1. /\ DOMAIN pcs' = DOMAIN pcs /\ pcs' = [pc \in DOMAIN pcs' |-> pcs'[pc]]
      /\ \A pc \in DOMAIN pcs : pcs'[pc] = IF pc = t.pc THEN new ELSE pcs[pc]
  OBVIOUS
<1>4. Typed'
  BY <1>1 DEF MInv, Typed
<1>5. ASSUME NEW pc \in DOMAIN pcs', pc.for # NoOffer, pcs'[pc].remote # NoMsg
      PROVE  Session(pc.owner, pc.for.by)' = pc
  <2>1. CASE pc # t.pc
    BY <1>1, <1>5, <2>1 DEF MInv, SessionsNegotiate, Session
  <2>2. CASE pc = t.pc
    <3>1. <<t.robot, t.from>> \in DOMAIN peers /\ peers[<<t.robot, t.from>>] = pc
      BY <1>5, <2>2, TaskInHand DEF Settled
    <3>2. pc.owner = t.robot /\ pc.for.by = t.from
      BY <3>1, TaskInHand, SessionIs
    <3> QED
      BY <3>1, <3>2 DEF Session
  <2> QED
    BY <2>1, <2>2
<1> QED
  BY <1>4, <1>5 DEF SessionsNegotiate

LEMMA SetRemoteKeeps ==
    ASSUME MInv, NEW t \in tasks, SetRemote(t)
    PROVE  MInv'
<1> DEFINE u == [t EXCEPT !.at = "create_answer"]
<1> DEFINE kept == [pcs[t.pc] EXCEPT !.sig = IF t.msg.kind = "offer" THEN "remote" ELSE "stable",
                                     !.remote = t.msg]
<1>1. /\ t.at = "set_remote"
      /\ pcs' = pcs \/ pcs' = [pcs EXCEPT ![t.pc] = kept]
      /\ tasks' = (tasks \ {t}) \cup {u} \/ tasks' = tasks \ {t}
      /\ peers' = peers /\ captures' = captures
  BY DEF SetRemote, Becomes, Ends, procVars
<1>2. IsTask(u) /\ Settled(u) /\ u.at # "capture"
  <2>1. PICK V : t \in TaskOf(V)
    BY TaskInHand DEF IsTask
  <2>2. /\ u \in TaskOf(V \cup {"create_answer"}) /\ u.at = "create_answer" /\ u.pc = t.pc
        /\ u.robot = t.robot /\ u.from = t.from /\ u.msg = t.msg /\ u.ans = t.ans
    BY <2>1 DEF TaskOf
  <2> HIDE DEF u
  <2> QED
    BY <1>1, <2>2, TaskInHand DEF Settled, Negotiating, IsTask
<1> HIDE DEF u, kept
<1>3. CASE pcs' = pcs
  BY <1>1, <1>2, <1>3, TaskInHand, TasksMoveOnly
<1>4. CASE t.pc \in DOMAIN pcs /\ pcs' = [pcs EXCEPT ![t.pc] = kept]
  <2>1. IsPc(kept)
    BY <1>4, TaskInHand, RemoteIsSet DEF Typed, kept
  <2>2. \A x \in tasks' : IsTask(x)
    BY <1>1, <1>2 DEF MInv, Typed
  <2>3. Typed' /\ SessionsNegotiate'
    BY <1>1, <1>4, <2>1, <2>2, Negotiates DEF Negotiating
  <2> QED
    BY <1>1, <1>2, <2>3, TasksMove
<1>5. CASE t.pc \notin DOMAIN pcs /\ pcs' = [pcs EXCEPT ![t.pc] = kept]
  <2>1. pcs' = pcs
    BY <1>5 DEF MInv, Typed
  <2> QED
    BY <1>1, <1>2, <2>1, TaskInHand, TasksMoveOnly
<1> QED
  BY <1>1, <1>3, <1>4, <1>5

LEMMA CreateAnswerKeeps ==
    ASSUME MInv, NEW t \in tasks, CreateAnswer(t)
    PROVE  MInv'
<1> DEFINE m == Msg("answer", t.pc, pcs[t.pc].remote.offer)
<1> DEFINE u == [t EXCEPT !.at = "set_local", !.ans = m]
<1>1. /\ t.at = "create_answer"
      /\ tasks' = (tasks \ {t}) \cup {u} \/ tasks' = tasks \ {t}
      /\ peers' = peers /\ captures' = captures /\ pcs' = pcs
  BY DEF CreateAnswer, Becomes, Ends, procVars
<1>2. m.kind # "offer" /\ u = [t EXCEPT !.at = "set_local", !.ans = m]
  BY DEF Msg
<1> HIDE DEF m, u
<1>3. t.at \in Negotiating /\ "set_local" \in Negotiating
  BY <1>1 DEF Negotiating
<1>4. IsTask(u) /\ Settled(u) /\ u.at # "capture"
  BY <1>2, <1>3, GoesOn, Zenon
<1> QED
  BY <1>1, <1>4, TasksMoveOnly

LEMMA SetLocalKeeps ==
    ASSUME MInv, NEW t \in tasks, SetLocal(t)
    PROVE  MInv'
<1> DEFINE u == [t EXCEPT !.at = "publish"]
<1> DEFINE kept == [pcs[t.pc] EXCEPT !.sig = "stable", !.gathers = TRUE]
<1>1. /\ t.at = "set_local"
      /\ pcs' = pcs \/ pcs' = [pcs EXCEPT ![t.pc] = kept]
      /\ tasks' = (tasks \ {t}) \cup {u} \/ tasks' = tasks \ {t}
      /\ peers' = peers /\ captures' = captures
  BY DEF SetLocal, Becomes, Ends, procVars
<1>2. IsTask(u) /\ Settled(u) /\ u.at # "capture"
  <2>1. PICK V : t \in TaskOf(V)
    BY TaskInHand DEF IsTask
  <2>2. /\ u \in TaskOf(V \cup {"publish"}) /\ u.at = "publish" /\ u.pc = t.pc
        /\ u.robot = t.robot /\ u.from = t.from /\ u.msg = t.msg /\ u.ans = t.ans
    BY <2>1 DEF TaskOf
  <2> HIDE DEF u
  <2> QED
    BY <1>1, <2>2, TaskInHand DEF Settled, Negotiating, IsTask
<1> HIDE DEF u, kept
<1>3. CASE pcs' = pcs
  BY <1>1, <1>2, <1>3, TasksMoveOnly
<1>4. CASE t.pc \in DOMAIN pcs /\ pcs' = [pcs EXCEPT ![t.pc] = kept]
  <2>1. IsPc(kept)
    <3>1. PICK V : pcs[t.pc] \in [sig : V, remote : V, gathers : V]
      BY <1>4, TaskInHand DEF Typed, IsPc
    <3> DEFINE W == V \cup {"stable", TRUE}
    <3>2. kept \in [sig : W, remote : W, gathers : W]
      BY <3>1 DEF kept
    <3> QED
      BY <3>2 DEF IsPc
  <2>2. \A x \in tasks' : IsTask(x)
    BY <1>1, <1>2 DEF MInv, Typed
  <2>3. Typed' /\ SessionsNegotiate'
    BY <1>1, <1>4, <2>1, <2>2, Negotiates DEF Negotiating
  <2> QED
    BY <1>1, <1>2, <2>3, TasksMove
<1>5. CASE t.pc \notin DOMAIN pcs /\ pcs' = [pcs EXCEPT ![t.pc] = kept]
  <2>1. pcs' = pcs
    BY <1>5 DEF MInv, Typed
  <2> QED
    BY <1>1, <1>2, <2>1, TasksMoveOnly
<1> QED
  BY <1>1, <1>3, <1>4, <1>5

LEMMA PublishAnswerKeeps ==
    ASSUME MInv, NEW t \in tasks, PublishAnswer(t)
    PROVE  MInv'
<1>1. /\ tasks' = (tasks \ {t}) \cup Deliver(t.robot, t.from, t.ans)
      /\ peers' = peers /\ captures' = captures /\ pcs' = pcs
  BY DEF PublishAnswer, procVars
<1>2. t.robot \in Robots /\ t.ans.kind # "offer"
  BY TaskInHand DEF Settled
<1>3. \A u \in Deliver(t.robot, t.from, t.ans) : IsTask(u) /\ Settled(u) /\ u.at # "capture"
  BY <1>2, DeliveredIsSettled
<1> QED
  BY <1>1, <1>3, TasksMoveOnly

\* A session is made: the one step that changes the table.
LEMMA InsertPeerKeeps ==
    ASSUME MInv, NEW t \in tasks, InsertPeer(t)
    PROVE  MInv'
<1> DEFINE old == Session(t.robot, t.from)
<1> DEFINE key == <<t.robot, t.from>>
<1> DEFINE pc == IF old = NoPc THEN t.pc ELSE old
<1> DEFINE next == [t EXCEPT !.at = "set_remote", !.pc = pc]
<1> DEFINE due == [t EXCEPT !.at = "capture"]
<1>1. /\ t.at = "insert" /\ captures' = captures
      /\ old # NoPc => /\ peers' = peers /\ tasks' = (tasks \ {t}) \cup {next}
                       /\ pcs' = [q \in DOMAIN pcs \ {t.pc} |-> pcs[q]]
      /\ old = NoPc => /\ peers' = With(peers, key, t.pc) /\ pcs' = pcs
                       /\ tasks' \subseteq (tasks \ {t}) \cup {next, due}
  BY DEF InsertPeer, procVars
<1>2. PICK V : t \in TaskOf(V)
  BY TaskInHand DEF IsTask
<1>3. /\ next \in TaskOf(V \cup {"set_remote", pc}) /\ next.at = "set_remote" /\ next.pc = pc
      /\ next.robot = t.robot /\ next.from = t.from /\ next.msg = t.msg /\ next.ans = t.ans
  BY <1>2 DEF TaskOf
<1>4. /\ due \in TaskOf(V \cup {"capture"}) /\ due.at = "capture"
      /\ due.robot = t.robot /\ due.from = t.from /\ due.msg = t.msg /\ due.ans = t.ans
  BY <1>2 DEF TaskOf
<1> HIDE DEF next, due
<1>5. IsTask(next) /\ IsTask(due)
  BY <1>3, <1>4 DEF IsTask
<1>6. /\ t.robot \in Robots /\ t.from \in Robots /\ Settled(t)
      /\ t.pc.owner = t.robot /\ t.pc.for.by = t.from
      /\ old = NoPc <=> key \notin DOMAIN peers
      /\ key \in DOMAIN peers => peers[key] = old
  BY <1>1, TaskInHand, SessionIs DEF Settled
<1> HIDE DEF old
<1>7. CASE old # NoPc
  <2>1. \A x \in tasks' : IsTask(x)
    BY <1>1, <1>5, <1>7 DEF MInv, Typed
  <2>2. Typed'
    BY <1>1, <1>7, <2>1 DEF MInv, Typed
  <2>3. SessionsNegotiate'
    BY <1>1, <1>7 DEF MInv, SessionsNegotiate, Session
  <2>4. Settled(next)
    BY <1>3, <1>6, <1>7 DEF Settled, Negotiating
  <2> QED
    BY <1>1, <1>3, <1>7, <2>2, <2>3, <2>4, TasksMove
<1>8. CASE old = NoPc
  <2>1. /\ DOMAIN peers' = DOMAIN peers \cup {key} /\ peers'[key] = t.pc
        /\ key \notin DOMAIN peers
        /\ \A s \in DOMAIN peers : peers'[s] = peers[s]
        /\ peers' = [s \in DOMAIN peers' |-> peers'[s]]
    BY <1>1, <1>6, <1>8 DEF With
  <2>2. /\ \A x \in tasks' : x \in tasks \/ x = next \/ x = due
        /\ pcs' = pcs /\ captures' = captures
    BY <1>1, <1>8
  <2>3. Typed'
    BY <1>5, <2>1, <2>2 DEF MInv, Typed
  <2>4. TableIsFiled'
    BY <1>6, <2>1 DEF MInv, TableIsFiled
  <2>5. \A x \in tasks' : Settled(x)'
    <3>1. ASSUME NEW x \in tasks PROVE Settled(x)'
      BY <2>1, <3>1 DEF MInv, Settled
    <3>2. ASSUME NEW x, x = next PROVE Settled(x)'
      BY <1>3, <1>6, <1>8, <2>1, <3>2 DEF Settled, Negotiating
    <3>3. ASSUME NEW x, x = due PROVE Settled(x)'
      BY <1>4, <1>6, <3>3 DEF Settled, Negotiating
    <3> QED
      BY <2>2, <3>1, <3>2, <3>3
  <2>6. SessionsNegotiate'
    <3> SUFFICES ASSUME NEW q \in DOMAIN pcs, q.for # NoOffer, pcs[q].remote # NoMsg
                 PROVE  Session(q.owner, q.for.by)' = q
      BY <2>2 DEF SessionsNegotiate
    <3>1. Session(q.owner, q.for.by) = q /\ q # NoPc
      BY DEF MInv, SessionsNegotiate, NoPc
    <3>2. <<q.owner, q.for.by>> \in DOMAIN peers /\ peers[<<q.owner, q.for.by>>] = q
      BY <3>1 DEF Session
    <3> QED
      BY <2>1, <3>2 DEF Session
  <2>7. \A c \in captures : ~(c[1] = t.robot /\ c[2] = t.from)
    BY <2>1 DEF MInv, CapturesAreFiled
  <2>8. \A x \in tasks : x.at = "capture" => ~(x.robot = t.robot /\ x.from = t.from)
    BY <2>1 DEF MInv, CaptureIsDue
  <2>9. ASSUME NEW x \in tasks', x.at = "capture" PROVE CaptureIsDue(x)'
    <3>0. /\ next.at # "capture"
          /\ \A y \in tasks' : y.at = "capture" => y \in tasks \/ y = due
      BY <1>3, <2>2
    <3>1. CASE x = due
      <4>1. <<x.robot, x.from>> \in DOMAIN peers'
        BY <1>4, <2>1, <3>1
      <4>2. \A c \in captures' : ~(c[1] = x.robot /\ c[2] = x.from)
        BY <1>4, <2>2, <2>7, <3>1
      <4>3. \A y \in tasks' : y.at = "capture" /\ y.robot = x.robot /\ y.from = x.from => y = x
        BY <1>4, <2>8, <3>0, <3>1
      <4> QED
        BY <4>1, <4>2, <4>3 DEF CaptureIsDue
    <3>2. CASE x # due
      <4>1. x \in tasks /\ CaptureIsDue(x)
        BY <2>9, <3>0, <3>2 DEF MInv
      <4>2. <<x.robot, x.from>> \in DOMAIN peers' /\ \A c \in captures' : ~(c[1] = x.robot /\ c[2] = x.from)
        BY <2>1, <2>2, <4>1 DEF CaptureIsDue
      <4>3. ~(due.robot = x.robot /\ due.from = x.from)
        BY <1>4, <2>8, <2>9, <4>1
      <4>4. \A y \in tasks' : y.at = "capture" /\ y.robot = x.robot /\ y.from = x.from => y = x
        BY <3>0, <4>1, <4>3 DEF CaptureIsDue
      <4> QED
        BY <4>2, <4>4 DEF CaptureIsDue
    <3> QED
      BY <3>1, <3>2
  <2>10. CapturesAreFiled' /\ OneCapture'
    BY <2>1, <2>2 DEF MInv, CapturesAreFiled, OneCapture
  <2> QED
    BY <2>3, <2>4, <2>5, <2>6, <2>9, <2>10 DEF MInv
<1> QED
  BY <1>7, <1>8

LEMMA StepKeeps == MInv /\ [Next]_vars => MInv'
<1> SUFFICES ASSUME MInv, [Next]_vars PROVE MInv'
  OBVIOUS
<1>1. ASSUME NEW t \in tasks, TaskStep(t) PROVE MInv'
  <2>1. CASE AddIce(t) \/ SignalFails(t)
    BY <2>1, TasksMoveOnly DEF AddIce, SignalFails, Ends, procVars
  <2> QED
    BY <1>1, <2>1, FindPeerKeeps, CreatePeerKeeps, InsertPeerKeeps, StartCaptureKeeps,
       SetRemoteKeeps, CreateAnswerKeeps, SetLocalKeeps, PublishAnswerKeeps DEF TaskStep
<1>2. CASE UNCHANGED vars
  BY <1>2, TasksMoveOnly DEF vars
<1> QED
  BY <1>1, <1>2, ProcessKeeps, IceKeeps DEF Next

-----------------------------------------------------------------------------
\* However look-up, creation and insertion of offers interleave (mesh.rs, peer_for),
\* only the PeerConnection in the table is given one.
THEOREM SessionsAreTheOnes == Spec => []SessionsNegotiate
<1>1. MInv => SessionsNegotiate
  BY DEF MInv
<1> QED
  BY <1>1, InitHolds, StepKeeps, PTL DEF Spec

\* One capture pipeline for each session, however many offers make it.
THEOREM CaptureIsOne == Spec => []OneCapture
<1>1. MInv => OneCapture
  BY DEF MInv
<1> QED
  BY <1>1, InitHolds, StepKeeps, PTL DEF Spec

\* Signaling never replaces a session: it lasts until its process ends.
THEOREM SessionsLast == Spec => SessionsStay
<1> DEFINE Lasts == \A r, p \in Robots :
        Session(r, p) # NoPc => Session(r, p)' = Session(r, p) \/ proc'[r] = "off"
<1>0. Init /\ [][Next]_vars => [](proc \in [Robots -> {"off", "up"}])
  <2>1. Init => proc \in [Robots -> {"off", "up"}]
    BY DEF Init
  <2>2. proc \in [Robots -> {"off", "up"}] /\ [Next]_vars => (proc \in [Robots -> {"off", "up"}])'
    BY DEF Next, vars, procVars, Start, MeshSubscribe, CreateOffer, PublishOffer, CallSubscribe,
           SubsystemFails, SupervisorExit, Down, TaskStep, FindPeer, CreatePeer, InsertPeer,
           StartCapture, SetRemote, CreateAnswer, SetLocal, PublishAnswer, SignalFails, AddIce,
           PublishIce
  <2> QED
    BY <2>1, <2>2, PTL
<1>1. ASSUME MInv, Next, proc \in [Robots -> {"off", "up"}] PROVE Lasts
  <2>1. CASE peers' = peers
    BY <2>1 DEF Session
  <2>2. ASSUME NEW r \in Robots, Down(r) PROVE Lasts
    <3> SUFFICES ASSUME NEW q \in Robots, NEW p \in Robots, Session(q, p) # NoPc
                 PROVE  Session(q, p)' = Session(q, p) \/ proc'[q] = "off"
      OBVIOUS
    <3>1. CASE q = r
      BY <1>1, <2>2, <3>1 DEF Down
    <3>2. CASE q # r
      <4>1. peers' = [s \in {x \in DOMAIN peers : x[1] # r} |-> peers[s]]
        BY <2>2 DEF Down
      <4>2. <<q, p>> \in DOMAIN peers
        BY DEF Session
      <4>3. <<q, p>> \in DOMAIN peers' /\ peers'[<<q, p>>] = peers[<<q, p>>]
        BY <3>2, <4>1, <4>2
      <4> QED
        BY <4>2, <4>3 DEF Session
    <3> QED
      BY <3>1, <3>2
  <2>3. ASSUME NEW t \in tasks, InsertPeer(t), peers' # peers PROVE Lasts
    <3> DEFINE key == <<t.robot, t.from>>
    <3>1. Session(t.robot, t.from) = NoPc /\ peers' = With(peers, key, t.pc)
      BY <2>3 DEF InsertPeer
    <3>2. key \notin DOMAIN peers
      BY <1>1, <3>1, TaskInHand, SessionIs
    <3>3. \A s \in DOMAIN peers : s \in DOMAIN peers' /\ peers'[s] = peers[s]
      BY <3>1, <3>2 DEF With
    <3> HIDE DEF key
    <3> QED
      BY <3>3 DEF Session
  <2>4. \/ peers' = peers
        \/ \E r \in Robots : Down(r)
        \/ \E t \in tasks : InsertPeer(t)
    BY <1>1 DEF Next, vars, procVars, Start, MeshSubscribe, CreateOffer, PublishOffer,
           CallSubscribe, SubsystemFails, SupervisorExit, TaskStep, FindPeer, CreatePeer,
           StartCapture, SetRemote, CreateAnswer, SetLocal, PublishAnswer, SignalFails, AddIce,
           PublishIce
  <2> QED
    BY <2>1, <2>2, <2>3, <2>4
<1>2. ASSUME MInv, proc \in [Robots -> {"off", "up"}], [Next]_vars PROVE [Lasts]_vars
  BY <1>1, <1>2
<1> QED
  BY <1>0, <1>2, InitHolds, StepKeeps, PTL DEF Spec, SessionsStay

-----------------------------------------------------------------------------
(* Routes: what is put for a robot is heard by that robot alone.           *)

\* Sequence s and one more segment.
Add(s, e) == s \o <<e>>

IsAdded(S, k, s, e) ==
    /\ k \in Seq(S) /\ Len(k) = Len(s) + 1 /\ k[Len(s) + 1] = e
    /\ \A i \in 1..Len(s) : k[i] = s[i]

LEMMA AddIs ==
    ASSUME NEW S, NEW s \in Seq(S), NEW e \in S
    PROVE  IsAdded(S, Add(s, e), s, e)
<1> DEFINE one == <<e>>
<1>1. one \in Seq(S) /\ Len(one) = 1 /\ one[1] = e
  OBVIOUS
<1> HIDE DEF one
<1>2. /\ s \o one \in Seq(S) /\ Len(s \o one) = Len(s) + Len(one)
      /\ \A i \in 1..(Len(s) + Len(one)) : (s \o one)[i] =
            IF i <= Len(s) THEN s[i] ELSE one[i - Len(s)]
  BY <1>1, ConcatProperties
<1>3. Len(s) \in Nat
  BY LenProperties
<1>4. /\ Len(s) + 1 \in 1..(Len(s) + Len(one)) /\ ~(Len(s) + 1 <= Len(s))
      /\ Len(s) + 1 - Len(s) = 1
      /\ \A i \in 1..Len(s) : i \in 1..(Len(s) + Len(one)) /\ i <= Len(s)
  BY <1>1, <1>3
<1>5. Add(s, e) = s \o one
  BY DEF Add, one
<1> QED
  BY <1>1, <1>2, <1>4, <1>5 DEF IsAdded

LEMMA NotLegacy == "robot" \notin DOMAIN Hyphened
<1>1. <<"robot", "_", "zone">> \in Table /\ <<"robot", "_", "zone">>[1] = "robot"
  BY DEF Table
<1> QED
  BY <1>1, HyphenedConstants

FiveIs(k, a, b, c, d, e) ==
    Len(k) = 5 /\ k[1] = a /\ k[2] = b /\ k[3] = c /\ k[4] = d /\ k[5] = e

LEMMA TwoMore ==
    ASSUME NEW S, NEW d \in S, NEW e \in S, NEW s \in Seq(S)
    PROVE  Len(s) = 3 => FiveIs(Add(Add(s, d), e), s[1], s[2], s[3], d, e)
<1> DEFINE k4 == Add(s, d)
<1> DEFINE k == Add(k4, e)
<1>1. IsAdded(S, k4, s, d)
  BY AddIs, Zenon
<1> HIDE DEF k4
<1>2. k4 \in Seq(S)
  BY <1>1 DEF IsAdded
<1>3. IsAdded(S, k, k4, e)
  BY <1>2, AddIs, Zenon
<1> HIDE DEF k
<1>4. Len(s) = 3 => FiveIs(k, s[1], s[2], s[3], d, e)
  BY <1>1, <1>3 DEF IsAdded, FiveIs
<1> QED
  BY <1>4 DEF k, k4

LEMMA FiveSegments ==
    ASSUME NEW a, NEW b, NEW c, NEW d, NEW e
    PROVE  /\ FiveIs(<<a, b, c>> \o <<d>> \o <<e>>, a, b, c, d, e)
           /\ FiveIs(<<a>> \o <<b>> \o <<c>> \o <<d>> \o <<e>>, a, b, c, d, e)
<1> DEFINE S == {a, b, c, d, e}
<1>0. a \in S /\ b \in S /\ c \in S /\ d \in S /\ e \in S
  OBVIOUS
<1> DEFINE k == <<a, b, c>>
<1> DEFINE k1 == <<a>>
<1> DEFINE k2 == Add(k1, b)
<1> DEFINE k3 == Add(k2, c)
<1>1. k \in Seq(S) /\ Len(k) = 3 /\ k[1] = a /\ k[2] = b /\ k[3] = c
  OBVIOUS
<1>2. k1 \in Seq(S) /\ Len(k1) = 1 /\ k1[1] = a
  OBVIOUS
<1> HIDE DEF S, k, k1
<1>3. IsAdded(S, k2, k1, b)
  BY <1>0, <1>2, AddIs, Zenon
<1> HIDE DEF k2
<1>4. k2 \in Seq(S)
  BY <1>3 DEF IsAdded
<1>5. IsAdded(S, k3, k2, c)
  BY <1>0, <1>4, AddIs, Zenon
<1> HIDE DEF k3
<1>6. k3 \in Seq(S) /\ Len(k3) = 3 /\ k3[3] = c /\ k3[2] = b /\ k3[1] = a
  BY <1>2, <1>3, <1>5 DEF IsAdded
<1>7. FiveIs(Add(Add(k, d), e), k[1], k[2], k[3], d, e)
  BY <1>0, <1>1, TwoMore, Zenon
<1>8. FiveIs(Add(Add(k3, d), e), k3[1], k3[2], k3[3], d, e)
  BY <1>0, <1>6, TwoMore, Zenon
<1>9. FiveIs(Add(Add(k, d), e), a, b, c, d, e) /\ FiveIs(Add(Add(k3, d), e), a, b, c, d, e)
  BY <1>1, <1>6, <1>7, <1>8, Zenon
<1> QED
  BY <1>9, Zenon DEF k, k1, k2, k3, Add

LEMMA OneToFive == \A i \in 1..5 : i = 1 \/ i = 2 \/ i = 3 \/ i = 4 \/ i = 5
  OBVIOUS

LEMMA TupleOfFive ==
    ASSUME NEW p, NEW q, NEW r, NEW t, NEW u, NEW s, s = <<p, q, r, t, u>>
    PROVE  DOMAIN s = 1..5 /\ FiveIs(s, p, q, r, t, u)
  BY DEF FiveIs

\* A shape of five segments that fits five.
LEMMA FiveFit ==
    ASSUME NEW k, NEW a, NEW b, NEW c, NEW d, NEW e, NEW p, NEW q, NEW r, NEW t, NEW u,
           FiveIs(k, a, b, c, d, e),
           p \in {"_", a}, q \in {"_", b}, r \in {"_", c}, t \in {"_", d}, u \in {"_", e}
    PROVE  Fits(<<p, q, r, t, u>>, k)
<1> DEFINE s == <<p, q, r, t, u>>
<1>1. DOMAIN s = 1..5 /\ FiveIs(s, p, q, r, t, u)
  BY ONLY TupleOfFive
<1> HIDE DEF s
<1>2. Len(s) = Len(k)
  BY <1>1 DEF FiveIs
<1>3. ASSUME NEW i \in DOMAIN s PROVE s[i] \in {"_", k[i]}
  BY <1>1, OneToFive DEF FiveIs
<1>4. Fits(s, k)
  BY <1>2, <1>3 DEF Fits
<1> QED
  BY <1>4 DEF s

LEMMA SignalKeyIs ==
    ASSUME NEW from, NEW to, NEW kind
    PROVE  FiveIs(signal_key(<<from>>, <<to>>, kind), "robot", from, "signal", to, kind)
<1> DEFINE k == <<"robot">> \o <<from>> \o <<"signal">> \o <<to>> \o <<kind>>
<1>1. FiveIs(k, "robot", from, "signal", to, kind)
  BY FiveSegments
<1>2. signal_key(<<from>>, <<to>>, kind) = Topic_try_new(k)
  BY DEF signal_key
<1> HIDE DEF k
<1>3. canonicalize(k) = k
  BY <1>1, NotLegacy DEF canonicalize, FiveIs
<1>4. matches_one_of(k)
  <2> DEFINE shape == <<"robot", "_", "signal", "_", "_">>
  <2>1. shape \in Table
    BY DEF Table
  <2>2. Fits(shape, k)
    BY <1>1, FiveFit
  <2> HIDE DEF shape
  <2> QED
    BY <2>1, <2>2 DEF matches_one_of
<1> QED
  BY <1>1, <1>2, <1>3, <1>4 DEF Topic_try_new

\* The empty segment.
Blank == ""

LEMMA SignalPatternIs ==
    ASSUME NEW q, q # Blank, NEW kind \in DOMAIN Pattern
    PROVE  FiveIs(signal_pattern(<<q>>, kind), "robot", "*", "signal", q, kind)
<1> DEFINE k == <<"robot", "*", "signal">> \o <<q>> \o <<kind>>
<1>1. FiveIs(k, "robot", "*", "signal", q, kind)
  BY FiveSegments
<1>2. signal_pattern(<<q>>, kind) = Pattern_try_new(k)
  BY DEF signal_pattern
<1> HIDE DEF k
<1>3. canonicalize(k) = k
  BY <1>1, NotLegacy DEF canonicalize, FiveIs
<1>4. is_valid_pattern(k)
  <2> DEFINE shape == <<"robot", "*", "signal", "_", kind>>
  <2>1. kind \in {"offer", "answer", "ice"}
    BY DEF Pattern
  <2>2. shape \in WildTable
    BY <2>1 DEF WildTable
  <2>3. Fits(shape, k)
    BY <1>1, FiveFit
  <2> HIDE DEF shape
  <2> QED
    BY <2>2, <2>3 DEF is_valid_pattern
<1>5. \A i \in 2..(Len(k) - 1) : k[i] # Blank
  <2>1. \A i \in 2..4 : i = 2 \/ i = 3 \/ i = 4
    OBVIOUS
  <2>2. Len(k) - 1 = 4
    BY <1>1 DEF FiveIs
  <2>3. "*" # Blank /\ "signal" # Blank
    BY Zenon DEF Blank
  <2>4. k[2] # Blank /\ k[3] # Blank /\ k[4] # Blank
    BY <1>1, <2>3 DEF FiveIs
  <2> QED
    BY <2>1, <2>2, <2>4
<1>6. Pattern_try_new(k) = k
  BY <1>3, <1>4, <1>5, Zenon DEF Pattern_try_new, Blank
<1> QED
  BY <1>1, <1>2, <1>6

LEMMA RouteIs ==
    ASSUME NEW kind \in DOMAIN Pattern, NEW from \in Robots, NEW to \in Robots
    PROVE  Routes[kind][from][to] = {to}
<1>1. ASSUME NEW q \in Robots
      PROVE  Hears(signal_pattern(<<q>>, kind), signal_key(<<from>>, <<to>>, kind)) <=> q = to
  <2> DEFINE p == signal_pattern(<<q>>, kind)
  <2> DEFINE k == signal_key(<<from>>, <<to>>, kind)
  <2>1. q # Blank /\ q # "*"
    BY MeshConstants, Zenon DEF Wild, Blank
  <2>2. FiveIs(p, "robot", "*", "signal", q, kind) /\ FiveIs(k, "robot", from, "signal", to, kind)
    BY <2>1, SignalKeyIs, SignalPatternIs
  <2>3. kind # "**"
    BY DEF Pattern
  <2>4. \A i \in 1..5 : i = 1 \/ i = 2 \/ i = 3 \/ i = 4 \/ i = 5
    OBVIOUS
  <2> HIDE DEF p, k
  <2>5. Hears(p, k) <=> \A i \in 1..5 : p[i] \in {"*", k[i]}
    BY <2>2, <2>3 DEF Hears, FiveIs
  <2>6. Hears(p, k) <=> p[4] \in {"*", k[4]}
    BY <2>2, <2>4, <2>5 DEF FiveIs
  <2>7. Hears(p, k) <=> q = to
    BY <2>1, <2>2, <2>6 DEF FiveIs
  <2> QED
    BY <2>7 DEF p, k
<1>2. Routes[kind][from][to] =
        {q \in Robots : Hears(signal_pattern(<<q>>, kind), signal_key(<<from>>, <<to>>, kind))}
  BY DEF Routes
<1> QED
  BY <1>1, <1>2

-----------------------------------------------------------------------------
(* What tasks, PeerConnections and messages are made of.                   *)

LEMMA IdTypes ==
    ASSUME TypeOK
    PROVE  /\ NoOffer \in OfferIds /\ NoPc \in PcIds /\ NoMsg \in Msgs /\ NewPc \in Pcs
           /\ \A r \in Robots : Offer(r) \in OfferIds /\ CallPc(r) \in PcIds
           /\ \A r \in Robots, o \in OfferIds : AnswerPc(r, o) \in PcIds
<1>1. NoOffer \in OfferIds /\ \A r \in Robots : Offer(r) \in OfferIds
  BY DEF NoOffer, Offer, OfferIds, TypeOK
<1> HIDE DEF OfferIds, NoOffer
<1>2. /\ NoPc \in PcIds /\ \A r \in Robots : CallPc(r) \in PcIds
      /\ \A r \in Robots, o \in OfferIds : AnswerPc(r, o) \in PcIds
  BY <1>1 DEF NoPc, CallPc, AnswerPc, PcIds, TypeOK
<1>3. NoMsg \in Msgs
  BY <1>1, <1>2 DEF NoMsg, Msg, Msgs
<1>4. NewPc \in Pcs
  BY <1>3 DEF NewPc, Pcs
<1> QED
  BY <1>1, <1>2, <1>3, <1>4

LEMMA MsgIs ==
    ASSUME NEW kind \in {"offer", "answer", "ice"}, NEW pc \in PcIds, NEW o \in OfferIds
    PROVE  LET m == Msg(kind, pc, o)
           IN  m \in Msgs /\ m.kind = kind /\ m.pc = pc /\ m.offer = o
  BY DEF Msg, Msgs

LEMMA MsgFields ==
    ASSUME NEW m \in Msgs
    PROVE  m.kind \in {"none", "offer", "answer", "ice"} /\ m.pc \in PcIds /\ m.offer \in OfferIds
  BY DEF Msgs

LEMMA PcFields ==
    ASSUME NEW pc \in PcIds
    PROVE  /\ pc.owner \in Robots \cup {NoRobot} /\ pc.run \in Nat /\ pc.for \in OfferIds
           /\ pc = [owner |-> pc.owner, run |-> pc.run, for |-> pc.for]
  BY DEF PcIds

LEMMA OfferFields ==
    ASSUME NEW o \in OfferIds
    PROVE  o.by \in Robots \cup {NoRobot} /\ o.run \in Nat /\ o = [by |-> o.by, run |-> o.run]
  BY DEF OfferIds

LEMMA TaskFields ==
    ASSUME NEW t \in Tasks
    PROVE  /\ t.robot \in Robots /\ t.from \in Robots /\ t.at \in Steps
           /\ t.msg \in Msgs /\ t.pc \in PcIds /\ t.ans \in Msgs
  BY DEF Tasks

LEMMA NothingFields ==
    /\ NoMsg.kind = "none" /\ NoPc.owner = NoRobot /\ NoPc.for = NoOffer
    /\ NoOffer.by = NoRobot /\ NoRobot \notin Robots
  BY MeshConstants DEF NoMsg, Msg, NoPc, NoOffer

LEMMA PcIs ==
    /\ \A r : CallPc(r).owner = r /\ CallPc(r).run = run[r] /\ CallPc(r).for = NoOffer
    /\ \A r, o : AnswerPc(r, o).owner = r /\ AnswerPc(r, o).run = run[r] /\ AnswerPc(r, o).for = o
    /\ \A r : Offer(r).by = r /\ Offer(r).run = run[r]
  BY DEF CallPc, AnswerPc, Offer

\* Task u is t at another step, with another connection or answer in hand.
Goes(t, u, at, pc, ans) ==
    /\ u \in Tasks /\ u.robot = t.robot /\ u.from = t.from /\ u.msg = t.msg
    /\ u.at = at /\ u.pc = pc /\ u.ans = ans

LEMMA GoesTo ==
    ASSUME NEW t \in Tasks, NEW at \in Steps, NEW pc \in PcIds, NEW ans \in Msgs
    PROVE  /\ Goes(t, [t EXCEPT !.at = at], at, t.pc, t.ans)
           /\ Goes(t, [t EXCEPT !.at = at, !.pc = pc], at, pc, t.ans)
           /\ Goes(t, [t EXCEPT !.at = at, !.ans = ans], at, t.pc, ans)
<1>1. Goes(t, [t EXCEPT !.at = at], at, t.pc, t.ans)
  BY DEF Goes, Tasks
<1>2. Goes(t, [t EXCEPT !.at = at, !.pc = pc], at, pc, t.ans)
  BY DEF Goes, Tasks
<1>3. Goes(t, [t EXCEPT !.at = at, !.ans = ans], at, t.pc, ans)
  BY DEF Goes, Tasks
<1> QED
  BY <1>1, <1>2, <1>3

\* What a PeerConnection is in.
IsIn(c, sig, remote, gathers) ==
    c \in Pcs /\ c.sig = sig /\ c.remote = remote /\ c.gathers = gathers

LEMMA PcsFields ==
    ASSUME NEW c \in Pcs
    PROVE  c.sig \in {"stable", "local", "remote"} /\ c.remote \in Msgs /\ c.gathers \in BOOLEAN
  BY DEF Pcs

LEMMA ComesIn ==
    ASSUME NEW c \in Pcs, NEW sig \in {"stable", "local", "remote"}, NEW m \in Msgs
    PROVE  /\ IsIn([c EXCEPT !.sig = sig, !.remote = m], sig, m, c.gathers)
           /\ IsIn([c EXCEPT !.sig = sig, !.gathers = TRUE], sig, c.remote, TRUE)
<1>1. IsIn([c EXCEPT !.sig = sig, !.remote = m], sig, m, c.gathers)
  BY DEF IsIn, Pcs
<1>2. IsIn([c EXCEPT !.sig = sig, !.gathers = TRUE], sig, c.remote, TRUE)
  BY DEF IsIn, Pcs
<1> QED
  BY <1>1, <1>2

LEMMA StartsIn ==
    ASSUME NoMsg \in Msgs
    PROVE  /\ IsIn(NewPc, "stable", NoMsg, FALSE)
           /\ IsIn([NewPc EXCEPT !.sig = "local", !.gathers = TRUE], "local", NoMsg, TRUE)
<1>1. IsIn(NewPc, "stable", NoMsg, FALSE)
  BY DEF IsIn, Pcs, NewPc
<1>2. NewPc \in Pcs /\ NewPc.remote = NoMsg
  BY <1>1 DEF IsIn
<1> QED
  BY <1>1, <1>2, ComesIn DEF NewPc

-----------------------------------------------------------------------------
(* What a message starts.                                                  *)

First(kind) == IF kind = "ice" THEN "add_ice" ELSE "set_remote"

Found(from, to, m) == Task(to, from, m, "find", NoPc)
Called(from, to, m) == Task(to, from, m, First(m.kind), CallPc(to))

LEMMA DeliveredAre ==
    ASSUME NEW from \in Robots, NEW to \in Robots, NEW m, m.kind \in DOMAIN Pattern
    PROVE  Deliver(from, to, m) =
             {x \in {Found(from, to, m)} : meshSubs[to] >= Pattern[m.kind]}
             \cup {x \in {Called(from, to, m)} : callSubs[to] >= Pattern[m.kind]}
<1>1. Robots \cap Routes[m.kind][from][to] = {to}
  BY RouteIs
<1>2. Deliver(from, to, m) =
        {Task(q, from, m, "find", NoPc) : q \in {x \in {to} : meshSubs[x] >= Pattern[m.kind]}}
        \cup {Task(q, from, m, First(m.kind), CallPc(q)) :
                q \in {x \in {to} : callSubs[x] >= Pattern[m.kind]}}
  BY <1>1, Zenon DEF Deliver, First
<1> QED
  BY <1>2 DEF Found, Called

LEMMA DeliveredIs ==
    ASSUME TypeOK, NEW from \in Robots, NEW to \in Robots, NEW m \in Msgs,
           m.kind \in {"offer", "answer", "ice"}
    PROVE  /\ \A x \in Deliver(from, to, m) :
                 /\ x \in Tasks /\ x.robot = to /\ x.from = from /\ x.msg = m /\ x.ans = NoMsg
                 /\ \/ /\ x.at = "find" /\ x.pc = NoPc /\ x = Found(from, to, m)
                       /\ meshSubs[to] >= Pattern[m.kind]
                    \/ /\ x.at = First(m.kind) /\ x.pc = CallPc(to)
                       /\ callSubs[to] >= Pattern[m.kind]
           /\ meshSubs[to] >= Pattern[m.kind] => \E x \in Deliver(from, to, m) : x.at = "find"
           /\ callSubs[to] >= Pattern[m.kind] =>
                \E x \in Deliver(from, to, m) : x.at = First(m.kind) /\ x.pc = CallPc(to)
<1> DEFINE f == Found(from, to, m)
<1> DEFINE c == Called(from, to, m)
<1>1. m.kind \in DOMAIN Pattern
  BY DEF Pattern
<1>2. NoPc \in PcIds /\ CallPc(to) \in PcIds /\ NoMsg \in Msgs
  BY IdTypes
<1>3. /\ f \in Tasks /\ f.robot = to /\ f.from = from /\ f.msg = m /\ f.ans = NoMsg
      /\ f.at = "find" /\ f.pc = NoPc
  BY <1>2 DEF Found, Task, Tasks, Steps
<1>4. First(m.kind) \in Steps
  BY DEF First, Steps
<1> HIDE DEF First
<1>5. /\ c \in Tasks /\ c.robot = to /\ c.from = from /\ c.msg = m /\ c.ans = NoMsg
      /\ c.at = First(m.kind) /\ c.pc = CallPc(to)
  BY <1>2, <1>4 DEF Called, Task, Tasks
<1>6. Deliver(from, to, m) =
             {x \in {f} : meshSubs[to] >= Pattern[m.kind]}
             \cup {x \in {c} : callSubs[to] >= Pattern[m.kind]}
  BY <1>1, DeliveredAre
<1>7. f = Found(from, to, m)
  OBVIOUS
<1> DEFINE mesh == meshSubs[to] >= Pattern[m.kind]
<1> DEFINE own == callSubs[to] >= Pattern[m.kind]
<1> HIDE DEF f, c, mesh, own
<1>8. /\ \A x \in Deliver(from, to, m) : (x = f /\ mesh) \/ (x = c /\ own)
      /\ mesh => f \in Deliver(from, to, m)
      /\ own => c \in Deliver(from, to, m)
  BY <1>6, Zenon DEF mesh, own
<1> QED
  BY <1>3, <1>5, <1>7, <1>8 DEF mesh, own

-----------------------------------------------------------------------------
(* Lives: what a robot, a PeerConnection, a task has for as long as it is  *)
(* there.                                                                  *)

KnownOffer(o) == o.by \in Robots /\ o.run \in 1..run[o.by]

Life(r) ==
    /\ Up(r) => run[r] >= 1 /\ peer[r] \in PeersOf[r]
    /\ call[r] # "none" => Up(r) /\ peer[r] # NoRobot /\ CallPc(r) \in DOMAIN pcs
    /\ callSubs[r] > 0 => call[r] = "published"
    /\ meshSubs[r] > 0 => Up(r)

\* A PeerConnection that answers is never in an offer of its own.
PcLives(pc) ==
    /\ pc.owner \in Robots /\ Up(pc.owner) /\ pc.run = run[pc.owner]
    /\ pc.for = NoOffer => call[pc.owner] # "none"
    /\ pc.for # NoOffer => KnownOffer(pc.for) /\ pcs[pc].sig # "local"

TaskLives(t) ==
    /\ Up(t.robot) /\ t.msg.kind \in {"offer", "answer", "ice"}
    /\ t.msg.kind = "offer" => KnownOffer(t.msg.offer)
    /\ t.at \in {"create", "insert", "capture", "create_answer", "set_local", "publish"}
         => t.msg.kind = "offer"
    /\ t.at = "set_remote" => t.msg.kind \in {"offer", "answer"}
    /\ t.at = "add_ice" => t.msg.kind = "ice"
    /\ t.at \in {"set_local", "publish"} => t.ans.kind = "answer"
    /\ t.at \in Negotiating => t.pc \in DOMAIN pcs /\ t.pc.owner = t.robot

\* An offer on its way to a PeerConnection: one task has it, and the connection that
\* it is about to make is not there yet, or not yet in the table.
Opening(t) == t.at \in {"find", "create", "insert"} /\ t.msg.kind = "offer"

OneOpening ==
    \A t, u \in tasks :
        Opening(t) /\ Opening(u) /\ t.robot = u.robot /\ t.msg.offer = u.msg.offer => t = u

OpeningIsNew(t) ==
    /\ Opening(t) /\ t.at # "insert" => AnswerPc(t.robot, t.msg.offer) \notin DOMAIN pcs
    /\ t.at = "insert" => /\ t.pc = AnswerPc(t.robot, t.msg.offer) /\ t.pc \in DOMAIN pcs
                          /\ \A s \in DOMAIN peers : peers[s] # t.pc

\* Nobody has an offer that has not been published.
OfferIsNew(r) ==
    Up(r) /\ call[r] # "published"
      => /\ \A t \in tasks : t.msg.kind = "offer" => t.msg.offer # Offer(r)
         /\ \A pc \in DOMAIN pcs : pc.for # Offer(r)

LInv ==
    /\ \A r \in Robots : Life(r)
    /\ \A pc \in DOMAIN pcs : PcLives(pc)
    /\ \A t \in tasks : TaskLives(t)
    /\ \A s \in DOMAIN peers : peers[s] \in DOMAIN pcs
    /\ OneOpening
    /\ \A t \in tasks : OpeningIsNew(t)
    /\ \A r \in Robots : OfferIsNew(r)

Base == TypeOK /\ MInv /\ LInv

-----------------------------------------------------------------------------
(* What each step changes.                                                 *)

IsFun(f) == f = [x \in DOMAIN f |-> f[x]]

\* No connection is made or dropped, and only q's state may change.
OnlyAt(q) ==
    /\ IsFun(pcs') /\ DOMAIN pcs' = DOMAIN pcs
    /\ \A p \in DOMAIN pcs : p # q => pcs'[p] = pcs[p]

Quiet == UNCHANGED <<proc, run, peer, meshSubs, call, callSubs>>

IsWith(w, f, x, v) ==
    /\ IsFun(w) /\ DOMAIN w = DOMAIN f \cup {x} /\ w[x] = v
    /\ \A y \in DOMAIN f : y # x => w[y] = f[y]

LEMMA WithIs ==
    ASSUME NEW f, NEW x, NEW v
    PROVE  IsWith(With(f, x, v), f, x, v)
  BY DEF With, IsFun, IsWith

LEMMA InHand ==
    ASSUME Base, NEW t \in tasks
    PROVE  /\ t \in Tasks /\ t.robot \in Robots /\ t.from \in Robots /\ t.at \in Steps
           /\ t.msg \in Msgs /\ t.pc \in PcIds /\ t.ans \in Msgs /\ t.msg.offer \in OfferIds
           /\ Settled(t) /\ TaskLives(t) /\ OpeningIsNew(t)
<1>1. t \in Tasks /\ Settled(t) /\ TaskLives(t) /\ OpeningIsNew(t)
  BY DEF Base, TypeOK, MInv, LInv
<1> QED
  BY <1>1, TaskFields, MsgFields

LEMMA SessionFacts ==
    ASSUME Base, NEW r \in Robots, NEW p \in Robots
    PROVE  /\ Session(r, p) \in PcIds
           /\ Session(r, p) = NoPc <=> <<r, p>> \notin DOMAIN peers
           /\ Session(r, p) # NoPc =>
                /\ peers[<<r, p>>] = Session(r, p) /\ Session(r, p) \in DOMAIN pcs
                /\ Session(r, p).owner = r /\ Session(r, p).for.by = p
                /\ Session(r, p).for # NoOffer
<1>1. <<r, p>> \in DOMAIN peers => peers[<<r, p>>] \in DOMAIN pcs /\ peers[<<r, p>>] \in PcIds
  BY DEF Base, LInv, TypeOK
<1>2. /\ Session(r, p) = NoPc <=> <<r, p>> \notin DOMAIN peers
      /\ <<r, p>> \in DOMAIN peers =>
           peers[<<r, p>>] = Session(r, p) /\ Session(r, p).owner = r /\ Session(r, p).for.by = p
  BY SessionIs DEF Base
<1>3. NoPc \in PcIds
  BY IdTypes DEF Base
<1> QED
  BY <1>1, <1>2, <1>3, NothingFields

FindPeerDoes(t, s) ==
    /\ t.at = "find" /\ Quiet /\ UNCHANGED <<pcs, peers, captures, trickled, missed>>
    /\ \/ /\ s # NoPc
          /\ \E u : /\ Goes(t, u, First(t.msg.kind), s, t.ans)
                    /\ tasks' = (tasks \ {t}) \cup {u}
       \/ /\ s = NoPc /\ t.msg.kind = "offer"
          /\ \E u : Goes(t, u, "create", t.pc, t.ans) /\ tasks' = (tasks \ {t}) \cup {u}
       \/ s = NoPc /\ t.msg.kind # "offer" /\ tasks' = tasks \ {t}

LEMMA FindPeerShape ==
    ASSUME Base, NEW t \in tasks, FindPeer(t), NEW s, s = Session(t.robot, t.from)
    PROVE  FindPeerDoes(t, s)
<1> USE DEF FindPeerDoes
<1> DEFINE u == [t EXCEPT !.at = First(t.msg.kind), !.pc = s]
<1> DEFINE v == [t EXCEPT !.at = "create"]
<1>1. /\ t.at = "find" /\ Quiet /\ UNCHANGED <<pcs, peers, captures, trickled, missed>>
      /\ \/ s # NoPc /\ tasks' = (tasks \ {t}) \cup {u}
         \/ s = NoPc /\ t.msg.kind = "offer" /\ tasks' = (tasks \ {t}) \cup {v}
         \/ s = NoPc /\ t.msg.kind # "offer" /\ tasks' = tasks \ {t}
  BY DEF FindPeer, Becomes, Ends, procVars, Quiet, First
<1>2. s \in PcIds /\ First(t.msg.kind) \in Steps /\ "create" \in Steps
  BY InHand, SessionFacts DEF First, Steps
<1>3. Goes(t, u, First(t.msg.kind), s, t.ans)
  BY <1>2, InHand, GoesTo
<1>4. Goes(t, v, "create", t.pc, t.ans)
  BY <1>2, InHand, GoesTo
<1> HIDE DEF u, v
<1> QED
  BY <1>1, <1>3, <1>4

CreatePeerDoes(t, q) ==
    /\ t.at = "create" /\ Quiet /\ UNCHANGED <<peers, captures, trickled>>
    /\ \/ /\ \E u : Goes(t, u, "insert", q, t.ans) /\ tasks' = (tasks \ {t}) \cup {u}
          /\ missed' = missed
          /\ IsFun(pcs') /\ DOMAIN pcs' = DOMAIN pcs \cup {q}
          /\ \A p \in DOMAIN pcs : p # q => pcs'[p] = pcs[p]
          /\ IsIn(pcs'[q], "stable", NoMsg, FALSE)
       \/ tasks' = tasks \ {t} /\ missed' = missed \cup {t.msg.offer} /\ pcs' = pcs

LEMMA CreatePeerShape ==
    ASSUME Base, NEW t \in tasks, CreatePeer(t), NEW q, q = AnswerPc(t.robot, t.msg.offer)
    PROVE  CreatePeerDoes(t, q)
<1> USE DEF CreatePeerDoes
<1> DEFINE u == [t EXCEPT !.at = "insert", !.pc = q]
<1>1. /\ t.at = "create" /\ Quiet /\ UNCHANGED <<peers, captures, trickled>>
      /\ \/ tasks' = (tasks \ {t}) \cup {u} /\ missed' = missed /\ pcs' = With(pcs, q, NewPc)
         \/ tasks' = tasks \ {t} /\ missed' = missed \cup {t.msg.offer} /\ pcs' = pcs
  BY DEF CreatePeer, Becomes, Ends, procVars, Quiet
<1>2. q \in PcIds /\ "insert" \in Steps /\ NoMsg \in Msgs
  BY InHand, IdTypes DEF Steps, Base
<1>3. Goes(t, u, "insert", q, t.ans)
  BY <1>2, InHand, GoesTo
<1> HIDE DEF u
<1>4. IsIn(NewPc, "stable", NoMsg, FALSE)
  BY <1>2, StartsIn
<1> DEFINE w == With(pcs, q, NewPc)
<1>5. IsWith(w, pcs, q, NewPc)
  BY WithIs, Zenon
<1> HIDE DEF w
<1>7. CASE tasks' = (tasks \ {t}) \cup {u} /\ missed' = missed /\ pcs' = w
  BY <1>1, <1>3, <1>4, <1>5, <1>7 DEF IsWith
<1>8. CASE tasks' = tasks \ {t} /\ missed' = missed \cup {t.msg.offer} /\ pcs' = pcs
  BY <1>1, <1>8
<1> QED
  BY <1>1, <1>7, <1>8 DEF w

InsertPeerDoes(t, s, key) ==
    /\ t.at = "insert" /\ Quiet /\ UNCHANGED <<captures, trickled, missed>>
    /\ \/ /\ s = NoPc /\ pcs' = pcs
          /\ IsFun(peers') /\ DOMAIN peers' = DOMAIN peers \cup {key} /\ peers'[key] = t.pc
          /\ key \notin DOMAIN peers /\ \A k \in DOMAIN peers : peers'[k] = peers[k]
          /\ \E u, v : /\ Goes(t, u, "set_remote", t.pc, t.ans)
                       /\ Goes(t, v, "capture", t.pc, t.ans)
                       /\ u \in tasks' /\ tasks \ {t} \subseteq tasks'
                       /\ tasks' \subseteq (tasks \ {t}) \cup {u, v}
       \/ /\ s # NoPc /\ peers' = peers /\ key \in DOMAIN peers /\ peers[key] = s
          /\ IsFun(pcs') /\ DOMAIN pcs' = DOMAIN pcs \ {t.pc}
          /\ \A p \in DOMAIN pcs' : pcs'[p] = pcs[p]
          /\ \E u : Goes(t, u, "set_remote", s, t.ans) /\ tasks' = (tasks \ {t}) \cup {u}

LEMMA InsertPeerShape ==
    ASSUME Base, NEW t \in tasks, InsertPeer(t),
           NEW s, s = Session(t.robot, t.from), NEW key, key = <<t.robot, t.from>>
    PROVE  InsertPeerDoes(t, s, key)
<1> USE DEF InsertPeerDoes
<1> DEFINE u == [t EXCEPT !.at = "set_remote", !.pc = t.pc]
<1> DEFINE w == [t EXCEPT !.at = "set_remote", !.pc = s]
<1> DEFINE v == [t EXCEPT !.at = "capture"]
<1>1. /\ t.at = "insert" /\ Quiet /\ UNCHANGED <<captures, trickled, missed>>
      /\ \/ /\ s = NoPc /\ pcs' = pcs /\ peers' = With(peers, key, t.pc)
            /\ tasks' = (tasks \ {t}) \cup {u} \cup (IF t.robot \in Cameras THEN {v} ELSE {})
         \/ /\ s # NoPc /\ peers' = peers /\ pcs' = [q \in DOMAIN pcs \ {t.pc} |-> pcs[q]]
            /\ tasks' = (tasks \ {t}) \cup {w} \cup {}
  BY DEF InsertPeer, procVars, Quiet
<1>2. s \in PcIds /\ t.pc \in PcIds /\ "set_remote" \in Steps /\ "capture" \in Steps
  BY InHand, SessionFacts DEF Steps
<1>3. /\ Goes(t, u, "set_remote", t.pc, t.ans) /\ Goes(t, w, "set_remote", s, t.ans)
      /\ Goes(t, v, "capture", t.pc, t.ans)
  BY <1>2, InHand, GoesTo
<1> HIDE DEF u, v, w
<1>4. /\ s = NoPc <=> key \notin DOMAIN peers
      /\ s # NoPc => peers[key] = s
  BY InHand, SessionFacts
<1>5. CASE s = NoPc
  <2>1. /\ IsFun(peers') /\ DOMAIN peers' = DOMAIN peers \cup {key} /\ peers'[key] = t.pc
        /\ \A k \in DOMAIN peers : peers'[k] = peers[k]
    <3> DEFINE more == With(peers, key, t.pc)
    <3>1. IsWith(more, peers, key, t.pc)
      BY WithIs, Zenon
    <3>2. peers' = more
      BY <1>1, <1>5
    <3> HIDE DEF more
    <3> QED
      BY <1>4, <1>5, <3>1, <3>2 DEF IsWith
  <2>2. u \in tasks' /\ tasks \ {t} \subseteq tasks' /\ tasks' \subseteq (tasks \ {t}) \cup {u, v}
    BY <1>1, <1>5
  <2> QED
    BY <1>1, <1>3, <1>4, <1>5, <2>1, <2>2
<1>6. CASE s # NoPc
  <2>1. IsFun(pcs') /\ DOMAIN pcs' = DOMAIN pcs \ {t.pc} /\ \A p \in DOMAIN pcs' : pcs'[p] = pcs[p]
    BY <1>1, <1>6 DEF IsFun
  <2>2. tasks' = (tasks \ {t}) \cup {w} /\ peers' = peers
    BY <1>1, <1>6
  <2> QED
    BY <1>1, <1>3, <1>4, <1>6, <2>1, <2>2
<1> QED
  BY <1>5, <1>6

LEMMA ExceptOnlyAt ==
    ASSUME TypeOK, NEW q \in DOMAIN pcs, NEW c, pcs' = [pcs EXCEPT ![q] = c]
    PROVE  OnlyAt(q) /\ pcs'[q] = c
  BY DEF OnlyAt, IsFun, TypeOK

SetRemoteDoes(t, c) ==
    /\ t.at = "set_remote" /\ Quiet /\ UNCHANGED <<peers, captures, trickled, missed>>
    /\ t.pc \in DOMAIN pcs /\ t.msg.kind \in {"offer", "answer"} /\ c \in Pcs
    /\ \/ /\ t.msg.kind = "offer" /\ c.sig # "local"
          /\ OnlyAt(t.pc) /\ IsIn(pcs'[t.pc], "remote", t.msg, c.gathers)
          /\ \E u : /\ Goes(t, u, "create_answer", t.pc, t.ans)
                    /\ tasks' = (tasks \ {t}) \cup {u}
       \/ /\ t.msg.kind = "answer" /\ c.sig = "local" /\ tasks' = tasks \ {t}
          /\ OnlyAt(t.pc) /\ IsIn(pcs'[t.pc], "stable", t.msg, c.gathers)
       \/ /\ pcs' = pcs /\ tasks' = tasks \ {t}
          /\ (t.msg.kind = "offer") = (c.sig = "local")

LEMMA SetRemoteShape ==
    ASSUME Base, NEW t \in tasks, SetRemote(t), NEW c, c = pcs[t.pc]
    PROVE  SetRemoteDoes(t, c)
<1> USE DEF SetRemoteDoes
<1> DEFINE u == [t EXCEPT !.at = "create_answer"]
<1> DEFINE o == [c EXCEPT !.sig = "remote", !.remote = t.msg]
<1> DEFINE a == [c EXCEPT !.sig = "stable", !.remote = t.msg]
<1>1. t.at = "set_remote" /\ Quiet /\ UNCHANGED <<peers, captures, trickled, missed>>
  BY DEF SetRemote, procVars, Quiet
<1>2. t.pc \in DOMAIN pcs /\ t.msg.kind \in {"offer", "answer"} /\ t.msg \in Msgs
  BY <1>1, InHand DEF TaskLives, Negotiating
<1>3. c \in Pcs /\ c.sig \in {"stable", "local", "remote"}
  BY <1>2, PcsFields DEF Base, TypeOK
<1>4. Goes(t, u, "create_answer", t.pc, t.ans)
  <2>1. "create_answer" \in Steps
    BY DEF Steps
  <2> QED
    BY <2>1, InHand, GoesTo
<1>5. IsIn(o, "remote", t.msg, c.gathers) /\ IsIn(a, "stable", t.msg, c.gathers)
  BY <1>2, <1>3, ComesIn
<1>6. CASE t.msg.kind = "offer" /\ c.sig # "local"
  <2>1. pcs' = [pcs EXCEPT ![t.pc] = o] /\ tasks' = (tasks \ {t}) \cup {u}
    BY <1>3, <1>6 DEF SetRemote, Becomes
  <2> HIDE DEF o, a, u
  <2>2. OnlyAt(t.pc) /\ pcs'[t.pc] = o
    BY <1>2, <2>1, ExceptOnlyAt DEF Base
  <2> QED
    BY <1>1, <1>2, <1>3, <1>4, <1>5, <1>6, <2>1, <2>2
<1>7. CASE t.msg.kind = "answer" /\ c.sig = "local"
  <2>1. pcs' = [pcs EXCEPT ![t.pc] = a] /\ tasks' = tasks \ {t}
    BY <1>3, <1>7 DEF SetRemote, Ends
  <2> HIDE DEF o, a, u
  <2>2. OnlyAt(t.pc) /\ pcs'[t.pc] = a
    BY <1>2, <2>1, ExceptOnlyAt DEF Base
  <2> QED
    BY <1>1, <1>2, <1>3, <1>5, <1>7, <2>1, <2>2
<1>8. CASE (t.msg.kind = "offer") = (c.sig = "local")
  <2>1. pcs' = pcs /\ tasks' = tasks \ {t}
    BY <1>2, <1>3, <1>8 DEF SetRemote, Ends
  <2> QED
    BY <1>1, <1>2, <1>3, <1>8, <2>1
<1> QED
  BY <1>2, <1>6, <1>7, <1>8

CreateAnswerDoes(t, c, m) ==
    /\ t.at = "create_answer" /\ Quiet
    /\ UNCHANGED <<pcs, peers, captures, trickled, missed>>
    /\ t.pc \in DOMAIN pcs /\ c \in Pcs /\ m \in Msgs
    /\ m.kind = "answer" /\ m.pc = t.pc /\ m.offer = c.remote.offer
    /\ \/ /\ c.sig = "remote"
          /\ \E u : /\ Goes(t, u, "set_local", t.pc, m)
                    /\ tasks' = (tasks \ {t}) \cup {u}
       \/ c.sig # "remote" /\ tasks' = tasks \ {t}

LEMMA CreateAnswerShape ==
    ASSUME Base, NEW t \in tasks, CreateAnswer(t), NEW c, c = pcs[t.pc],
           NEW m, m = Msg("answer", t.pc, c.remote.offer)
    PROVE  CreateAnswerDoes(t, c, m)
<1> USE DEF CreateAnswerDoes
<1> DEFINE u == [t EXCEPT !.at = "set_local", !.ans = m]
<1>1. /\ t.at = "create_answer" /\ Quiet
      /\ UNCHANGED <<pcs, peers, captures, trickled, missed>>
      /\ \/ c.sig = "remote" /\ tasks' = (tasks \ {t}) \cup {u}
         \/ c.sig # "remote" /\ tasks' = tasks \ {t}
  BY DEF CreateAnswer, Becomes, Ends, procVars, Quiet
<1>2. t.pc \in DOMAIN pcs
  BY <1>1, InHand DEF TaskLives, Negotiating
<1>3. c \in Pcs /\ c.remote.offer \in OfferIds
  BY <1>2, PcsFields, MsgFields DEF Base, TypeOK
<1>4. m \in Msgs /\ m.kind = "answer" /\ m.pc = t.pc /\ m.offer = c.remote.offer
  BY <1>3, InHand, MsgIs
<1>5. Goes(t, u, "set_local", t.pc, m)
  <2>1. "set_local" \in Steps
    BY DEF Steps
  <2> QED
    BY <1>4, <2>1, InHand, GoesTo
<1> HIDE DEF u
<1> QED
  BY <1>1, <1>2, <1>3, <1>4, <1>5

SetLocalDoes(t, c) ==
    /\ t.at = "set_local" /\ Quiet /\ UNCHANGED <<peers, captures, trickled, missed>>
    /\ t.pc \in DOMAIN pcs /\ c \in Pcs
    /\ \/ /\ c.sig = "remote" /\ OnlyAt(t.pc) /\ IsIn(pcs'[t.pc], "stable", c.remote, TRUE)
          /\ \E u : Goes(t, u, "publish", t.pc, t.ans) /\ tasks' = (tasks \ {t}) \cup {u}
       \/ /\ c.sig # "remote" \/ c.remote.offer # t.ans.offer
          /\ pcs' = pcs /\ tasks' = tasks \ {t}

LEMMA SetLocalShape ==
    ASSUME Base, NEW t \in tasks, SetLocal(t), NEW c, c = pcs[t.pc]
    PROVE  SetLocalDoes(t, c)
<1> USE DEF SetLocalDoes
<1> DEFINE u == [t EXCEPT !.at = "publish"]
<1> DEFINE s == [c EXCEPT !.sig = "stable", !.gathers = TRUE]
<1>1. /\ t.at = "set_local" /\ Quiet /\ UNCHANGED <<peers, captures, trickled, missed>>
      /\ \/ /\ c.sig = "remote" /\ pcs' = [pcs EXCEPT ![t.pc] = s]
            /\ tasks' = (tasks \ {t}) \cup {u}
         \/ /\ c.sig # "remote" \/ c.remote.offer # t.ans.offer
            /\ pcs' = pcs /\ tasks' = tasks \ {t}
  BY DEF SetLocal, Becomes, Ends, procVars, Quiet
<1>2. t.pc \in DOMAIN pcs
  BY <1>1, InHand DEF TaskLives, Negotiating
<1>3. c \in Pcs
  BY <1>2 DEF Base, TypeOK
<1>4. Goes(t, u, "publish", t.pc, t.ans)
  <2>1. "publish" \in Steps
    BY DEF Steps
  <2> QED
    BY <2>1, InHand, GoesTo
<1>5. IsIn(s, "stable", c.remote, TRUE)
  <2>1. NoMsg \in Msgs
    BY IdTypes DEF Base
  <2> QED
    BY <1>3, <2>1, ComesIn
<1> HIDE DEF u, s
<1>6. pcs' = [pcs EXCEPT ![t.pc] = s] => OnlyAt(t.pc) /\ pcs'[t.pc] = s
  BY <1>2, ExceptOnlyAt DEF Base
<1> QED
  BY <1>1, <1>2, <1>3, <1>4, <1>5, <1>6

\* The robot that a connection was built to talk to.
Partner(pc) == IF pc.for = NoOffer THEN peer[pc.owner] ELSE pc.for.by

PublishIceDoes(pc, m) ==
    /\ Quiet /\ UNCHANGED <<pcs, peers, captures, missed>> /\ trickled' \in 0..MaxIce
    /\ pc \in PcIds /\ pc.owner \in Robots /\ Partner(pc) \in Robots /\ pcs[pc].gathers
    /\ m \in Msgs /\ m.kind = "ice" /\ m.pc = pc /\ m.offer = NoOffer
    /\ tasks' = tasks \cup Deliver(pc.owner, Partner(pc), m)

LEMMA PublishIceShape ==
    ASSUME Base, NEW pc \in DOMAIN pcs, PublishIce(pc), NEW m, m = Msg("ice", pc, NoOffer)
    PROVE  PublishIceDoes(pc, m)
<1> USE DEF PublishIceDoes
<1>1. /\ Quiet /\ UNCHANGED <<pcs, peers, captures, missed>> /\ pcs[pc].gathers
      /\ trickled < MaxIce /\ trickled' = trickled + 1
      /\ tasks' = tasks \cup Deliver(pc.owner, Partner(pc), m)
  BY DEF PublishIce, procVars, Quiet, Partner
<1>2. pc \in PcIds /\ PcLives(pc)
  BY DEF Base, TypeOK, LInv
<1>3. trickled' \in 0..MaxIce
  <2>1. MaxIce \in Nat
    BY MeshConstants, Zenon
  <2> QED
    BY <1>1, <2>1 DEF Base, TypeOK
<1>4. m \in Msgs /\ m.kind = "ice" /\ m.pc = pc /\ m.offer = NoOffer
  BY <1>2, IdTypes, MsgIs DEF Base
<1>5. Partner(pc) \in Robots
  <2>1. CASE pc.for = NoOffer
    <3>1. pc.owner \in Robots /\ Life(pc.owner) /\ call[pc.owner] # "none"
      BY <1>2, <2>1 DEF PcLives, Base, LInv
    <3> QED
      BY <2>1, <3>1 DEF Life, Partner, Base, TypeOK
  <2>2. CASE pc.for # NoOffer
    BY <1>2, <2>2 DEF PcLives, KnownOffer, Partner
  <2> QED
    BY <2>1, <2>2
<1> QED
  BY <1>1, <1>2, <1>3, <1>4, <1>5 DEF PcLives

PublishAnswerDoes(t) ==
    /\ t.at = "publish" /\ Quiet /\ UNCHANGED <<pcs, peers, captures, trickled>>
    /\ tasks' = (tasks \ {t}) \cup Deliver(t.robot, t.from, t.ans)
    /\ t.ans.kind = "answer" /\ t.ans \in Msgs
    /\ missed' = IF callSubs[t.from] >= Pattern["answer"] THEN missed
                 ELSE missed \cup {Offer(t.from)}

LEMMA PublishAnswerShape ==
    ASSUME Base, NEW t \in tasks, PublishAnswer(t)
    PROVE  PublishAnswerDoes(t)
<1> USE DEF PublishAnswerDoes
<1>1. /\ t.at = "publish" /\ Quiet /\ UNCHANGED <<pcs, peers, captures, trickled>>
      /\ tasks' = (tasks \ {t}) \cup Deliver(t.robot, t.from, t.ans)
      /\ missed' = IF callSubs[t.from] >= Pattern["answer"] THEN missed
                   ELSE missed \cup {Offer(t.from)}
  BY DEF PublishAnswer, procVars, Quiet
<1> QED
  BY <1>1, InHand DEF TaskLives

SignalFailsDoes(t) ==
    /\ t.at \in {"set_remote", "create_answer", "set_local", "publish"}
    /\ Quiet /\ UNCHANGED <<pcs, peers, captures, trickled>>
    /\ tasks' = tasks \ {t} /\ missed' = missed \cup Lost(t)

LEMMA SignalFailsShape ==
    ASSUME NEW t \in tasks, SignalFails(t)
    PROVE  SignalFailsDoes(t)
  BY DEF SignalFails, SignalFailsDoes, Ends, procVars, Quiet

PublishOfferDoes(r, m) ==
    /\ Up(r) /\ call[r] = "created" /\ call' = [call EXCEPT ![r] = "published"]
    /\ UNCHANGED <<proc, run, peer, meshSubs, callSubs, pcs, peers, captures, trickled>>
    /\ m \in Msgs /\ m.kind = "offer" /\ m.pc = CallPc(r) /\ m.offer = Offer(r)
    /\ peer[r] \in Robots
    /\ tasks \subseteq tasks' /\ tasks' \subseteq tasks \cup Deliver(r, peer[r], m)
    /\ missed \subseteq missed' /\ missed' \subseteq missed \cup {Offer(r)}
    /\ \/ Offer(r) \in missed'
       \/ /\ meshSubs[peer[r]] >= Pattern["offer"]
          /\ Deliver(r, peer[r], m) \subseteq tasks'

LEMMA PublishOfferShape ==
    ASSUME Base, NEW r \in Robots, PublishOffer(r), NEW m, m = Msg("offer", CallPc(r), Offer(r))
    PROVE  PublishOfferDoes(r, m)
<1> USE DEF PublishOfferDoes
<1>1. /\ Up(r) /\ call[r] = "created" /\ call' = [call EXCEPT ![r] = "published"]
      /\ UNCHANGED <<proc, run, peer, meshSubs, callSubs, pcs, peers, captures, trickled>>
      /\ tasks \subseteq tasks' /\ tasks' \subseteq tasks \cup Deliver(r, peer[r], m)
      /\ missed \subseteq missed' /\ missed' \subseteq missed \cup {Offer(r)}
      /\ \/ Offer(r) \in missed'
         \/ /\ meshSubs[peer[r]] >= Pattern["offer"]
            /\ Deliver(r, peer[r], m) \subseteq tasks'
  BY DEF PublishOffer
<1>2. m \in Msgs /\ m.kind = "offer" /\ m.pc = CallPc(r) /\ m.offer = Offer(r)
  BY IdTypes, MsgIs DEF Base
<1>3. peer[r] \in Robots
  BY <1>1 DEF Base, LInv, Life, TypeOK
<1> QED
  BY <1>1, <1>2, <1>3

CreateOfferDoes(r) ==
    /\ Up(r) /\ peer[r] # NoRobot /\ call[r] = "none"
    /\ call' = [call EXCEPT ![r] = "created"]
    /\ UNCHANGED <<proc, run, peer, meshSubs, callSubs, peers, captures, tasks, trickled, missed>>
    /\ CallPc(r) \in PcIds /\ CallPc(r) \notin DOMAIN pcs
    /\ IsFun(pcs') /\ DOMAIN pcs' = DOMAIN pcs \cup {CallPc(r)}
    /\ \A p \in DOMAIN pcs : pcs'[p] = pcs[p]
    /\ IsIn(pcs'[CallPc(r)], "local", NoMsg, TRUE)

LEMMA CreateOfferShape ==
    ASSUME Base, NEW r \in Robots, CreateOffer(r)
    PROVE  CreateOfferDoes(r)
<1> USE DEF CreateOfferDoes
<1> DEFINE c == [NewPc EXCEPT !.sig = "local", !.gathers = TRUE]
<1>1. /\ Up(r) /\ peer[r] # NoRobot /\ call[r] = "none"
      /\ call' = [call EXCEPT ![r] = "created"]
      /\ UNCHANGED <<proc, run, peer, meshSubs, callSubs, peers, captures, tasks, trickled, missed>>
      /\ pcs' = With(pcs, CallPc(r), c)
  BY DEF CreateOffer
<1>2. CallPc(r) \in PcIds /\ NoMsg \in Msgs
  BY IdTypes DEF Base
<1>3. IsIn(c, "local", NoMsg, TRUE)
  BY <1>2, StartsIn
<1>4. CallPc(r) \notin DOMAIN pcs
  BY <1>1, PcIs DEF Base, LInv, PcLives
<1> HIDE DEF c
<1>5. IsWith(pcs', pcs, CallPc(r), c)
  BY <1>1, WithIs
<1> QED
  BY <1>1, <1>2, <1>3, <1>4, <1>5 DEF IsWith

-----------------------------------------------------------------------------
(* Types.                                                                  *)

LEMMA TypeInit == Init => TypeOK
<1> SUFFICES ASSUME Init PROVE TypeOK
  OBVIOUS
<1>1. MaxIce \in Nat
  BY MeshConstants, Zenon
<1> DEFINE c == NewPc
<1> DEFINE n == NoPc
<1> HIDE DEF c, n
<1>2. pcs = [pc \in {} |-> c] /\ peers = [s \in {} |-> n]
  BY DEF Init, c, n
<1>3. DOMAIN pcs \subseteq PcIds /\ pcs \in [DOMAIN pcs -> Pcs]
  BY <1>2
<1>4. DOMAIN peers \subseteq Robots \X Robots /\ peers \in [DOMAIN peers -> PcIds]
  BY <1>2
<1>5. /\ proc \in [Robots -> {"off", "up"}] /\ run \in [Robots -> Nat]
      /\ peer \in [Robots -> Robots \cup {NoRobot}]
      /\ meshSubs \in [Robots -> 0..AllPatterns]
      /\ call \in [Robots -> {"none", "created", "published"}]
      /\ callSubs \in [Robots -> 0..AllPatterns]
  BY DEF Init, AllPatterns
<1>6. /\ captures \subseteq Robots \X Robots \X OfferIds /\ tasks \subseteq Tasks
      /\ trickled \in 0..MaxIce /\ missed \subseteq OfferIds
  BY <1>1 DEF Init
<1> QED
  BY <1>3, <1>4, <1>5, <1>6 DEF TypeOK

PcsTyped(f) == IsFun(f) /\ \A q \in DOMAIN f : q \in PcIds /\ f[q] \in Pcs
PeersTyped(f) == IsFun(f) /\ \A s \in DOMAIN f : s \in Robots \X Robots /\ f[s] \in PcIds

LEMMA AreTyped == TypeOK => PcsTyped(pcs) /\ PeersTyped(peers)
  BY DEF TypeOK, PcsTyped, PeersTyped, IsFun

\* A step that leaves the processes alone.
LEMMA TypeMoves ==
    ASSUME TypeOK, Quiet, tasks' \subseteq Tasks, PcsTyped(pcs'), PeersTyped(peers'),
           captures' \subseteq Robots \X Robots \X OfferIds,
           trickled' \in 0..MaxIce, missed' \subseteq OfferIds
    PROVE  TypeOK'
<1>1. DOMAIN pcs' \subseteq PcIds /\ pcs' \in [DOMAIN pcs' -> Pcs]
  BY DEF PcsTyped, IsFun
<1>2. DOMAIN peers' \subseteq Robots \X Robots /\ peers' \in [DOMAIN peers' -> PcIds]
  BY DEF PeersTyped, IsFun
<1> QED
  BY <1>1, <1>2 DEF TypeOK, Quiet

LEMMA TypeTask ==
    ASSUME Base, NEW t \in tasks, TaskStep(t)
    PROVE  TypeOK'
<1>1. /\ TypeOK /\ PcsTyped(pcs) /\ PeersTyped(peers) /\ tasks \subseteq Tasks
      /\ captures \subseteq Robots \X Robots \X OfferIds
      /\ trickled \in 0..MaxIce /\ missed \subseteq OfferIds
      /\ \A q \in DOMAIN pcs : q \in PcIds /\ pcs[q] \in Pcs
  BY AreTyped DEF Base, TypeOK, PcsTyped
<1>2. CASE FindPeer(t)
  <2>1. FindPeerDoes(t, Session(t.robot, t.from))
    BY <1>2, FindPeerShape
  <2>2. tasks' \subseteq Tasks
    BY <1>1, <2>1 DEF Goes, FindPeerDoes
  <2> QED
    BY <1>1, <2>1, <2>2, TypeMoves DEF FindPeerDoes
<1>3. CASE CreatePeer(t)
  <2> DEFINE q == AnswerPc(t.robot, t.msg.offer)
  <2>1. q \in PcIds
    BY <1>1, InHand, IdTypes
  <2>2. CreatePeerDoes(t, q)
    BY <1>3, CreatePeerShape
  <2> HIDE DEF q
  <2>3. tasks' \subseteq Tasks
    BY <1>1, <2>2 DEF Goes, CreatePeerDoes
  <2>4. PcsTyped(pcs')
    BY <1>1, <2>1, <2>2 DEF PcsTyped, IsIn, CreatePeerDoes
  <2>5. missed' \subseteq OfferIds
    <3>1. t.msg.offer \in OfferIds /\ missed \subseteq OfferIds
      BY <1>1, InHand
    <3>2. missed' = missed \/ missed' = missed \cup {t.msg.offer}
      BY <2>2, Zenon DEF CreatePeerDoes
    <3> QED
      BY <3>1, <3>2
  <2> QED
    BY <1>1, <2>2, <2>3, <2>4, <2>5, TypeMoves DEF CreatePeerDoes
<1>4. CASE InsertPeer(t)
  <2> DEFINE s == Session(t.robot, t.from)
  <2> DEFINE key == <<t.robot, t.from>>
  <2>1. key \in Robots \X Robots /\ t.pc \in PcIds
    BY InHand
  <2>2. InsertPeerDoes(t, s, key)
    BY <1>4, InsertPeerShape
  <2> HIDE DEF s, key
  <2>3. tasks' \subseteq Tasks
    <3>1. CASE s = NoPc
      BY <1>1, <2>2, <3>1 DEF Goes, InsertPeerDoes
    <3>2. CASE s # NoPc
      BY <1>1, <2>2, <3>2 DEF Goes, InsertPeerDoes
    <3> QED
      BY <3>1, <3>2
  <2>4. PcsTyped(pcs')
    BY <1>1, <2>2 DEF PcsTyped, InsertPeerDoes
  <2>5. PeersTyped(peers')
    BY <1>1, <2>1, <2>2 DEF PeersTyped, InsertPeerDoes
  <2> QED
    BY <1>1, <2>2, <2>3, <2>4, <2>5, TypeMoves DEF InsertPeerDoes
<1>5. CASE StartCapture(t)
  <2>1. <<t.robot, t.from, t.msg.offer>> \in Robots \X Robots \X OfferIds
    BY InHand
  <2>2. /\ captures' \subseteq Robots \X Robots \X OfferIds /\ tasks' \subseteq Tasks
        /\ Quiet /\ UNCHANGED <<pcs, peers, trickled, missed>>
    BY <1>1, <1>5, <2>1 DEF StartCapture, Ends, procVars, Quiet
  <2> QED
    BY <1>1, <2>2, TypeMoves
<1>6. CASE SetRemote(t)
  <2>1. SetRemoteDoes(t, pcs[t.pc])
    BY <1>6, SetRemoteShape
  <2>2. tasks' \subseteq Tasks
    BY <1>1, <2>1 DEF Goes, SetRemoteDoes
  <2>3. PcsTyped(pcs')
    BY <1>1, <2>1 DEF PcsTyped, OnlyAt, IsIn, SetRemoteDoes
  <2> QED
    BY <1>1, <2>1, <2>2, <2>3, TypeMoves DEF SetRemoteDoes
<1>7. CASE CreateAnswer(t)
  <2>1. CreateAnswerDoes(t, pcs[t.pc], Msg("answer", t.pc, pcs[t.pc].remote.offer))
    BY <1>7, CreateAnswerShape
  <2>2. tasks' \subseteq Tasks
    BY <1>1, <2>1 DEF Goes, CreateAnswerDoes
  <2> QED
    BY <1>1, <2>1, <2>2, TypeMoves DEF CreateAnswerDoes
<1>8. CASE SetLocal(t)
  <2>1. SetLocalDoes(t, pcs[t.pc])
    BY <1>8, SetLocalShape
  <2>2. tasks' \subseteq Tasks
    BY <1>1, <2>1 DEF Goes, SetLocalDoes
  <2>3. PcsTyped(pcs')
    BY <1>1, <2>1 DEF PcsTyped, OnlyAt, IsIn, SetLocalDoes
  <2> QED
    BY <1>1, <2>1, <2>2, <2>3, TypeMoves DEF SetLocalDoes
<1>9. CASE PublishAnswer(t)
  <2>1. PublishAnswerDoes(t)
    BY <1>9, PublishAnswerShape
  <2>2. tasks' \subseteq Tasks
    BY <1>1, <2>1, InHand, DeliveredIs DEF PublishAnswerDoes
  <2>3. missed' \subseteq OfferIds
    BY <1>1, <2>1, InHand, IdTypes DEF PublishAnswerDoes
  <2> QED
    BY <1>1, <2>1, <2>2, <2>3, TypeMoves DEF PublishAnswerDoes
<1>10. CASE AddIce(t)
  <2>1. tasks' \subseteq Tasks /\ Quiet /\ UNCHANGED <<pcs, peers, captures, trickled, missed>>
    BY <1>1, <1>10 DEF AddIce, Ends, procVars, Quiet
  <2> QED
    BY <1>1, <2>1, TypeMoves
<1>11. CASE SignalFails(t)
  <2>1. SignalFailsDoes(t)
    BY <1>11, SignalFailsShape
  <2>2. Lost(t) \subseteq OfferIds
    BY <1>1, InHand, IdTypes DEF Lost
  <2>3. missed' \subseteq OfferIds /\ tasks' \subseteq Tasks
    BY <1>1, <2>1, <2>2 DEF SignalFailsDoes
  <2> QED
    BY <1>1, <2>1, <2>3, TypeMoves DEF SignalFailsDoes
<1> QED
  BY <1>2, <1>3, <1>4, <1>5, <1>6, <1>7, <1>8, <1>9, <1>10, <1>11 DEF TaskStep

\* What a process takes away with it.
DownDoes(r) ==
    /\ proc' = [proc EXCEPT ![r] = "off"] /\ meshSubs' = [meshSubs EXCEPT ![r] = 0]
    /\ call' = [call EXCEPT ![r] = "none"] /\ callSubs' = [callSubs EXCEPT ![r] = 0]
    /\ UNCHANGED <<run, peer, trickled>>
    /\ IsFun(pcs') /\ DOMAIN pcs' = {q \in DOMAIN pcs : q.owner # r}
    /\ \A q \in DOMAIN pcs' : pcs'[q] = pcs[q]
    /\ IsFun(peers') /\ DOMAIN peers' = {s \in DOMAIN peers : s[1] # r}
    /\ \A s \in DOMAIN peers' : peers'[s] = peers[s]
    /\ captures' \subseteq captures /\ tasks' = {t \in tasks : t.robot # r}
    /\ missed' \subseteq OfferIds /\ missed \subseteq missed'
    /\ \A t \in tasks : t.robot = r => t.msg.offer \in missed' /\ Offer(t.from) \in missed'

LEMMA DownShape ==
    ASSUME Base, NEW r \in Robots, Down(r)
    PROVE  DownDoes(r)
<1> USE DEF DownDoes
<1>1. /\ IsFun(pcs') /\ DOMAIN pcs' = {q \in DOMAIN pcs : q.owner # r}
      /\ \A q \in DOMAIN pcs' : pcs'[q] = pcs[q]
  BY DEF Down, IsFun
<1>2. /\ IsFun(peers') /\ DOMAIN peers' = {s \in DOMAIN peers : s[1] # r}
      /\ \A s \in DOMAIN peers' : peers'[s] = peers[s]
  BY DEF Down, IsFun
<1>3. missed' = missed \cup UNION {{t.msg.offer, Offer(t.from)} : t \in {u \in tasks : u.robot = r}}
  BY DEF Down
<1>4. \A t \in tasks : t.msg.offer \in OfferIds /\ Offer(t.from) \in OfferIds
  BY InHand, IdTypes DEF Base
<1>5. missed \subseteq OfferIds
  BY DEF Base, TypeOK
<1>6. /\ missed' \subseteq OfferIds /\ missed \subseteq missed'
      /\ \A t \in tasks : t.robot = r => t.msg.offer \in missed' /\ Offer(t.from) \in missed'
  BY <1>3, <1>4, <1>5
<1>7. /\ captures' \subseteq captures /\ tasks' = {t \in tasks : t.robot # r}
      /\ proc' = [proc EXCEPT ![r] = "off"] /\ meshSubs' = [meshSubs EXCEPT ![r] = 0]
      /\ call' = [call EXCEPT ![r] = "none"] /\ callSubs' = [callSubs EXCEPT ![r] = 0]
      /\ UNCHANGED <<run, peer, trickled>>
  BY DEF Down
<1> QED
  BY <1>1, <1>2, <1>6, <1>7

LEMMA TypeProcess ==
    ASSUME Base, NEW r \in Robots,
           \/ \E p \in PeersOf[r] : Start(r, p)
           \/ MeshSubscribe(r) \/ CreateOffer(r) \/ PublishOffer(r) \/ CallSubscribe(r) \/ Down(r)
    PROVE  TypeOK'
<1>1. /\ TypeOK /\ PcsTyped(pcs) /\ PeersTyped(peers) /\ tasks \subseteq Tasks
  BY AreTyped DEF Base, TypeOK
<1>2. CASE \E p \in PeersOf[r] : Start(r, p)
  <2>1. PeersOf[r] \subseteq Robots \cup {NoRobot}
    BY MeshConstants, Zenon
  <2>2. PICK p \in Robots \cup {NoRobot} : Start(r, p)
    BY <1>2, <2>1
  <2> QED
    BY <1>1, <2>2 DEF Start, TypeOK
<1>3. CASE MeshSubscribe(r)
  BY <1>1, <1>3 DEF MeshSubscribe, TypeOK, AllPatterns
<1>4. CASE CallSubscribe(r)
  BY <1>1, <1>4 DEF CallSubscribe, TypeOK, AllPatterns
<1>5. CASE CreateOffer(r)
  <2>1. CreateOfferDoes(r)
    BY <1>5, CreateOfferShape
  <2>2. PcsTyped(pcs')
    BY <1>1, <2>1 DEF PcsTyped, IsIn, CreateOfferDoes
  <2>3. DOMAIN pcs' \subseteq PcIds /\ pcs' \in [DOMAIN pcs' -> Pcs]
    BY <2>2 DEF PcsTyped, IsFun
  <2>4. call' \in [Robots -> {"none", "created", "published"}]
    BY <1>1, <2>1 DEF TypeOK, CreateOfferDoes
  <2> QED
    BY <1>1, <2>1, <2>3, <2>4 DEF TypeOK, CreateOfferDoes
<1>6. CASE PublishOffer(r)
  <2>1. PublishOfferDoes(r, Msg("offer", CallPc(r), Offer(r)))
    BY <1>6, PublishOfferShape
  <2>2. tasks' \subseteq Tasks
    BY <1>1, <2>1, DeliveredIs DEF PublishOfferDoes
  <2>3. missed' \subseteq OfferIds
    BY <1>1, <2>1, IdTypes DEF TypeOK, PublishOfferDoes
  <2>4. call' \in [Robots -> {"none", "created", "published"}]
    BY <1>1, <2>1 DEF TypeOK, PublishOfferDoes
  <2> QED
    BY <1>1, <2>1, <2>2, <2>3, <2>4 DEF TypeOK, PublishOfferDoes
<1>7. CASE Down(r)
  <2>1. DownDoes(r)
    BY <1>7, DownShape
  <2>2. PcsTyped(pcs') /\ PeersTyped(peers')
    BY <1>1, <2>1 DEF PcsTyped, PeersTyped, DownDoes
  <2>3. DOMAIN pcs' \subseteq PcIds /\ pcs' \in [DOMAIN pcs' -> Pcs]
    BY <2>2 DEF PcsTyped, IsFun
  <2>4. DOMAIN peers' \subseteq Robots \X Robots /\ peers' \in [DOMAIN peers' -> PcIds]
    BY <2>2 DEF PeersTyped, IsFun
  <2>5. proc' \in [Robots -> {"off", "up"}] /\ call' \in [Robots -> {"none", "created", "published"}]
    BY <1>1, <2>1 DEF TypeOK, DownDoes
  <2>6. meshSubs' \in [Robots -> 0..AllPatterns] /\ callSubs' \in [Robots -> 0..AllPatterns]
    BY <1>1, <2>1 DEF TypeOK, AllPatterns, DownDoes
  <2>7. /\ captures' \subseteq Robots \X Robots \X OfferIds /\ tasks' \subseteq Tasks
        /\ missed' \subseteq OfferIds /\ UNCHANGED <<run, peer, trickled>>
    BY <1>1, <2>1 DEF TypeOK, DownDoes
  <2> QED
    BY <1>1, <2>3, <2>4, <2>5, <2>6, <2>7 DEF TypeOK
<1> QED
  BY <1>2, <1>3, <1>4, <1>5, <1>6, <1>7

LEMMA TypeIce ==
    ASSUME Base, NEW pc \in DOMAIN pcs, PublishIce(pc)
    PROVE  TypeOK'
<1>1. TypeOK /\ PcsTyped(pcs) /\ PeersTyped(peers) /\ tasks \subseteq Tasks
  BY AreTyped DEF Base, TypeOK
<1>2. PublishIceDoes(pc, Msg("ice", pc, NoOffer))
  BY PublishIceShape
<1>3. tasks' \subseteq Tasks
  BY <1>1, <1>2, DeliveredIs DEF PublishIceDoes
<1> QED
  BY <1>1, <1>2, <1>3, TypeMoves DEF TypeOK, PublishIceDoes

-----------------------------------------------------------------------------
(* Lives.                                                                  *)

LEMMA LivesInit == Init => LInv
<1> SUFFICES ASSUME Init PROVE LInv
  OBVIOUS
<1> DEFINE c == NewPc
<1> DEFINE n == NoPc
<1> HIDE DEF c, n
<1>1. pcs = [pc \in {} |-> c] /\ peers = [s \in {} |-> n] /\ tasks = {}
  BY DEF Init, c, n
<1>2. DOMAIN pcs = {} /\ DOMAIN peers = {}
  BY <1>1
<1>3. \A r \in Robots : proc[r] = "off" /\ call[r] = "none" /\ meshSubs[r] = 0 /\ callSubs[r] = 0
  BY DEF Init
<1>4. \A r \in Robots : Life(r) /\ OfferIsNew(r)
  BY <1>3 DEF Life, OfferIsNew, Up
<1> QED
  BY <1>1, <1>2, <1>4 DEF LInv, OneOpening

\* A task that has an offer which another task had, or no offer.
Inherits(u) == u.msg.kind = "offer" => \E v \in tasks : v.msg = u.msg

\* A step that makes and drops no connection, and adds no task that opens one.
LEMMA LivesMove ==
    ASSUME Base, Quiet, peers' = peers, DOMAIN pcs' = DOMAIN pcs,
           \A q \in DOMAIN pcs : q.for # NoOffer => pcs'[q].sig # "local",
           \A u \in tasks' : u \in tasks \/ (TaskLives(u) /\ ~Opening(u) /\ Inherits(u))
    PROVE  LInv'
<1>1. \A r \in Robots : Life(r)'
  BY DEF Base, LInv, Life, Quiet, Up, CallPc
<1>2. \A q \in DOMAIN pcs' : PcLives(q)'
  BY DEF Base, LInv, PcLives, KnownOffer, Quiet, Up
<1>3. \A u \in tasks' : TaskLives(u)'
  BY DEF Base, LInv, TaskLives, KnownOffer, Quiet, Up
<1>4. \A s \in DOMAIN peers' : peers'[s] \in DOMAIN pcs'
  BY DEF Base, LInv
<1>5. OneOpening'
  BY DEF Base, LInv, OneOpening
<1>6. ASSUME NEW u \in tasks' PROVE OpeningIsNew(u)'
  <2>1. CASE u \in tasks
    <3>1. OpeningIsNew(u)
      BY <2>1 DEF Base, LInv
    <3> QED
      BY <3>1 DEF OpeningIsNew, AnswerPc, Quiet
  <2>2. CASE TaskLives(u) /\ ~Opening(u)
    BY <2>2 DEF OpeningIsNew, TaskLives, Opening
  <2> QED
    BY <2>1, <2>2
<1>7. ASSUME NEW r \in Robots PROVE OfferIsNew(r)'
  <2>1. OfferIsNew(r)
    BY DEF Base, LInv
  <2>2. \A u \in tasks' : u.msg.kind = "offer" => \E v \in tasks : v.msg = u.msg
    BY DEF Inherits
  <2> QED
    BY <2>1, <2>2 DEF OfferIsNew, Offer, Quiet, Up
<1> QED
  BY <1>1, <1>2, <1>3, <1>4, <1>5, <1>6, <1>7 DEF LInv

LEMMA SigsStay ==
    ASSUME Base
    PROVE  \A q \in DOMAIN pcs : q.for # NoOffer => pcs[q].sig # "local"
  BY DEF Base, LInv, PcLives

LEMMA OpeningMoves ==
    ASSUME Base, NEW t \in tasks, Opening(t), NEW u, u.robot = t.robot, u.msg = t.msg,
           tasks' = (tasks \ {t}) \cup {u}
    PROVE  OneOpening'
<1>1. \A v \in tasks \ {t} : Opening(v) => ~(v.robot = t.robot /\ v.msg.offer = t.msg.offer)
  BY DEF Base, LInv, OneOpening
<1>2. \A v, w \in tasks \ {t} :
         Opening(v) /\ Opening(w) /\ v.robot = w.robot /\ v.msg.offer = w.msg.offer => v = w
  BY DEF Base, LInv, OneOpening
<1> QED
  BY <1>1, <1>2 DEF OneOpening

LEMMA FindPeerLives ==
    ASSUME Base, NEW t \in tasks, FindPeer(t)
    PROVE  LInv'
<1> DEFINE s == Session(t.robot, t.from)
<1>1. FindPeerDoes(t, s)
  BY FindPeerShape
<1>2. t.at = "find" /\ TaskLives(t) /\ OpeningIsNew(t)
  BY <1>1, InHand DEF FindPeerDoes
<1>3. s # NoPc => s \in DOMAIN pcs /\ s.owner = t.robot
  BY InHand, SessionFacts
<1> HIDE DEF s
<1>4. CASE s # NoPc
  <2>1. PICK u : Goes(t, u, First(t.msg.kind), s, t.ans) /\ tasks' = (tasks \ {t}) \cup {u}
    BY <1>1, <1>4 DEF FindPeerDoes
  <2>2. TaskLives(u) /\ ~Opening(u) /\ Inherits(u)
    BY <1>2, <1>3, <1>4, <2>1 DEF TaskLives, Opening, Inherits, Goes, First, Negotiating
  <2> QED
    BY <1>1, <2>1, <2>2, LivesMove, SigsStay DEF FindPeerDoes
<1>5. CASE s = NoPc /\ t.msg.kind = "offer"
  <2>1. PICK u : Goes(t, u, "create", t.pc, t.ans) /\ tasks' = (tasks \ {t}) \cup {u}
    BY <1>1, <1>5 DEF FindPeerDoes
  <2>2. Quiet /\ UNCHANGED <<pcs, peers>>
    BY <1>1 DEF FindPeerDoes
  <2>3. Opening(t) /\ u.robot = t.robot /\ u.msg = t.msg /\ u.at = "create" /\ u.msg.kind = "offer"
    BY <1>2, <1>5, <2>1 DEF Opening, Goes
  <2>4. OneOpening'
    BY <2>1, <2>3, OpeningMoves
  <2>5. \A r \in Robots : Life(r)'
    BY <2>2 DEF Base, LInv, Life, Quiet, Up, CallPc
  <2>6. (\A q \in DOMAIN pcs' : PcLives(q)') /\ \A x \in DOMAIN peers' : peers'[x] \in DOMAIN pcs'
    BY <2>2 DEF Base, LInv, PcLives, KnownOffer, Quiet, Up
  <2>7. TaskLives(u)
    BY <1>2, <2>3 DEF TaskLives, Negotiating
  <2>8. \A v \in tasks' : TaskLives(v)'
    BY <2>1, <2>2, <2>7 DEF Base, LInv, TaskLives, KnownOffer, Quiet, Up
  <2>9. \A v \in tasks' : OpeningIsNew(v)'
    BY <1>2, <2>1, <2>2, <2>3 DEF Base, LInv, OpeningIsNew, Opening, AnswerPc, Quiet
  <2>10. \A r \in Robots : OfferIsNew(r)'
    BY <2>1, <2>2, <2>3 DEF Base, LInv, OfferIsNew, Offer, Quiet, Up
  <2> QED
    BY <2>4, <2>5, <2>6, <2>8, <2>9, <2>10 DEF LInv
<1>6. CASE tasks' = tasks \ {t}
  BY <1>1, <1>6, LivesMove, SigsStay DEF FindPeerDoes
<1> QED
  BY <1>1, <1>4, <1>5, <1>6 DEF FindPeerDoes

LEMMA OfferIsOne ==
    ASSUME Base, NEW o, KnownOffer(o)
    PROVE  o # NoOffer
  BY NothingFields DEF KnownOffer

LEMMA CreatePeerLives ==
    ASSUME Base, NEW t \in tasks, CreatePeer(t)
    PROVE  LInv'
<1>0. PICK q : q = AnswerPc(t.robot, t.msg.offer)
  OBVIOUS
<1>1. CreatePeerDoes(t, q)
  BY <1>0, CreatePeerShape
<1>2. /\ t.at = "create" /\ TaskLives(t) /\ t.msg.kind = "offer" /\ Opening(t)
      /\ q \notin DOMAIN pcs /\ q.owner = t.robot /\ q.run = run[t.robot] /\ q.for = t.msg.offer
      /\ t.robot \in Robots
  BY <1>0, <1>1, InHand, PcIs DEF CreatePeerDoes, TaskLives, OpeningIsNew, Opening
<1>3. Up(t.robot) /\ KnownOffer(t.msg.offer) /\ t.msg.offer # NoOffer
  BY <1>2, OfferIsOne DEF TaskLives
<1>4. \A v \in tasks : v # t /\ Opening(v) => AnswerPc(v.robot, v.msg.offer) # q
  BY <1>0, <1>2, PcIs DEF Base, LInv, OneOpening
<1>5. CASE tasks' = tasks \ {t} /\ pcs' = pcs
  BY <1>1, <1>5, LivesMove, SigsStay DEF CreatePeerDoes
<1>6. CASE \E u : Goes(t, u, "insert", q, t.ans) /\ tasks' = (tasks \ {t}) \cup {u}
  <2>1. PICK u : Goes(t, u, "insert", q, t.ans) /\ tasks' = (tasks \ {t}) \cup {u}
    BY <1>6
  <2>2. u.robot = t.robot /\ u.msg = t.msg /\ u.at = "insert" /\ u.pc = q
    BY <2>1 DEF Goes
  <2>3. u \in tasks' /\ u \notin tasks \ {t} /\ u # t
    BY <1>2, <2>1, <2>2 DEF Base, LInv, OneOpening, Opening
  <2>4. /\ Quiet /\ peers' = peers /\ DOMAIN pcs' = DOMAIN pcs \cup {q} /\ pcs'[q].sig = "stable"
        /\ \A p \in DOMAIN pcs : pcs'[p] = pcs[p]
    BY <1>1, <1>2, <2>3 DEF CreatePeerDoes, IsIn
  <2>5. \A r \in Robots : Life(r)'
    BY <2>4 DEF Base, LInv, Life, Quiet, Up, CallPc
  <2>6. PcLives(q)'
    BY <1>2, <1>3, <2>4 DEF PcLives, KnownOffer, Quiet, Up
  <2>7. \A p \in DOMAIN pcs : PcLives(p)'
    BY <2>4 DEF Base, LInv, PcLives, KnownOffer, Quiet, Up
  <2>8. \A s \in DOMAIN peers : peers[s] \in DOMAIN pcs
    BY DEF Base, LInv
  <2>9. OneOpening'
    BY <1>2, <2>1, <2>2, OpeningMoves
  <2>10. TaskLives(u)'
    BY <1>2, <1>3, <2>2, <2>4 DEF TaskLives, KnownOffer, Negotiating, Quiet, Up
  <2>11. \A v \in tasks : TaskLives(v)'
    BY <2>4 DEF Base, LInv, TaskLives, KnownOffer, Quiet, Up
  <2>12. OpeningIsNew(u)'
    BY <1>0, <1>2, <2>2, <2>4, <2>8 DEF OpeningIsNew, AnswerPc, Quiet
  <2>13. ASSUME NEW v \in tasks, v # t PROVE OpeningIsNew(v)'
    <3>1. OpeningIsNew(v)
      BY DEF Base, LInv
    <3>2. AnswerPc(v.robot, v.msg.offer)' = AnswerPc(v.robot, v.msg.offer)
      BY <2>4 DEF AnswerPc, Quiet
    <3>3. Opening(v) /\ v.at # "insert" => AnswerPc(v.robot, v.msg.offer) \notin DOMAIN pcs'
      BY <1>4, <2>4, <2>13, <3>1 DEF OpeningIsNew
    <3> QED
      BY <2>4, <3>1, <3>2, <3>3 DEF OpeningIsNew
  <2>14. ASSUME NEW r \in Robots PROVE OfferIsNew(r)'
    <3>1. OfferIsNew(r)
      BY DEF Base, LInv
    <3>2. Up(r) /\ call[r] # "published" => t.msg.offer # Offer(r)
      BY <1>2, <3>1 DEF OfferIsNew
    <3> QED
      BY <1>2, <2>1, <2>2, <2>4, <3>1, <3>2 DEF OfferIsNew, Offer, Quiet, Up
  <2> QED
    BY <2>1, <2>4, <2>5, <2>6, <2>7, <2>8, <2>9, <2>10, <2>11, <2>12, <2>13, <2>14 DEF LInv
<1> QED
  BY <1>1, <1>5, <1>6 DEF CreatePeerDoes

LEMMA InsertPeerLives ==
    ASSUME Base, NEW t \in tasks, InsertPeer(t)
    PROVE  LInv'
<1> DEFINE s == Session(t.robot, t.from)
<1> DEFINE key == <<t.robot, t.from>>
<1>1. InsertPeerDoes(t, s, key)
  BY InsertPeerShape
<1>2. /\ t.at = "insert" /\ TaskLives(t) /\ t.msg.kind = "offer" /\ Opening(t)
      /\ t.pc = AnswerPc(t.robot, t.msg.offer) /\ t.pc \in DOMAIN pcs
      /\ \A x \in DOMAIN peers : peers[x] # t.pc
  BY <1>1, InHand DEF InsertPeerDoes, TaskLives, OpeningIsNew, Opening
<1>3. t.pc.owner = t.robot /\ t.pc.for = t.msg.offer /\ t.pc.for # NoOffer
  BY <1>2, PcIs, OfferIsOne DEF TaskLives
<1>4. \A v \in tasks : v # t /\ v.at = "insert" => v.pc # t.pc
  <2> SUFFICES ASSUME NEW v \in tasks, v # t, v.at = "insert" PROVE v.pc # t.pc
    OBVIOUS
  <2>1. v.pc = AnswerPc(v.robot, v.msg.offer) /\ v.msg.kind = "offer"
    BY InHand DEF OpeningIsNew, TaskLives
  <2>2. ~(v.robot = t.robot /\ v.msg.offer = t.msg.offer)
    BY <1>2, <2>1 DEF Base, LInv, OneOpening, Opening
  <2> QED
    BY <1>2, <2>1, <2>2, PcIs
<1>5. Quiet
  BY <1>1 DEF InsertPeerDoes
<1>6. s # NoPc => s \in DOMAIN pcs /\ s.owner = t.robot
  BY InHand, SessionFacts
<1> HIDE DEF s, key
<1>7. CASE s = NoPc
  <2>1. PICK u, v : /\ Goes(t, u, "set_remote", t.pc, t.ans) /\ Goes(t, v, "capture", t.pc, t.ans)
                    /\ tasks' \subseteq (tasks \ {t}) \cup {u, v}
    BY <1>1, <1>7 DEF InsertPeerDoes
  <2>2. /\ pcs' = pcs /\ DOMAIN peers' = DOMAIN peers \cup {key} /\ peers'[key] = t.pc
        /\ \A k \in DOMAIN peers : peers'[k] = peers[k]
    BY <1>1, <1>7 DEF InsertPeerDoes
  <2>3. TaskLives(u) /\ ~Opening(u) /\ Inherits(u) /\ u.at = "set_remote"
    BY <1>2, <1>3, <2>1 DEF TaskLives, Opening, Inherits, Goes, Negotiating
  <2>4. TaskLives(v) /\ ~Opening(v) /\ Inherits(v) /\ v.at = "capture"
    BY <1>2, <2>1 DEF TaskLives, Opening, Inherits, Goes, Negotiating
  <2>5. \A r \in Robots : Life(r)'
    BY <1>5, <2>2 DEF Base, LInv, Life, Quiet, Up, CallPc
  <2>6. (\A q \in DOMAIN pcs' : PcLives(q)') /\ \A x \in DOMAIN peers' : peers'[x] \in DOMAIN pcs'
    BY <1>2, <1>5, <2>2 DEF Base, LInv, PcLives, KnownOffer, Quiet, Up
  <2>7. \A x \in tasks' : TaskLives(x)'
    BY <1>5, <2>1, <2>2, <2>3, <2>4 DEF Base, LInv, TaskLives, KnownOffer, Quiet, Up
  <2>8. OneOpening'
    BY <2>1, <2>3, <2>4 DEF Base, LInv, OneOpening
  <2>9. ASSUME NEW x \in tasks' PROVE OpeningIsNew(x)'
    <3>1. CASE x \in tasks /\ x # t
      <4>1. OpeningIsNew(x) /\ (x.at = "insert" => x.pc # t.pc)
        BY <1>4, <3>1 DEF Base, LInv
      <4> QED
        BY <1>5, <2>2, <4>1 DEF OpeningIsNew, AnswerPc, Quiet
    <3>2. CASE x \in {u, v}
      BY <2>3, <2>4, <3>2 DEF OpeningIsNew
    <3> QED
      BY <2>1, <3>1, <3>2
  <2>10. ASSUME NEW r \in Robots PROVE OfferIsNew(r)'
    <3>1. \A x \in tasks' : x.msg.kind = "offer" => \E y \in tasks : y.msg = x.msg
      BY <2>1, <2>3, <2>4 DEF Inherits
    <3>2. OfferIsNew(r)
      BY DEF Base, LInv
    <3> QED
      BY <1>5, <2>2, <3>1, <3>2 DEF OfferIsNew, Offer, Quiet, Up
  <2> QED
    BY <2>5, <2>6, <2>7, <2>8, <2>9, <2>10 DEF LInv
<1>8. CASE s # NoPc
  <2>1. PICK u : Goes(t, u, "set_remote", s, t.ans) /\ tasks' = (tasks \ {t}) \cup {u}
    BY <1>1, <1>8 DEF InsertPeerDoes
  <2>2. /\ peers' = peers /\ DOMAIN pcs' = DOMAIN pcs \ {t.pc}
        /\ \A p \in DOMAIN pcs' : pcs'[p] = pcs[p] /\ key \in DOMAIN peers /\ peers[key] = s
    BY <1>1, <1>8 DEF InsertPeerDoes
  <2>3. s \in DOMAIN pcs'
    BY <1>1, <1>2, <1>6, <1>8, <2>2 DEF InsertPeerDoes
  <2>4. /\ TaskLives(u) /\ ~Opening(u) /\ Inherits(u)
        /\ u.at = "set_remote" /\ u.pc = s /\ u.robot = t.robot
    BY <1>2, <1>6, <1>8, <2>1 DEF TaskLives, Opening, Inherits, Goes, Negotiating
  <2>5. \A r \in Robots : CallPc(r) # t.pc
    BY <1>3, PcIs
  <2>6. \A r \in Robots : Life(r)'
    BY <1>5, <2>2, <2>5 DEF Base, LInv, Life, Quiet, Up, CallPc
  <2>7. (\A q \in DOMAIN pcs' : PcLives(q)') /\ \A x \in DOMAIN peers' : peers'[x] \in DOMAIN pcs'
    BY <1>2, <1>5, <2>2 DEF Base, LInv, PcLives, KnownOffer, Quiet, Up
  <2>8. ASSUME NEW x \in tasks PROVE TaskLives(x)'
    <3>1. x.at \in Negotiating => x.pc # t.pc
      BY <1>2, <1>3, InHand DEF Settled
    <3>2. TaskLives(x)
      BY DEF Base, LInv
    <3> QED
      BY <1>5, <2>2, <3>1, <3>2 DEF TaskLives, KnownOffer, Quiet, Up
  <2>9. TaskLives(u)'
    BY <1>5, <2>2, <2>3, <2>4 DEF TaskLives, KnownOffer, Quiet, Up
  <2>10. OneOpening'
    BY <2>1, <2>4 DEF Base, LInv, OneOpening
  <2>11. ASSUME NEW x \in tasks' PROVE OpeningIsNew(x)'
    <3>1. CASE x \in tasks /\ x # t
      <4>1. OpeningIsNew(x) /\ (x.at = "insert" => x.pc # t.pc)
        BY <1>4, <3>1 DEF Base, LInv
      <4> QED
        BY <1>5, <2>2, <4>1 DEF OpeningIsNew, AnswerPc, Quiet
    <3>2. CASE x = u
      BY <2>4, <3>2 DEF OpeningIsNew
    <3> QED
      BY <2>1, <3>1, <3>2
  <2>12. ASSUME NEW r \in Robots PROVE OfferIsNew(r)'
    <3>1. \A x \in tasks' : x.msg.kind = "offer" => \E y \in tasks : y.msg = x.msg
      BY <2>1, <2>4 DEF Inherits
    <3>2. OfferIsNew(r)
      BY DEF Base, LInv
    <3> QED
      BY <1>5, <2>2, <3>1, <3>2 DEF OfferIsNew, Offer, Quiet, Up
  <2> QED
    BY <2>1, <2>6, <2>7, <2>8, <2>9, <2>10, <2>11, <2>12 DEF LInv
<1> QED
  BY <1>7, <1>8

\* A task that a message starts has a process, and a call's has the call's connection.
LEMMA DeliveredLives ==
    ASSUME Base, NEW from \in Robots, NEW to \in Robots, NEW m \in Msgs,
           m.kind \in {"offer", "answer", "ice"}, m.kind = "offer" => KnownOffer(m.offer),
           NEW x \in Deliver(from, to, m)
    PROVE  TaskLives(x)
<1>1. TypeOK /\ Life(to)
  BY DEF Base, LInv
<1>2. /\ x \in Tasks /\ x.robot = to /\ x.from = from /\ x.msg = m
      /\ \/ x.at = "find" /\ meshSubs[to] >= Pattern[m.kind]
         \/ /\ x.at = First(m.kind) /\ x.pc = CallPc(to)
            /\ callSubs[to] >= Pattern[m.kind]
  BY <1>1, DeliveredIs
<1>3. Pattern[m.kind] \in Nat /\ Pattern[m.kind] >= 1
  BY DEF Pattern
<1>4. meshSubs[to] \in Nat /\ callSubs[to] \in Nat
  BY <1>1 DEF TypeOK, AllPatterns
<1>5. CASE x.at = "find" /\ meshSubs[to] >= Pattern[m.kind]
  <2>1. Up(to)
    BY <1>1, <1>3, <1>4, <1>5 DEF Life
  <2> QED
    BY <1>2, <1>5, <2>1 DEF TaskLives, Negotiating
<1>6. CASE x.at = First(m.kind) /\ x.pc = CallPc(to) /\ callSubs[to] >= Pattern[m.kind]
  <2>1. callSubs[to] > 0
    BY <1>3, <1>4, <1>6
  <2>2. Up(to) /\ CallPc(to) \in DOMAIN pcs
    BY <1>1, <2>1 DEF Life
  <2>3. CallPc(to).owner = to
    BY PcIs
  <2> QED
    BY <1>2, <1>6, <2>2, <2>3 DEF TaskLives, Negotiating, First
<1> QED
  BY <1>2, <1>5, <1>6

LEMMA TaskStepLives ==
    ASSUME Base, NEW t \in tasks, TaskStep(t)
    PROVE  LInv'
<1>0. TaskLives(t) /\ \A q \in DOMAIN pcs : q.for # NoOffer => pcs[q].sig # "local"
  BY InHand, SigsStay
<1>1. CASE StartCapture(t)
  <2>1. tasks' = tasks \ {t} /\ Quiet /\ UNCHANGED <<pcs, peers>>
    BY <1>1 DEF StartCapture, Ends, procVars, Quiet
  <2> QED
    BY <1>0, <2>1, LivesMove
<1>2. CASE AddIce(t) \/ SignalFails(t)
  <2>1. tasks' = tasks \ {t} /\ Quiet /\ UNCHANGED <<pcs, peers>>
    BY <1>2 DEF AddIce, SignalFails, Ends, procVars, Quiet
  <2> QED
    BY <1>0, <2>1, LivesMove
<1>3. CASE SetRemote(t)
  <2>1. SetRemoteDoes(t, pcs[t.pc])
    BY <1>3, SetRemoteShape
  <2>2. \A u \in tasks' : u \in tasks \/ (TaskLives(u) /\ ~Opening(u) /\ Inherits(u))
    <3>1. CASE tasks' = tasks \ {t}
      BY <3>1
    <3>2. CASE t.msg.kind = "offer"
               /\ \E u : Goes(t, u, "create_answer", t.pc, t.ans) /\ tasks' = (tasks \ {t}) \cup {u}
      <4>1. PICK u : Goes(t, u, "create_answer", t.pc, t.ans) /\ tasks' = (tasks \ {t}) \cup {u}
        BY <3>2
      <4>2. t.at \in Negotiating
        BY <2>1 DEF SetRemoteDoes, Negotiating
      <4>3. TaskLives(u) /\ ~Opening(u) /\ Inherits(u)
        BY <1>0, <3>2, <4>1, <4>2 DEF TaskLives, Opening, Inherits, Goes
      <4> QED
        BY <4>1, <4>3
    <3> QED
      BY <2>1, <3>1, <3>2 DEF SetRemoteDoes
  <2>3. \A q \in DOMAIN pcs : q.for # NoOffer => pcs'[q].sig # "local"
    BY <1>0, <2>1 DEF SetRemoteDoes, OnlyAt, IsIn
  <2>4. Quiet /\ peers' = peers /\ DOMAIN pcs' = DOMAIN pcs
    BY <2>1 DEF SetRemoteDoes, OnlyAt
  <2> QED
    BY <2>2, <2>3, <2>4, LivesMove
<1>4. CASE CreateAnswer(t)
  <2> DEFINE m == Msg("answer", t.pc, pcs[t.pc].remote.offer)
  <2>1. CreateAnswerDoes(t, pcs[t.pc], m)
    BY <1>4, CreateAnswerShape
  <2> HIDE DEF m
  <2>2. \A u \in tasks' : u \in tasks \/ (TaskLives(u) /\ ~Opening(u) /\ Inherits(u))
    <3>1. CASE tasks' = tasks \ {t}
      BY <3>1
    <3>2. CASE \E u : Goes(t, u, "set_local", t.pc, m) /\ tasks' = (tasks \ {t}) \cup {u}
      <4>1. PICK u : Goes(t, u, "set_local", t.pc, m) /\ tasks' = (tasks \ {t}) \cup {u}
        BY <3>2
      <4>2. t.at = "create_answer" /\ m.kind = "answer"
        BY <2>1 DEF CreateAnswerDoes
      <4>3. TaskLives(u) /\ ~Opening(u) /\ Inherits(u)
        BY <1>0, <4>1, <4>2 DEF TaskLives, Opening, Inherits, Goes, Negotiating
      <4> QED
        BY <4>1, <4>3
    <3> QED
      BY <2>1, <3>1, <3>2 DEF CreateAnswerDoes
  <2>3. Quiet /\ peers' = peers /\ pcs' = pcs
    BY <2>1 DEF CreateAnswerDoes
  <2> QED
    BY <1>0, <2>2, <2>3, LivesMove
<1>5. CASE SetLocal(t)
  <2>1. SetLocalDoes(t, pcs[t.pc])
    BY <1>5, SetLocalShape
  <2>2. \A u \in tasks' : u \in tasks \/ (TaskLives(u) /\ ~Opening(u) /\ Inherits(u))
    <3>1. CASE tasks' = tasks \ {t}
      BY <3>1
    <3>2. CASE \E u : Goes(t, u, "publish", t.pc, t.ans) /\ tasks' = (tasks \ {t}) \cup {u}
      <4>1. PICK u : Goes(t, u, "publish", t.pc, t.ans) /\ tasks' = (tasks \ {t}) \cup {u}
        BY <3>2
      <4>2. t.at = "set_local"
        BY <2>1 DEF SetLocalDoes
      <4>3. TaskLives(u) /\ ~Opening(u) /\ Inherits(u)
        BY <1>0, <4>1, <4>2 DEF TaskLives, Opening, Inherits, Goes, Negotiating
      <4> QED
        BY <4>1, <4>3
    <3> QED
      BY <2>1, <3>1, <3>2 DEF SetLocalDoes
  <2>3. \A q \in DOMAIN pcs : q.for # NoOffer => pcs'[q].sig # "local"
    BY <1>0, <2>1 DEF SetLocalDoes, OnlyAt, IsIn
  <2>4. Quiet /\ peers' = peers /\ DOMAIN pcs' = DOMAIN pcs
    BY <2>1 DEF SetLocalDoes, OnlyAt
  <2> QED
    BY <2>2, <2>3, <2>4, LivesMove
<1>6. CASE PublishAnswer(t)
  <2>1. PublishAnswerDoes(t)
    BY <1>6, PublishAnswerShape
  <2>2. /\ t.robot \in Robots /\ t.from \in Robots /\ t.ans \in Msgs /\ t.ans.kind = "answer"
        /\ tasks' = (tasks \ {t}) \cup Deliver(t.robot, t.from, t.ans)
    BY <2>1, InHand DEF PublishAnswerDoes
  <2>3. ASSUME NEW u \in Deliver(t.robot, t.from, t.ans)
        PROVE  TaskLives(u) /\ ~Opening(u) /\ Inherits(u)
    <3>1. TaskLives(u)
      BY <2>2, DeliveredLives
    <3>2. u.msg = t.ans
      BY <2>2, DeliveredIs DEF Base
    <3> QED
      BY <2>2, <3>1, <3>2 DEF Opening, Inherits
  <2>4. \A u \in tasks' : u \in tasks \/ (TaskLives(u) /\ ~Opening(u) /\ Inherits(u))
    BY <2>2, <2>3
  <2>5. Quiet /\ peers' = peers /\ pcs' = pcs
    BY <2>1 DEF PublishAnswerDoes
  <2> QED
    BY <1>0, <2>4, <2>5, LivesMove
<1> QED
  BY <1>1, <1>2, <1>3, <1>4, <1>5, <1>6, FindPeerLives, CreatePeerLives, InsertPeerLives DEF TaskStep

LEMMA IceLives ==
    ASSUME Base, NEW pc \in DOMAIN pcs, PublishIce(pc)
    PROVE  LInv'
<1> DEFINE m == Msg("ice", pc, NoOffer)
<1>1. PublishIceDoes(pc, m)
  BY PublishIceShape
<1> HIDE DEF m
<1>2. /\ m \in Msgs /\ m.kind = "ice" /\ pc.owner \in Robots /\ Partner(pc) \in Robots
      /\ tasks' = tasks \cup Deliver(pc.owner, Partner(pc), m)
      /\ Quiet /\ peers' = peers /\ pcs' = pcs
  BY <1>1 DEF PublishIceDoes
<1>3. ASSUME NEW u \in Deliver(pc.owner, Partner(pc), m)
      PROVE  TaskLives(u) /\ ~Opening(u) /\ Inherits(u)
  <2>1. TaskLives(u)
    BY <1>2, DeliveredLives
  <2>2. u.msg = m
    BY <1>2, DeliveredIs DEF Base
  <2> QED
    BY <1>2, <2>1, <2>2 DEF Opening, Inherits
<1>4. \A u \in tasks' : u \in tasks \/ (TaskLives(u) /\ ~Opening(u) /\ Inherits(u))
  BY <1>2, <1>3
<1> QED
  BY <1>2, <1>4, SigsStay, LivesMove

LEMMA PublishOfferLives ==
    ASSUME Base, NEW r \in Robots, PublishOffer(r)
    PROVE  LInv'
<1> DEFINE m == Msg("offer", CallPc(r), Offer(r))
<1> DEFINE new == Deliver(r, peer[r], m)
<1>1. PublishOfferDoes(r, m)
  BY PublishOfferShape
<1> HIDE DEF m
<1>2. /\ m \in Msgs /\ m.kind = "offer" /\ m.offer = Offer(r) /\ peer[r] \in Robots
      /\ tasks' \subseteq tasks \cup new /\ Up(r) /\ call[r] = "created"
      /\ call' = [call EXCEPT ![r] = "published"]
      /\ UNCHANGED <<proc, run, peer, meshSubs, callSubs, pcs, peers>>
  BY <1>1 DEF PublishOfferDoes
<1>3. /\ call \in [Robots -> {"none", "created", "published"}] /\ run \in [Robots -> Nat] /\ TypeOK
      /\ OfferIsNew(r) /\ Life(r)
  BY DEF Base, TypeOK, LInv
<1>4. /\ \A q \in Robots : call'[q] = IF q = r THEN "published" ELSE call[q]
      /\ KnownOffer(Offer(r)) /\ run[r] >= 1
  BY <1>2, <1>3, PcIs DEF KnownOffer, Life
<1>5. \A x \in new : TaskLives(x)
  BY <1>2, <1>4, DeliveredLives
<1>6. /\ \A x \in new : x.msg = m /\ x.robot = peer[r] /\ x.at # "insert"
      /\ \A x, y \in new : Opening(x) /\ Opening(y) => x = y
  <2>1. \A x \in new : /\ x.msg = m /\ x.robot = peer[r]
                       /\ \/ x.at = "find" /\ x = Found(r, peer[r], m)
                          \/ x.at = First(m.kind)
    BY <1>2, <1>3, DeliveredIs
  <2>2. First(m.kind) = "set_remote"
    BY <1>2 DEF First
  <2> QED
    BY <2>1, <2>2 DEF Opening
<1> HIDE DEF new
<1>7. /\ \A t \in tasks : Opening(t) => t.msg.offer # Offer(r)
      /\ \A pc \in DOMAIN pcs : pc.for # Offer(r)
  BY <1>2, <1>3 DEF OfferIsNew, Opening
<1>8. \A q \in Robots : Life(q)'
  BY <1>2, <1>4 DEF Base, LInv, Life, Up, CallPc
<1>9. \A pc \in DOMAIN pcs' : PcLives(pc)'
  BY <1>2, <1>4 DEF Base, LInv, PcLives, KnownOffer, Up
<1>10. \A t \in tasks' : TaskLives(t)'
  BY <1>2, <1>5 DEF Base, LInv, TaskLives, KnownOffer, Up
<1>11. \A s \in DOMAIN peers' : peers'[s] \in DOMAIN pcs'
  BY <1>2 DEF Base, LInv
<1>12. OneOpening'
  BY <1>2, <1>6, <1>7 DEF Base, LInv, OneOpening
<1>13. ASSUME NEW x \in tasks' PROVE OpeningIsNew(x)'
  <2>1. CASE x \in tasks
    <3>1. OpeningIsNew(x)
      BY <2>1 DEF Base, LInv
    <3> QED
      BY <1>2, <3>1 DEF OpeningIsNew, AnswerPc
  <2>2. CASE x \in new
    <3>1. AnswerPc(x.robot, x.msg.offer) \notin DOMAIN pcs
      BY <1>2, <1>6, <1>7, <2>2, PcIs
    <3> QED
      BY <1>2, <1>6, <2>2, <3>1 DEF OpeningIsNew, AnswerPc
  <2> QED
    BY <1>2, <2>1, <2>2
<1>14. ASSUME NEW q \in Robots PROVE OfferIsNew(q)'
  <2>1. CASE q = r
    BY <1>4, <2>1 DEF OfferIsNew
  <2>2. CASE q # r
    <3>1. OfferIsNew(q) /\ Offer(q) # Offer(r)
      BY <2>2, PcIs DEF Base, LInv
    <3> QED
      BY <1>2, <1>4, <1>6, <2>2, <3>1 DEF OfferIsNew, Offer, Up
  <2> QED
    BY <2>1, <2>2
<1> QED
  BY <1>8, <1>9, <1>10, <1>11, <1>12, <1>13, <1>14 DEF LInv

LEMMA CreateOfferLives ==
    ASSUME Base, NEW r \in Robots, CreateOffer(r)
    PROVE  LInv'
<1>0. PICK q : q = CallPc(r)
  OBVIOUS
<1>1. /\ Up(r) /\ peer[r] # NoRobot /\ call[r] = "none" /\ q \notin DOMAIN pcs
      /\ call' = [call EXCEPT ![r] = "created"]
      /\ UNCHANGED <<proc, run, peer, meshSubs, callSubs, peers, tasks>>
      /\ DOMAIN pcs' = DOMAIN pcs \cup {q} /\ \A p \in DOMAIN pcs : pcs'[p] = pcs[p]
  BY <1>0, CreateOfferShape DEF CreateOfferDoes
<1>2. q.owner = r /\ q.run = run[r] /\ q.for = NoOffer
  BY <1>0, PcIs
<1>3. \A x \in Robots : call'[x] = IF x = r THEN "created" ELSE call[x]
  BY <1>1 DEF Base, TypeOK
<1>4. ASSUME NEW x \in Robots PROVE Life(x)'
  <2>1. Life(x) /\ CallPc(x)' = CallPc(x)
    BY <1>1 DEF Base, LInv, CallPc
  <2> QED
    BY <1>0, <1>1, <1>3, <2>1 DEF Life, Up
<1>5. PcLives(q)'
  BY <1>1, <1>2, <1>3 DEF PcLives, Up
<1>6. \A p \in DOMAIN pcs : PcLives(p)'
  BY <1>1, <1>3 DEF Base, LInv, PcLives, KnownOffer, Up
<1>7. \A t \in tasks' : TaskLives(t)'
  BY <1>1 DEF Base, LInv, TaskLives, KnownOffer, Up
<1>8. \A s \in DOMAIN peers' : peers'[s] \in DOMAIN pcs'
  BY <1>1 DEF Base, LInv
<1>9. OneOpening'
  BY <1>1 DEF Base, LInv, OneOpening
<1>10. ASSUME NEW t \in tasks PROVE OpeningIsNew(t)'
  <2>1. OpeningIsNew(t) /\ (t.msg.kind = "offer" => t.msg.offer # NoOffer)
    BY InHand, OfferIsOne DEF TaskLives
  <2>2. t.msg.kind = "offer" => AnswerPc(t.robot, t.msg.offer) # q
    BY <1>2, <2>1, PcIs
  <2> QED
    BY <1>1, <2>1, <2>2 DEF OpeningIsNew, Opening, AnswerPc
<1>11. ASSUME NEW x \in Robots PROVE OfferIsNew(x)'
  <2>1. OfferIsNew(x) /\ q.for # Offer(x) /\ Offer(x)' = Offer(x)
    BY <1>1, <1>2, PcIs, NothingFields DEF Base, LInv, Offer
  <2> QED
    BY <1>1, <1>3, <2>1 DEF OfferIsNew, Up
<1> QED
  BY <1>1, <1>4, <1>5, <1>6, <1>7, <1>8, <1>9, <1>10, <1>11 DEF LInv

LEMMA StartLives ==
    ASSUME Base, NEW r \in Robots, NEW p \in PeersOf[r], Start(r, p)
    PROVE  LInv'
<1>1. /\ proc[r] = "off" /\ proc' = [proc EXCEPT ![r] = "up"]
      /\ run' = [run EXCEPT ![r] = @ + 1] /\ peer' = [peer EXCEPT ![r] = p]
      /\ UNCHANGED <<meshSubs, call, callSubs, pcs, peers, tasks>>
  BY DEF Start
<1>2. /\ proc \in [Robots -> {"off", "up"}] /\ run \in [Robots -> Nat]
      /\ peer \in [Robots -> Robots \cup {NoRobot}]
  BY DEF Base, TypeOK
<1>3. \A x \in Robots : /\ proc'[x] = IF x = r THEN "up" ELSE proc[x]
                        /\ run'[x] = IF x = r THEN run[r] + 1 ELSE run[x]
                        /\ peer'[x] = IF x = r THEN p ELSE peer[x]
  BY <1>1, <1>2
<1>4. \A o : KnownOffer(o) => KnownOffer(o)'
  BY <1>2, <1>3 DEF KnownOffer
<1>5. ~Up(r) /\ Life(r) /\ call[r] = "none"
  BY <1>1 DEF Up, Base, LInv, Life
<1>6. ASSUME NEW x \in Robots PROVE Life(x)'
  <2>1. CASE x = r
    BY <1>1, <1>2, <1>3, <1>5, <2>1 DEF Life, Up
  <2>2. CASE x # r
    <3>1. Life(x) /\ CallPc(x)' = CallPc(x)
      BY <1>3, <2>2 DEF Base, LInv, CallPc
    <3> QED
      BY <1>1, <1>3, <2>2, <3>1 DEF Life, Up
  <2> QED
    BY <2>1, <2>2
<1>7. ASSUME NEW q \in DOMAIN pcs PROVE PcLives(q)'
  <2>1. PcLives(q) /\ q.owner # r
    BY <1>5 DEF Base, LInv, PcLives
  <2> QED
    BY <1>1, <1>3, <1>4, <2>1 DEF PcLives, Up
<1>8. ASSUME NEW t \in tasks PROVE TaskLives(t)' /\ t.robot # r
  <2>1. TaskLives(t) /\ t.robot # r /\ t.robot \in Robots
    BY <1>5, InHand DEF TaskLives
  <2> QED
    BY <1>1, <1>3, <1>4, <2>1 DEF TaskLives, Up
<1>9. \A s \in DOMAIN peers' : peers'[s] \in DOMAIN pcs'
  BY <1>1 DEF Base, LInv
<1>10. OneOpening'
  BY <1>1 DEF Base, LInv, OneOpening
<1>11. ASSUME NEW t \in tasks PROVE OpeningIsNew(t)'
  <2>1. OpeningIsNew(t) /\ t.robot \in Robots
    BY InHand
  <2>2. AnswerPc(t.robot, t.msg.offer)' = AnswerPc(t.robot, t.msg.offer)
    BY <1>3, <1>8, <2>1 DEF AnswerPc
  <2> QED
    BY <1>1, <2>1, <2>2 DEF OpeningIsNew
<1>12. ASSUME NEW x \in Robots PROVE OfferIsNew(x)'
  <2>1. CASE x = r
    <3>1. \A o : KnownOffer(o) => o # Offer(x)'
      BY <1>2, <1>3, <2>1 DEF KnownOffer, Offer
    <3>2. \A t \in tasks : t.msg.kind = "offer" => t.msg.offer # Offer(x)'
      BY <3>1 DEF Base, LInv, TaskLives
    <3>3. NoOffer # Offer(x)'
      BY NothingFields DEF Offer
    <3>4. \A q \in DOMAIN pcs : q.for # Offer(x)'
      BY <3>1, <3>3 DEF Base, LInv, PcLives
    <3> QED
      BY <1>1, <3>2, <3>4 DEF OfferIsNew
  <2>2. CASE x # r
    <3>1. OfferIsNew(x) /\ Offer(x)' = Offer(x)
      BY <1>3, <2>2 DEF Base, LInv, Offer
    <3> QED
      BY <1>1, <1>3, <2>2, <3>1 DEF OfferIsNew, Up
  <2> QED
    BY <2>1, <2>2
<1> QED
  BY <1>1, <1>6, <1>7, <1>8, <1>9, <1>10, <1>11, <1>12 DEF LInv

LEMMA DownLives ==
    ASSUME Base, NEW r \in Robots, Down(r)
    PROVE  LInv'
<1>1. DownDoes(r)
  BY DownShape
<1>2. /\ run' = run /\ peer' = peer /\ tasks' = {t \in tasks : t.robot # r}
      /\ DOMAIN pcs' = {q \in DOMAIN pcs : q.owner # r} /\ \A q \in DOMAIN pcs' : pcs'[q] = pcs[q]
      /\ DOMAIN peers' = {s \in DOMAIN peers : s[1] # r}
      /\ \A s \in DOMAIN peers' : peers'[s] = peers[s]
  BY <1>1 DEF DownDoes
<1>3. \A x \in Robots : /\ proc'[x] = IF x = r THEN "off" ELSE proc[x]
                        /\ call'[x] = IF x = r THEN "none" ELSE call[x]
                        /\ callSubs'[x] = IF x = r THEN 0 ELSE callSubs[x]
                        /\ meshSubs'[x] = IF x = r THEN 0 ELSE meshSubs[x]
  BY <1>1 DEF DownDoes, Base, TypeOK
<1>4. ASSUME NEW x \in Robots PROVE Life(x)'
  <2>1. CASE x = r
    BY <1>3, <2>1 DEF Life, Up
  <2>2. CASE x # r
    <3>1. Life(x) /\ CallPc(x)' = CallPc(x) /\ CallPc(x).owner = x
      BY <1>2, PcIs DEF Base, LInv, CallPc
    <3> QED
      BY <1>2, <1>3, <2>2, <3>1 DEF Life, Up
  <2> QED
    BY <2>1, <2>2
<1>5. \A q \in DOMAIN pcs' : PcLives(q)'
  BY <1>2, <1>3 DEF Base, LInv, PcLives, KnownOffer, Up
<1>6. ASSUME NEW t \in tasks' PROVE TaskLives(t)' /\ OpeningIsNew(t)'
  <2>1. t \in tasks /\ t.robot # r /\ TaskLives(t) /\ OpeningIsNew(t) /\ t.robot \in Robots
    BY <1>2, InHand
  <2>2. TaskLives(t)'
    BY <1>2, <1>3, <2>1 DEF TaskLives, KnownOffer, Up
  <2>3. AnswerPc(t.robot, t.msg.offer)' = AnswerPc(t.robot, t.msg.offer)
    BY <1>2 DEF AnswerPc
  <2>4. t.at = "insert" => t.pc.owner = t.robot
    BY <2>1, PcIs DEF OpeningIsNew
  <2> QED
    BY <1>2, <2>1, <2>2, <2>3, <2>4 DEF OpeningIsNew
<1>7. ASSUME NEW s \in DOMAIN peers' PROVE peers'[s] \in DOMAIN pcs'
  <2>1. peers[s] \in DOMAIN pcs /\ peers[s].owner = s[1] /\ s[1] # r
    BY <1>2 DEF Base, LInv, MInv, TableIsFiled
  <2> QED
    BY <1>2, <2>1
<1>8. OneOpening'
  BY <1>2 DEF Base, LInv, OneOpening
<1>9. \A x \in Robots : OfferIsNew(x)'
  BY <1>2, <1>3 DEF Base, LInv, OfferIsNew, Offer, Up
<1> QED
  BY <1>4, <1>5, <1>6, <1>7, <1>8, <1>9 DEF LInv

LEMMA SubscribeLives ==
    ASSUME Base, NEW r \in Robots, MeshSubscribe(r) \/ CallSubscribe(r)
    PROVE  LInv'
<1>1. /\ UNCHANGED <<proc, run, peer, call, pcs, peers, tasks>>
      /\ \A x \in Robots : meshSubs'[x] = meshSubs[x] \/ Up(x)
      /\ \A x \in Robots : callSubs'[x] = callSubs[x] \/ call[x] = "published"
  BY DEF MeshSubscribe, CallSubscribe, Base, TypeOK
<1>2. \A x \in Robots : Life(x)'
  BY <1>1 DEF Base, LInv, Life, Up, CallPc
<1>3. \A q \in DOMAIN pcs' : PcLives(q)'
  BY <1>1 DEF Base, LInv, PcLives, KnownOffer, Up
<1>4. \A t \in tasks' : TaskLives(t)' /\ OpeningIsNew(t)'
  BY <1>1 DEF Base, LInv, TaskLives, KnownOffer, Up, OpeningIsNew, AnswerPc
<1>5. (\A s \in DOMAIN peers' : peers'[s] \in DOMAIN pcs') /\ OneOpening'
  BY <1>1 DEF Base, LInv, OneOpening
<1>6. \A x \in Robots : OfferIsNew(x)'
  BY <1>1 DEF Base, LInv, OfferIsNew, Offer, Up
<1> QED
  BY <1>2, <1>3, <1>4, <1>5, <1>6 DEF LInv

LEMMA BaseInit == Init => Base
  BY TypeInit, InitHolds, LivesInit DEF Base

LEMMA BaseKeeps == Base /\ [Next]_vars => Base'
<1> SUFFICES ASSUME Base, [Next]_vars PROVE Base'
  OBVIOUS
<1>0. MInv'
  BY StepKeeps DEF Base
<1>1. ASSUME UNCHANGED vars PROVE TypeOK' /\ LInv'
  <2>1. Quiet /\ UNCHANGED <<pcs, peers, captures, tasks, trickled, missed>>
    BY <1>1 DEF vars, Quiet
  <2>2. TypeOK'
    BY <2>1 DEF Base, TypeOK, Quiet
  <2> QED
    BY <2>1, <2>2, LivesMove, SigsStay
<1>2. ASSUME NEW r \in Robots,
             \/ \E p \in PeersOf[r] : Start(r, p)
             \/ MeshSubscribe(r) \/ CreateOffer(r) \/ PublishOffer(r) \/ CallSubscribe(r)
             \/ SubsystemFails(r) \/ SupervisorExit(r)
      PROVE  TypeOK' /\ LInv'
  BY <1>2, TypeProcess, StartLives, SubscribeLives, CreateOfferLives, PublishOfferLives, DownLives
     DEF SubsystemFails, SupervisorExit
<1>3. ASSUME NEW t \in tasks, TaskStep(t) PROVE TypeOK' /\ LInv'
  BY <1>3, TypeTask, TaskStepLives
<1>4. ASSUME NEW pc \in DOMAIN pcs, PublishIce(pc) PROVE TypeOK' /\ LInv'
  BY <1>4, TypeIce, IceLives
<1> QED
  BY <1>0, <1>1, <1>2, <1>3, <1>4 DEF Next, Base

-----------------------------------------------------------------------------
(* What a message says is true of the robot that sent it, in whichever of  *)
(* its runs: the invariant behind FirstCallAgrees.                         *)

Calls(r) == PeersOf[r] \ {NoRobot} # {}

\* Robot `from` has had a run that may have called `to`.
Reached(from, to) ==
    run[from] >= 1 /\ to \in PeersOf[from] /\ (run[from] = 1 => to = peer[from])

OfferMsg(m, to) ==
    /\ KnownOffer(m.offer) /\ Reached(m.offer.by, to)
    /\ m.pc.owner = m.offer.by /\ m.pc.run = m.offer.run /\ m.pc.for = NoOffer

\* An answer is for a robot that has called its sender; it answers an offer of that
\* robot unless its sender's own call has got somebody else's.
AnswerMsg(m, from, to) ==
    /\ from \in Robots /\ Reached(to, from)
    /\ KnownOffer(m.offer)
    /\ m.offer.by = to \/ (Calls(from) /\ from \in PeersOf[m.offer.by])
    /\ m.pc.owner = from /\ m.pc.run \in 1..run[from]
    /\ m.pc.for = NoOffer => Calls(from)
    /\ m.pc.for # NoOffer => m.pc.for.by = to

IceMsg(m, from, to) ==
    /\ m.pc.owner = from /\ m.pc.run \in 1..run[from]
    /\ m.pc.for = NoOffer => to \in PeersOf[from]
    /\ m.pc.for # NoOffer => m.pc.for.by = to /\ Reached(to, from)

TaskSpeaks(t) ==
    /\ t.msg.kind = "offer" => OfferMsg(t.msg, t.robot)
    /\ t.msg.kind = "answer" => AnswerMsg(t.msg, t.from, t.robot)
    /\ t.msg.kind = "ice" => IceMsg(t.msg, t.from, t.robot)
    /\ t.at \in {"set_local", "publish"} => t.ans.pc = t.pc /\ AnswerMsg(t.ans, t.robot, t.from)

\* PeerConnection pc in state c.
Speaks(pc, c) ==
    /\ c.remote # NoMsg => c.remote.kind \in {"offer", "answer"}
    /\ pc.for # NoOffer => Reached(pc.for.by, pc.owner)
    /\ c.sig = "remote" => c.remote.kind = "offer"
    /\ pc.for # NoOffer /\ c.gathers => c.remote.kind = "offer"
    /\ c.remote.kind = "offer" =>
         OfferMsg(c.remote, pc.owner) /\ (pc.for # NoOffer => c.remote.offer.by = pc.for.by)
    /\ c.remote.kind = "answer" =>
         pc.for = NoOffer /\ AnswerMsg(c.remote, c.remote.pc.owner, pc.owner)

SInv == (\A t \in tasks : TaskSpeaks(t)) /\ \A pc \in DOMAIN pcs : Speaks(pc, pcs[pc])

\* What has been said stays true.
LEMMA TrueStays ==
    ASSUME Base,
           \/ run' = run /\ peer' = peer
           \/ \E r \in Robots : \E p \in PeersOf[r] : Start(r, p)
    PROVE  /\ \A o : KnownOffer(o) => KnownOffer(o)'
           /\ \A a, b \in Robots : Reached(a, b) => Reached(a, b)'
           /\ \A a \in Robots : \A i : i \in 1..run[a] => i \in 1..run'[a]
<1>1. CASE run' = run /\ peer' = peer
  BY <1>1 DEF KnownOffer, Reached
<1>2. CASE \E r \in Robots : \E p \in PeersOf[r] : Start(r, p)
  <2>1. PICK r \in Robots : \E p \in PeersOf[r] : Start(r, p)
    BY <1>2
  <2>0. PICK p \in PeersOf[r] : Start(r, p)
    BY <2>1
  <2>2. run \in [Robots -> Nat] /\ peer \in [Robots -> Robots \cup {NoRobot}]
    BY DEF Base, TypeOK
  <2>3. \A x \in Robots : /\ run[x] \in Nat
                          /\ run'[x] = IF x = r THEN run[r] + 1 ELSE run[x]
                          /\ peer'[x] = IF x = r THEN p ELSE peer[x]
    BY <2>0, <2>2 DEF Start
  <2>4. \A a \in Robots : \A i : i \in 1..run[a] => i \in 1..run'[a]
    BY <2>3
  <2>5. \A o : KnownOffer(o) => KnownOffer(o)'
    BY <2>4 DEF KnownOffer
  <2>6. \A a, b \in Robots : Reached(a, b) => Reached(a, b)'
    BY <2>3 DEF Reached
  <2> QED
    BY <2>4, <2>5, <2>6
<1> QED
  BY <1>1, <1>2

LEMMA SaidStays ==
    ASSUME Base,
           \/ run' = run /\ peer' = peer
           \/ \E r \in Robots : \E p \in PeersOf[r] : Start(r, p)
    PROVE  /\ \A m, to : to \in Robots /\ OfferMsg(m, to) => OfferMsg(m, to)'
           /\ \A m, from, to : from \in Robots /\ to \in Robots =>
                /\ AnswerMsg(m, from, to) => AnswerMsg(m, from, to)'
                /\ IceMsg(m, from, to) => IceMsg(m, from, to)'
<1>1. /\ \A o : KnownOffer(o) => KnownOffer(o)'
      /\ \A a, b \in Robots : Reached(a, b) => Reached(a, b)'
      /\ \A a \in Robots : \A i : i \in 1..run[a] => i \in 1..run'[a]
  BY TrueStays
<1>2. \A m, to : to \in Robots /\ OfferMsg(m, to) => OfferMsg(m, to)'
  <2>1. \A o : KnownOffer(o) => o.by \in Robots
    BY DEF KnownOffer
  <2> QED
    BY <1>1, <2>1 DEF OfferMsg
<1>3. \A m, from, to : from \in Robots /\ to \in Robots => (IceMsg(m, from, to) => IceMsg(m, from, to)')
  BY <1>1 DEF IceMsg
<1>4. \A m, from, to : from \in Robots /\ to \in Robots =>
         (AnswerMsg(m, from, to) => AnswerMsg(m, from, to)')
  BY <1>1 DEF AnswerMsg, Calls
<1> QED
  BY <1>2, <1>3, <1>4

\* A step adds nothing that is not true.
LEMMA SpeaksMove ==
    ASSUME Base, SInv, Base',
           \/ run' = run /\ peer' = peer
           \/ \E r \in Robots : \E p \in PeersOf[r] : Start(r, p),
           \A u \in tasks' : u \in tasks \/ TaskSpeaks(u),
           \A q \in DOMAIN pcs' : (q \in DOMAIN pcs /\ pcs'[q] = pcs[q]) \/ Speaks(q, pcs'[q])
    PROVE  SInv'
<1>1. /\ \A m, to : to \in Robots /\ OfferMsg(m, to) => OfferMsg(m, to)'
      /\ \A m, from, to : from \in Robots /\ to \in Robots =>
                /\ AnswerMsg(m, from, to) => AnswerMsg(m, from, to)'
                /\ IceMsg(m, from, to) => IceMsg(m, from, to)'
  BY SaidStays
<1>4. \A a, b \in Robots : Reached(a, b) => Reached(a, b)'
  BY TrueStays
<1>2. ASSUME NEW u \in tasks' PROVE TaskSpeaks(u)'
  <2>1. TaskSpeaks(u)
    BY DEF SInv
  <2>2. u.robot \in Robots /\ u.from \in Robots
    BY TaskFields DEF Base, TypeOK
  <2> QED
    BY <1>1, <2>1, <2>2 DEF TaskSpeaks
<1>3. ASSUME NEW q \in DOMAIN pcs' PROVE Speaks(q, pcs[q])'
  <2>1. PICK c : c = pcs'[q]
    OBVIOUS
  <2>4. q.owner \in Robots /\ (q.for # NoOffer => q.for.by \in Robots)
    BY DEF Base, LInv, PcLives, KnownOffer
  <2>2. Speaks(q, c)
    BY <2>1 DEF SInv
  <2>3. c.remote.kind = "answer" => c.remote.pc.owner \in Robots
    BY <2>2 DEF Speaks, AnswerMsg
  <2> QED
    BY <1>1, <1>4, <2>1, <2>2, <2>3, <2>4 DEF Speaks
<1> QED
  BY <1>2, <1>3 DEF SInv

LEMMA ProcessSpeaks ==
    ASSUME Base, SInv, Base', NEW r \in Robots,
           \/ \E p \in PeersOf[r] : Start(r, p)
           \/ MeshSubscribe(r) \/ CreateOffer(r) \/ PublishOffer(r) \/ CallSubscribe(r) \/ Down(r)
    PROVE  SInv'
<1>1. CASE \E p \in PeersOf[r] : Start(r, p)
  <2>1. UNCHANGED <<tasks, pcs>>
    BY <1>1 DEF Start
  <2> QED
    BY <1>1, <2>1, SpeaksMove
<1>2. CASE MeshSubscribe(r) \/ CallSubscribe(r)
  <2>1. UNCHANGED <<run, peer, tasks, pcs>>
    BY <1>2 DEF MeshSubscribe, CallSubscribe
  <2> QED
    BY <2>1, SpeaksMove
<1>3. CASE CreateOffer(r)
  <2>1. CreateOfferDoes(r)
    BY <1>3, CreateOfferShape
  <2>2. /\ UNCHANGED <<run, peer, tasks>> /\ DOMAIN pcs' = DOMAIN pcs \cup {CallPc(r)}
        /\ \A p \in DOMAIN pcs : pcs'[p] = pcs[p]
        /\ pcs'[CallPc(r)].sig = "local" /\ pcs'[CallPc(r)].remote = NoMsg
    BY <2>1 DEF CreateOfferDoes, IsIn
  <2>3. Speaks(CallPc(r), pcs'[CallPc(r)])
    BY <2>2, PcIs, NothingFields DEF Speaks
  <2> QED
    BY <2>2, <2>3, SpeaksMove
<1>4. CASE PublishOffer(r)
  <2> DEFINE m == Msg("offer", CallPc(r), Offer(r))
  <2> DEFINE new == Deliver(r, peer[r], m)
  <2>1. PublishOfferDoes(r, m)
    BY <1>4, PublishOfferShape
  <2> HIDE DEF m
  <2>2. /\ m \in Msgs /\ m.kind = "offer" /\ m.pc = CallPc(r) /\ m.offer = Offer(r)
        /\ peer[r] \in Robots /\ UNCHANGED <<run, peer, pcs>>
        /\ tasks' \subseteq tasks \cup new
        /\ Up(r) /\ TypeOK
    BY <2>1 DEF PublishOfferDoes, Base
  <2>3. OfferMsg(m, peer[r])
    <3>1. Life(r) /\ run[r] \in Nat
      BY DEF Base, LInv, TypeOK
    <3> QED
      BY <2>2, <3>1, PcIs DEF OfferMsg, KnownOffer, Reached, Life
  <2>4. ASSUME NEW x \in new PROVE TaskSpeaks(x)
    <3>1. x.msg = m /\ x.robot = peer[r] /\ (x.at = "find" \/ x.at = First(m.kind))
      BY <2>2, DeliveredIs
    <3>2. x.at \notin {"set_local", "publish"}
      BY <2>2, <3>1 DEF First
    <3> QED
      BY <2>2, <2>3, <3>1, <3>2 DEF TaskSpeaks
  <2> HIDE DEF new
  <2> QED
    BY <2>2, <2>4, SpeaksMove
<1>5. CASE Down(r)
  <2>1. DownDoes(r)
    BY <1>5, DownShape
  <2>2. /\ UNCHANGED <<run, peer>> /\ tasks' \subseteq tasks
        /\ \A q \in DOMAIN pcs' : q \in DOMAIN pcs /\ pcs'[q] = pcs[q]
    BY <2>1 DEF DownDoes
  <2> QED
    BY <2>2, SpeaksMove
<1> QED
  BY <1>1, <1>2, <1>3, <1>4, <1>5

LEMMA IceSpeaks ==
    ASSUME Base, SInv, Base', NEW pc \in DOMAIN pcs, PublishIce(pc)
    PROVE  SInv'
<1> DEFINE m == Msg("ice", pc, NoOffer)
<1> DEFINE new == Deliver(pc.owner, Partner(pc), m)
<1>1. PublishIceDoes(pc, m)
  BY PublishIceShape
<1> HIDE DEF m
<1>2. /\ m \in Msgs /\ m.kind = "ice" /\ m.pc = pc /\ pc.owner \in Robots /\ Partner(pc) \in Robots
      /\ tasks' = tasks \cup new /\ UNCHANGED <<run, peer, pcs>> /\ TypeOK
  BY <1>1 DEF PublishIceDoes, Quiet, Base
<1>3. PcLives(pc) /\ Life(pc.owner) /\ Speaks(pc, pcs[pc]) /\ run[pc.owner] \in Nat
  BY <1>2 DEF Base, LInv, SInv, TypeOK
<1>4. IceMsg(m, pc.owner, Partner(pc))
  BY <1>2, <1>3 DEF IceMsg, PcLives, Life, Speaks, Partner
<1>5. ASSUME NEW x \in new PROVE TaskSpeaks(x)
  <2>1. x.msg = m /\ x.robot = Partner(pc) /\ x.from = pc.owner
        /\ (x.at = "find" \/ x.at = First(m.kind))
    BY <1>2, DeliveredIs
  <2>2. x.at \notin {"set_local", "publish"}
    BY <1>2, <2>1 DEF First
  <2> QED
    BY <1>2, <1>4, <2>1, <2>2 DEF TaskSpeaks
<1> HIDE DEF new
<1> QED
  BY <1>2, <1>5, SpeaksMove

\* The connection a negotiating task works on: a call's, or the one that answers the
\* robot that sent the message.
LEMMA ConnectionInHand ==
    ASSUME Base, NEW t \in tasks, t.at \in Negotiating
    PROVE  /\ t.pc \in DOMAIN pcs /\ t.pc.owner = t.robot /\ PcLives(t.pc)
           /\ t.pc.run \in 1..run[t.robot]
           /\ t.pc.for = NoOffer => Calls(t.robot) /\ t.pc = CallPc(t.robot)
           /\ t.pc.for # NoOffer => t.pc.for.by = t.from /\ Session(t.robot, t.from) = t.pc
<1>1. /\ t.pc \in DOMAIN pcs /\ t.pc.owner = t.robot /\ PcLives(t.pc) /\ Settled(t)
      /\ t.robot \in Robots /\ t.from \in Robots /\ t.pc \in PcIds
  BY InHand DEF TaskLives, Base, LInv
<1>2. Life(t.robot) /\ run[t.robot] \in Nat
  BY <1>1 DEF Base, LInv, TypeOK
<1>3. t.pc.run \in 1..run[t.robot]
  BY <1>1, <1>2 DEF PcLives, Life
<1>4. t.pc.for = NoOffer => Calls(t.robot)
  BY <1>1, <1>2 DEF PcLives, Life, Calls
<1>5. t.pc.for # NoOffer => t.pc.for.by = t.from /\ Session(t.robot, t.from) = t.pc
  <2>1. t.pc.for # NoOffer => <<t.robot, t.from>> \in DOMAIN peers /\ peers[<<t.robot, t.from>>] = t.pc
    BY <1>1 DEF Settled
  <2> QED
    BY <1>1, <2>1, SessionFacts
<1>6. t.pc.for = NoOffer => t.pc = CallPc(t.robot)
  <2>1. t.pc = [owner |-> t.pc.owner, run |-> t.pc.run, for |-> t.pc.for]
    BY <1>1, PcFields
  <2>2. t.pc.for = NoOffer => t.pc = [owner |-> t.robot, run |-> run[t.robot], for |-> NoOffer]
    BY <1>1, <2>1 DEF PcLives
  <2> QED
    BY <2>2 DEF CallPc
<1> QED
  BY <1>1, <1>3, <1>4, <1>5, <1>6

LEMMA TaskStepSpeaks ==
    ASSUME Base, SInv, Base', NEW t \in tasks, TaskStep(t)
    PROVE  SInv'
<1>0. TaskSpeaks(t) /\ TaskLives(t) /\ Settled(t) /\ t.robot \in Robots /\ t.from \in Robots
  BY InHand DEF SInv
<1>1. CASE FindPeer(t)
  <2>1. FindPeerDoes(t, Session(t.robot, t.from))
    BY <1>1, FindPeerShape
  <2>2. \A u \in tasks' : u \in tasks \/ TaskSpeaks(u)
    <3>1. ASSUME NEW u, NEW x, NEW y,
                 Goes(t, u, First(t.msg.kind), x, y) \/ Goes(t, u, "create", x, y)
          PROVE  TaskSpeaks(u)
      BY <1>0, <3>1 DEF Goes, First, TaskSpeaks
    <3> QED
      BY <2>1, <3>1 DEF FindPeerDoes
  <2>3. UNCHANGED <<run, peer, pcs>>
    BY <2>1 DEF FindPeerDoes, Quiet
  <2> QED
    BY <2>2, <2>3, SpeaksMove
<1>2. CASE CreatePeer(t)
  <2> DEFINE q == AnswerPc(t.robot, t.msg.offer)
  <2>1. CreatePeerDoes(t, q)
    BY <1>2, CreatePeerShape
  <2>2. q.owner = t.robot /\ q.for = t.msg.offer
    BY PcIs
  <2>3. t.msg.kind = "offer"
    BY <1>0, <2>1 DEF CreatePeerDoes, TaskLives
  <2>4. Reached(t.msg.offer.by, t.robot)
    BY <1>0, <2>3 DEF TaskSpeaks, OfferMsg
  <2> HIDE DEF q
  <2>5. run' = run /\ peer' = peer
    BY <2>1 DEF CreatePeerDoes, Quiet
  <2>6. CASE tasks' = tasks \ {t} /\ pcs' = pcs
    BY <2>5, <2>6, SpeaksMove
  <2>7. CASE \E u : Goes(t, u, "insert", q, t.ans) /\ tasks' = (tasks \ {t}) \cup {u}
    <3>1. PICK u : Goes(t, u, "insert", q, t.ans) /\ tasks' = (tasks \ {t}) \cup {u}
      BY <2>7
    <3>2. TaskSpeaks(u)
      BY <1>0, <3>1 DEF Goes, TaskSpeaks
    <3>3. CASE pcs' = pcs
      BY <2>5, <3>1, <3>2, <3>3, SpeaksMove
    <3>4. CASE /\ DOMAIN pcs' = DOMAIN pcs \cup {q} /\ \A p \in DOMAIN pcs : p # q => pcs'[p] = pcs[p]
               /\ IsIn(pcs'[q], "stable", NoMsg, FALSE)
      <4>1. Speaks(q, pcs'[q])
        BY <2>2, <2>4, <3>4, NothingFields DEF Speaks, IsIn
      <4> QED
        BY <2>5, <3>1, <3>2, <3>4, <4>1, SpeaksMove
    <3> QED
      BY <2>1, <3>3, <3>4 DEF CreatePeerDoes
  <2> QED
    BY <2>1, <2>6, <2>7 DEF CreatePeerDoes
<1>3. CASE InsertPeer(t)
  <2> DEFINE s == Session(t.robot, t.from)
  <2> DEFINE key == <<t.robot, t.from>>
  <2>1. InsertPeerDoes(t, s, key)
    BY <1>3, InsertPeerShape
  <2> HIDE DEF s, key
  <2>2. ASSUME NEW u, NEW x, NEW y,
               Goes(t, u, "set_remote", x, y) \/ Goes(t, u, "capture", x, y)
        PROVE  TaskSpeaks(u)
    BY <1>0, <2>2 DEF Goes, TaskSpeaks
  <2>3. \A u \in tasks' : u \in tasks \/ TaskSpeaks(u)
    <3>1. CASE s = NoPc
      BY <2>1, <2>2, <3>1 DEF InsertPeerDoes
    <3>2. CASE s # NoPc
      BY <2>1, <2>2, <3>2 DEF InsertPeerDoes
    <3> QED
      BY <3>1, <3>2
  <2>4. /\ run' = run /\ peer' = peer
        /\ \A q \in DOMAIN pcs' : q \in DOMAIN pcs /\ pcs'[q] = pcs[q]
    BY <2>1 DEF InsertPeerDoes, Quiet
  <2> QED
    BY <2>3, <2>4, SpeaksMove
<1>4. CASE StartCapture(t) \/ AddIce(t) \/ SignalFails(t)
  <2>1. UNCHANGED <<run, peer, pcs>> /\ tasks' \subseteq tasks
    BY <1>4 DEF StartCapture, AddIce, SignalFails, Ends, procVars
  <2> QED
    BY <2>1, SpeaksMove
<1>5. CASE SetRemote(t)
  <2> DEFINE c == pcs[t.pc]
  <2>1. SetRemoteDoes(t, c)
    BY <1>5, SetRemoteShape
  <2>2. t.at \in Negotiating /\ Speaks(t.pc, c) /\ t.pc.owner = t.robot
        /\ (t.pc.for # NoOffer => t.pc.for.by = t.from /\ c.sig # "local")
    BY <2>1, ConnectionInHand DEF SetRemoteDoes, Negotiating, SInv, PcLives
  <2> HIDE DEF c
  <2>3. run' = run /\ peer' = peer
    BY <2>1 DEF SetRemoteDoes, Quiet
  <2>4. \A u \in tasks' : u \in tasks \/ TaskSpeaks(u)
    <3>1. ASSUME NEW u, Goes(t, u, "create_answer", t.pc, t.ans) PROVE TaskSpeaks(u)
      BY <1>0, <3>1 DEF Goes, TaskSpeaks
    <3> QED
      BY <2>1, <3>1 DEF SetRemoteDoes
  <2>5. \A q \in DOMAIN pcs' : (q \in DOMAIN pcs /\ pcs'[q] = pcs[q]) \/ Speaks(q, pcs'[q])
    <3>1. CASE pcs' = pcs
      BY <3>1
    <3>2. CASE /\ t.msg.kind = "offer" /\ OnlyAt(t.pc)
               /\ IsIn(pcs'[t.pc], "remote", t.msg, c.gathers)
      <4>1. Speaks(t.pc, pcs'[t.pc])
        BY <1>0, <2>2, <3>2 DEF Speaks, IsIn, TaskSpeaks, Settled
      <4> QED
        BY <3>2, <4>1 DEF OnlyAt
    <3>3. CASE /\ t.msg.kind = "answer" /\ OnlyAt(t.pc) /\ c.sig = "local"
               /\ IsIn(pcs'[t.pc], "stable", t.msg, c.gathers)
      <4>1. t.pc.for = NoOffer /\ AnswerMsg(t.msg, t.from, t.robot) /\ t.msg.pc.owner = t.from
        BY <1>0, <2>2, <3>3 DEF TaskSpeaks, AnswerMsg
      <4>2. Speaks(t.pc, pcs'[t.pc])
        BY <2>2, <3>3, <4>1 DEF Speaks, IsIn
      <4> QED
        BY <3>3, <4>2 DEF OnlyAt
    <3> QED
      BY <2>1, <3>1, <3>2, <3>3 DEF SetRemoteDoes
  <2> QED
    BY <2>3, <2>4, <2>5, SpeaksMove
<1>6. CASE CreateAnswer(t)
  <2> DEFINE c == pcs[t.pc]
  <2> DEFINE m == Msg("answer", t.pc, c.remote.offer)
  <2>1. CreateAnswerDoes(t, c, m)
    BY <1>6, CreateAnswerShape
  <2>2. /\ t.at \in Negotiating /\ Speaks(t.pc, c) /\ t.pc.owner = t.robot /\ t.pc.run \in 1..run[t.robot]
        /\ (t.pc.for # NoOffer => t.pc.for.by = t.from) /\ (t.pc.for = NoOffer => Calls(t.robot))
    BY <2>1, ConnectionInHand DEF CreateAnswerDoes, Negotiating, SInv
  <2> HIDE DEF c, m
  <2>3. /\ t.msg.kind = "offer" /\ t.msg.offer.by = t.from
        /\ OfferMsg(t.msg, t.robot)
    BY <1>0, <2>1 DEF CreateAnswerDoes, TaskLives, Settled, TaskSpeaks
  <2>4. Reached(t.from, t.robot)
    BY <2>3 DEF OfferMsg
  <2>5. m.pc = t.pc /\ m.offer = c.remote.offer /\ m.kind = "answer"
    BY <2>1 DEF CreateAnswerDoes
  <2>6. c.sig = "remote" => AnswerMsg(m, t.robot, t.from)
    <3> SUFFICES ASSUME c.sig = "remote" PROVE AnswerMsg(m, t.robot, t.from)
      OBVIOUS
    <3>1. OfferMsg(c.remote, t.robot) /\ (t.pc.for # NoOffer => c.remote.offer.by = t.from)
      BY <2>2 DEF Speaks
    <3>2. KnownOffer(m.offer) /\ t.robot \in PeersOf[m.offer.by]
      BY <2>5, <3>1 DEF OfferMsg, Reached
    <3>3. m.offer.by = t.from \/ Calls(t.robot)
      BY <2>2, <2>5, <3>1
    <3> QED
      BY <1>0, <2>2, <2>4, <2>5, <3>2, <3>3 DEF AnswerMsg
  <2>7. \A u \in tasks' : u \in tasks \/ TaskSpeaks(u)
    <3>1. ASSUME NEW u, c.sig = "remote", Goes(t, u, "set_local", t.pc, m) PROVE TaskSpeaks(u)
      BY <1>0, <2>5, <2>6, <3>1 DEF Goes, TaskSpeaks
    <3> QED
      BY <2>1, <3>1 DEF CreateAnswerDoes
  <2>8. UNCHANGED <<run, peer, pcs>>
    BY <2>1 DEF CreateAnswerDoes, Quiet
  <2> QED
    BY <2>7, <2>8, SpeaksMove
<1>7. CASE SetLocal(t)
  <2> DEFINE c == pcs[t.pc]
  <2>1. SetLocalDoes(t, c)
    BY <1>7, SetLocalShape
  <2>2. Speaks(t.pc, c)
    BY <2>1 DEF SetLocalDoes, SInv
  <2> HIDE DEF c
  <2>3. run' = run /\ peer' = peer
    BY <2>1 DEF SetLocalDoes, Quiet
  <2>4. \A u \in tasks' : u \in tasks \/ TaskSpeaks(u)
    <3>1. ASSUME NEW u, Goes(t, u, "publish", t.pc, t.ans), t.at = "set_local" PROVE TaskSpeaks(u)
      BY <1>0, <3>1 DEF Goes, TaskSpeaks
    <3> QED
      BY <2>1, <3>1 DEF SetLocalDoes
  <2>5. \A q \in DOMAIN pcs' : (q \in DOMAIN pcs /\ pcs'[q] = pcs[q]) \/ Speaks(q, pcs'[q])
    <3>1. CASE pcs' = pcs
      BY <3>1
    <3>2. CASE c.sig = "remote" /\ OnlyAt(t.pc) /\ IsIn(pcs'[t.pc], "stable", c.remote, TRUE)
      <4>1. Speaks(t.pc, pcs'[t.pc])
        BY <2>2, <3>2 DEF Speaks, IsIn
      <4> QED
        BY <3>2, <4>1 DEF OnlyAt
    <3> QED
      BY <2>1, <3>1, <3>2 DEF SetLocalDoes
  <2> QED
    BY <2>3, <2>4, <2>5, SpeaksMove
<1>8. CASE PublishAnswer(t)
  <2> DEFINE new == Deliver(t.robot, t.from, t.ans)
  <2>1. PublishAnswerDoes(t)
    BY <1>8, PublishAnswerShape
  <2>2. /\ t.ans \in Msgs /\ t.ans.kind = "answer" /\ tasks' = (tasks \ {t}) \cup new
        /\ UNCHANGED <<run, peer, pcs>> /\ TypeOK /\ AnswerMsg(t.ans, t.robot, t.from)
    BY <1>0, <2>1 DEF PublishAnswerDoes, Quiet, Base, TaskSpeaks
  <2>3. ASSUME NEW x \in new PROVE TaskSpeaks(x)
    <3>1. x.msg = t.ans /\ x.robot = t.from /\ x.from = t.robot
          /\ (x.at = "find" \/ x.at = First(t.ans.kind))
      BY <1>0, <2>2, DeliveredIs
    <3>2. x.at \notin {"set_local", "publish"}
      BY <2>2, <3>1 DEF First
    <3> QED
      BY <2>2, <3>1, <3>2 DEF TaskSpeaks
  <2> HIDE DEF new
  <2> QED
    BY <2>2, <2>3, SpeaksMove
<1> QED
  BY <1>1, <1>2, <1>3, <1>4, <1>5, <1>6, <1>7, <1>8 DEF TaskStep

LEMMA SpeaksInit == Init => SInv
<1> SUFFICES ASSUME Init PROVE SInv
  OBVIOUS
<1> DEFINE c == NewPc
<1> HIDE DEF c
<1>1. pcs = [pc \in {} |-> c] /\ tasks = {}
  BY DEF Init, c
<1>2. DOMAIN pcs = {}
  BY <1>1
<1> QED
  BY <1>1, <1>2 DEF SInv

LEMMA SpeaksKeeps == Base /\ Base' /\ SInv /\ [Next]_vars => SInv'
<1> SUFFICES ASSUME Base, Base', SInv, [Next]_vars PROVE SInv'
  OBVIOUS
<1>1. CASE UNCHANGED vars
  BY <1>1, SpeaksMove DEF vars
<1> QED
  BY <1>1, ProcessSpeaks, TaskStepSpeaks, IceSpeaks DEF Next, SubsystemFails, SupervisorExit

\* A robot in its first run is connected to the peer it called (video.rs,
\* VideoPeer::offer) and by an answer to its own offer, whatever restarts, however
\* tasks and deliveries interleave: the one way to another's answer is a peer that
\* calls too and a third robot that calls that peer.
THEOREM FirstCallIsAnswered == Spec => []FirstCallAgrees
<1>1. Base /\ SInv => FirstCallAgrees
  <2> SUFFICES ASSUME Base, SInv, NEW r \in Robots, run[r] = 1, CallPc(r) \in DOMAIN pcs,
                      pcs[CallPc(r)].remote.kind = "answer",
                      \/ PeersOf[peer[r]] \subseteq {NoRobot}
                      \/ \A q \in Robots \ {r} : peer[r] \notin PeersOf[q]
               PROVE  /\ pcs[CallPc(r)].remote.offer = Offer(r)
                      /\ pcs[CallPc(r)].remote.pc.owner = peer[r]
    BY DEF FirstCallAgrees
  <2> DEFINE m == pcs[CallPc(r)].remote
  <2>1. AnswerMsg(m, m.pc.owner, r)
    BY PcIs DEF SInv, Speaks
  <2>2. m.pc.owner = peer[r]
    BY <2>1 DEF AnswerMsg, Reached
  <2>3. m.offer \in OfferIds
    BY PcsFields, MsgFields DEF Base, TypeOK
  <2> HIDE DEF m
  <2>4. m.offer.by = r
    BY <2>1, <2>2 DEF AnswerMsg, KnownOffer, Calls
  <2>5. m.offer.run = 1
    BY <2>1, <2>4 DEF AnswerMsg, KnownOffer
  <2>6. m.offer = Offer(r)
    BY <2>3, <2>4, <2>5, OfferFields DEF Offer
  <2> QED
    BY <2>2, <2>6 DEF m
<1> QED
  BY <1>1, BaseInit, BaseKeeps, SpeaksInit, SpeaksKeeps, PTL DEF Spec

-----------------------------------------------------------------------------
(* A robot's run has one PeerConnection that anybody hears of per robot    *)
(* that calls it: the invariant behind CandidatesFit.                      *)

\* PeerConnection p has described itself in an answer or a candidate that somebody has.
Said(p) ==
    \/ \E t \in tasks : t.msg.kind \in {"answer", "ice"} /\ t.msg.pc = p
    \/ \E t \in tasks : t.at \in {"set_local", "publish"} /\ t.ans.pc = p
    \/ \E q \in DOMAIN pcs : pcs[q].remote.kind = "answer" /\ pcs[q].remote.pc = p

InSession(p) == Session(p.owner, p.for.by) = p

Sole ==
    /\ \A p : Said(p) /\ p.for # NoOffer /\ Up(p.owner) /\ p.run = run[p.owner] => InSession(p)
    /\ \A p, q : /\ Said(p) /\ Said(q) /\ p.for # NoOffer /\ q.for # NoOffer
                 /\ p.owner = q.owner /\ p.run = q.run /\ p.for.by = q.for.by
                 => p = q

\* What a step may let be heard: what was heard before, a call's connection, and the
\* connection of a session.
MaySay(p) ==
    \/ Said(p) \/ p.for = NoOffer
    \/ Up(p.owner) /\ p.run = run[p.owner] /\ InSession(p)

TaskMaySay(u) ==
    /\ u.msg.kind \in {"answer", "ice"} => MaySay(u.msg.pc)
    /\ u.at \in {"set_local", "publish"} => MaySay(u.ans.pc)

SessionsKept == \A s \in DOMAIN peers : s \in DOMAIN peers' /\ peers'[s] = peers[s]

LEMMA SaidMoves ==
    ASSUME \A u \in tasks' : u \in tasks \/ TaskMaySay(u),
           \A q \in DOMAIN pcs' :
              \/ q \in DOMAIN pcs /\ pcs'[q].remote = pcs[q].remote
              \/ pcs'[q].remote.kind = "answer" => MaySay(pcs'[q].remote.pc)
    PROVE  \A p : Said(p)' => MaySay(p)
<1> SUFFICES ASSUME NEW p, Said(p)' PROVE MaySay(p)
  OBVIOUS
<1>1. CASE \E t \in tasks' : t.msg.kind \in {"answer", "ice"} /\ t.msg.pc = p
  BY <1>1 DEF TaskMaySay, MaySay, Said
<1>2. CASE \E t \in tasks' : t.at \in {"set_local", "publish"} /\ t.ans.pc = p
  BY <1>2 DEF TaskMaySay, MaySay, Said
<1>3. CASE \E q \in DOMAIN pcs' : pcs'[q].remote.kind = "answer" /\ pcs'[q].remote.pc = p
  BY <1>3 DEF MaySay, Said
<1> QED
  BY <1>1, <1>2, <1>3 DEF Said

LEMMA SoleMoves ==
    ASSUME Sole, run' = run, proc' = proc, SessionsKept, \A p : Said(p)' => MaySay(p)
    PROVE  Sole'
<1>1. \A p : p.for # NoOffer /\ InSession(p) => InSession(p)'
  <2> SUFFICES ASSUME NEW p, p.for # NoOffer, InSession(p) PROVE InSession(p)'
    OBVIOUS
  <2>1. p # NoPc
    BY NothingFields
  <2> DEFINE key == <<p.owner, p.for.by>>
  <2>2. key \in DOMAIN peers /\ peers[key] = p
    BY <2>1 DEF InSession, Session
  <2>3. key \in DOMAIN peers' /\ peers'[key] = p
    BY <2>2 DEF SessionsKept
  <2> QED
    BY <2>3 DEF InSession, Session
<1>2. \A p : Said(p)' /\ p.for # NoOffer /\ Up(p.owner) /\ p.run = run[p.owner] => InSession(p)
  BY DEF Sole, MaySay
<1>3. \A p, q : /\ Said(p)' /\ Said(q)' /\ p.for # NoOffer /\ q.for # NoOffer
                /\ p.owner = q.owner /\ p.run = q.run /\ p.for.by = q.for.by
                => p = q
  <2> SUFFICES ASSUME NEW p, NEW q, Said(p)', Said(q)', p.for # NoOffer, q.for # NoOffer,
                      p.owner = q.owner, p.run = q.run, p.for.by = q.for.by
               PROVE  p = q
    BY Zenon
  <2>1. CASE Up(p.owner) /\ p.run = run[p.owner]
    <3>1. InSession(p) /\ InSession(q)
      BY <1>2, <2>1
    <3> QED
      BY <3>1 DEF InSession
  <2>2. CASE ~(Up(p.owner) /\ p.run = run[p.owner])
    <3>1. Said(p) /\ Said(q)
      BY <2>2 DEF MaySay
    <3> QED
      BY <3>1 DEF Sole
  <2> QED
    BY <2>1, <2>2
<1>4. \A p : Up(p.owner)' <=> Up(p.owner)
  BY DEF Up
<1> QED
  BY <1>1, <1>2, <1>3, <1>4 DEF Sole

LEMMA SaidIsKnown ==
    ASSUME Base, SInv, NEW p, Said(p)
    PROVE  p.owner \in Robots /\ p.run \in 1..run[p.owner]
<1>1. CASE \E t \in tasks : t.msg.kind \in {"answer", "ice"} /\ t.msg.pc = p
  <2>1. PICK t \in tasks : t.msg.kind \in {"answer", "ice"} /\ t.msg.pc = p
    BY <1>1
  <2>2. TaskSpeaks(t) /\ t.from \in Robots
    BY InHand DEF SInv
  <2> QED
    BY <2>1, <2>2 DEF TaskSpeaks, AnswerMsg, IceMsg
<1>2. CASE \E t \in tasks : t.at \in {"set_local", "publish"} /\ t.ans.pc = p
  BY <1>2 DEF SInv, TaskSpeaks, AnswerMsg
<1>3. CASE \E q \in DOMAIN pcs : pcs[q].remote.kind = "answer" /\ pcs[q].remote.pc = p
  BY <1>3 DEF SInv, Speaks, AnswerMsg
<1> QED
  BY <1>1, <1>2, <1>3 DEF Said

LEMMA ProcessIsSole ==
    ASSUME Base, SInv, Sole, NEW r \in Robots,
           \/ \E p \in PeersOf[r] : Start(r, p)
           \/ MeshSubscribe(r) \/ CreateOffer(r) \/ PublishOffer(r) \/ CallSubscribe(r) \/ Down(r)
    PROVE  Sole'
<1>0. run \in [Robots -> Nat] /\ proc \in [Robots -> {"off", "up"}]
  BY DEF Base, TypeOK
<1>1. CASE \E p \in PeersOf[r] : Start(r, p)
  <2>1. /\ run' = [run EXCEPT ![r] = @ + 1] /\ proc' = [proc EXCEPT ![r] = "up"]
        /\ UNCHANGED <<tasks, pcs, peers>>
    BY <1>1 DEF Start
  <2>2. \A p : (Said(p)' <=> Said(p)) /\ (InSession(p)' <=> InSession(p))
    BY <2>1 DEF Said, InSession, Session
  <2>3. ASSUME NEW p, Said(p), p.for # NoOffer, Up(p.owner)', p.run = run'[p.owner]
        PROVE  InSession(p)
    <3>1. p.owner \in Robots /\ p.run \in 1..run[p.owner]
      BY <2>3, SaidIsKnown
    <3>2. p.owner # r
      BY <1>0, <2>1, <2>3, <3>1
    <3>3. Up(p.owner) /\ p.run = run[p.owner]
      BY <1>0, <2>1, <2>3, <3>1, <3>2 DEF Up
    <3> QED
      BY <2>3, <3>3 DEF Sole
  <2> QED
    BY <2>2, <2>3 DEF Sole
<1>2. CASE MeshSubscribe(r) \/ CallSubscribe(r)
  <2>1. UNCHANGED <<proc, run, peers, tasks, pcs>>
    BY <1>2 DEF MeshSubscribe, CallSubscribe
  <2>2. SessionsKept
    BY <2>1 DEF SessionsKept
  <2> QED
    BY <2>1, <2>2, SaidMoves, SoleMoves
<1>3. CASE CreateOffer(r)
  <2>1. CreateOfferDoes(r)
    BY <1>3, CreateOfferShape
  <2>2. /\ UNCHANGED <<proc, run, peers, tasks>> /\ DOMAIN pcs' = DOMAIN pcs \cup {CallPc(r)}
        /\ \A p \in DOMAIN pcs : pcs'[p] = pcs[p]
        /\ pcs'[CallPc(r)].remote = NoMsg
    BY <2>1 DEF CreateOfferDoes, IsIn
  <2>3. SessionsKept
    BY <2>2 DEF SessionsKept
  <2>4. pcs'[CallPc(r)].remote.kind # "answer"
    BY <2>2, NothingFields
  <2> QED
    BY <2>2, <2>3, <2>4, SaidMoves, SoleMoves
<1>4. CASE PublishOffer(r)
  <2> DEFINE m == Msg("offer", CallPc(r), Offer(r))
  <2> DEFINE new == Deliver(r, peer[r], m)
  <2>1. PublishOfferDoes(r, m)
    BY <1>4, PublishOfferShape
  <2> HIDE DEF m
  <2>2. /\ m \in Msgs /\ m.kind = "offer" /\ peer[r] \in Robots
        /\ UNCHANGED <<proc, run, peers, pcs>> /\ tasks' \subseteq tasks \cup new /\ TypeOK
    BY <2>1 DEF PublishOfferDoes, Base
  <2>3. ASSUME NEW x \in new PROVE TaskMaySay(x)
    <3>1. x.msg = m /\ (x.at = "find" \/ x.at = First(m.kind))
      BY <2>2, DeliveredIs
    <3> QED
      BY <2>2, <3>1 DEF First, TaskMaySay
  <2>4. SessionsKept
    BY <2>2 DEF SessionsKept
  <2> HIDE DEF new
  <2> QED
    BY <2>2, <2>3, <2>4, SaidMoves, SoleMoves
<1>5. CASE Down(r)
  <2>1. DownDoes(r)
    BY <1>5, DownShape
  <2>2. /\ run' = run /\ tasks' \subseteq tasks /\ proc' = [proc EXCEPT ![r] = "off"]
        /\ \A q \in DOMAIN pcs' : q \in DOMAIN pcs /\ pcs'[q] = pcs[q]
        /\ DOMAIN peers' = {s \in DOMAIN peers : s[1] # r}
        /\ \A s \in DOMAIN peers' : peers'[s] = peers[s]
    BY <2>1 DEF DownDoes
  <2>3. \A p : Said(p)' => Said(p)
    BY <2>2 DEF Said
  <2>4. ASSUME NEW p, Said(p), p.for # NoOffer, Up(p.owner)', p.run = run'[p.owner]
        PROVE  InSession(p)'
    <3>1. p.owner \in Robots
      BY <2>4, SaidIsKnown
    <3>2. p.owner # r /\ Up(p.owner)
      BY <1>0, <2>2, <2>4, <3>1 DEF Up
    <3>3. InSession(p)
      BY <2>2, <2>4, <3>2 DEF Sole
    <3> DEFINE key == <<p.owner, p.for.by>>
    <3>4. key \in DOMAIN peers /\ peers[key] = p
      BY <2>4, <3>3, NothingFields DEF InSession, Session
    <3>5. key \in DOMAIN peers' /\ peers'[key] = p
      BY <2>2, <3>2, <3>4
    <3> QED
      BY <3>5 DEF InSession, Session
  <2> QED
    BY <2>3, <2>4 DEF Sole
<1> QED
  BY <1>1, <1>2, <1>3, <1>4, <1>5

LEMMA IceIsSole ==
    ASSUME Base, SInv, Sole, NEW pc \in DOMAIN pcs, PublishIce(pc)
    PROVE  Sole'
<1> DEFINE m == Msg("ice", pc, NoOffer)
<1> DEFINE new == Deliver(pc.owner, Partner(pc), m)
<1>1. PublishIceDoes(pc, m)
  BY PublishIceShape
<1> HIDE DEF m
<1>2. /\ m \in Msgs /\ m.kind = "ice" /\ m.pc = pc /\ pc.owner \in Robots /\ Partner(pc) \in Robots
      /\ tasks' = tasks \cup new /\ UNCHANGED <<proc, run, peers, pcs>> /\ TypeOK /\ pcs[pc].gathers
  BY <1>1 DEF PublishIceDoes, Quiet, Base
<1>3. PcLives(pc) /\ Speaks(pc, pcs[pc]) /\ SessionsNegotiate
  BY DEF Base, LInv, MInv, SInv
<1>4. MaySay(pc)
  <2>1. CASE pc.for = NoOffer
    BY <2>1 DEF MaySay
  <2>2. CASE pc.for # NoOffer
    <3>1. pcs[pc].remote # NoMsg
      BY <1>2, <1>3, <2>2, NothingFields DEF Speaks
    <3>2. InSession(pc)
      BY <1>3, <2>2, <3>1 DEF SessionsNegotiate, InSession
    <3> QED
      BY <1>3, <3>2 DEF MaySay, PcLives
  <2> QED
    BY <2>1, <2>2
<1>5. ASSUME NEW x \in new PROVE TaskMaySay(x)
  <2>1. x.msg = m /\ (x.at = "find" \/ x.at = First(m.kind))
    BY <1>2, DeliveredIs
  <2> QED
    BY <1>2, <1>4, <2>1 DEF First, TaskMaySay
<1>6. SessionsKept
  BY <1>2 DEF SessionsKept
<1> HIDE DEF new
<1> QED
  BY <1>2, <1>5, <1>6, SaidMoves, SoleMoves

LEMMA TaskStepIsSole ==
    ASSUME Base, SInv, Sole, NEW t \in tasks, TaskStep(t)
    PROVE  Sole'
<1>0. /\ TaskLives(t) /\ t.robot \in Robots /\ t.from \in Robots
      /\ t.msg.kind \in {"answer", "ice"} => MaySay(t.msg.pc)
      /\ t.at \in {"set_local", "publish"} => MaySay(t.ans.pc)
  BY InHand DEF MaySay, Said
<1>a. ASSUME NEW u, NEW at, NEW x, NEW y, Goes(t, u, at, x, y), at \notin {"set_local", "publish"}
      PROVE  TaskMaySay(u)
  BY <1>0, <1>a DEF Goes, TaskMaySay
<1>b. ASSUME Quiet PROVE run' = run /\ proc' = proc
  BY <1>b DEF Quiet
<1>c. ASSUME peers' = peers PROVE SessionsKept
  BY <1>c DEF SessionsKept
<1>1. CASE FindPeer(t)
  <2>1. FindPeerDoes(t, Session(t.robot, t.from))
    BY <1>1, FindPeerShape
  <2>2. First(t.msg.kind) \notin {"set_local", "publish"}
    BY DEF First
  <2>3. \A u \in tasks' : u \in tasks \/ TaskMaySay(u)
    BY <1>a, <2>1, <2>2 DEF FindPeerDoes
  <2>4. Quiet /\ UNCHANGED <<pcs, peers>>
    BY <2>1 DEF FindPeerDoes
  <2> QED
    BY <1>b, <1>c, <2>3, <2>4, SaidMoves, SoleMoves
<1>2. CASE CreatePeer(t)
  <2> DEFINE q == AnswerPc(t.robot, t.msg.offer)
  <2>1. CreatePeerDoes(t, q)
    BY <1>2, CreatePeerShape
  <2> HIDE DEF q
  <2>2. \A u \in tasks' : u \in tasks \/ TaskMaySay(u)
    <3>1. ASSUME NEW u, Goes(t, u, "insert", q, t.ans) PROVE TaskMaySay(u)
      BY <1>a, <3>1
    <3> QED
      BY <2>1, <3>1 DEF CreatePeerDoes
  <2>3. \A p \in DOMAIN pcs' : \/ p \in DOMAIN pcs /\ pcs'[p].remote = pcs[p].remote
                               \/ pcs'[p].remote.kind # "answer"
    BY <2>1, NothingFields DEF CreatePeerDoes, IsIn
  <2>4. Quiet /\ peers' = peers
    BY <2>1 DEF CreatePeerDoes
  <2> QED
    BY <1>b, <1>c, <2>2, <2>3, <2>4, SaidMoves, SoleMoves
<1>3. CASE InsertPeer(t)
  <2> DEFINE s == Session(t.robot, t.from)
  <2> DEFINE key == <<t.robot, t.from>>
  <2>1. InsertPeerDoes(t, s, key)
    BY <1>3, InsertPeerShape
  <2> HIDE DEF s, key
  <2>2. \A u \in tasks' : u \in tasks \/ TaskMaySay(u)
    <3>1. CASE s = NoPc
      BY <1>a, <2>1, <3>1 DEF InsertPeerDoes
    <3>2. CASE s # NoPc
      BY <1>a, <2>1, <3>2 DEF InsertPeerDoes
    <3> QED
      BY <3>1, <3>2
  <2>3. Quiet /\ \A q \in DOMAIN pcs' : q \in DOMAIN pcs /\ pcs'[q] = pcs[q]
    BY <2>1 DEF InsertPeerDoes
  <2>4. SessionsKept
    BY <2>1 DEF InsertPeerDoes, SessionsKept
  <2> QED
    BY <1>b, <2>2, <2>3, <2>4, SaidMoves, SoleMoves
<1>4. CASE StartCapture(t) \/ AddIce(t) \/ SignalFails(t)
  <2>1. UNCHANGED <<run, proc, pcs, peers>> /\ tasks' \subseteq tasks
    BY <1>4 DEF StartCapture, AddIce, SignalFails, Ends, procVars
  <2> QED
    BY <1>c, <2>1, SaidMoves, SoleMoves
<1>5. CASE SetRemote(t)
  <2> DEFINE c == pcs[t.pc]
  <2>1. SetRemoteDoes(t, c)
    BY <1>5, SetRemoteShape
  <2> HIDE DEF c
  <2>2. \A u \in tasks' : u \in tasks \/ TaskMaySay(u)
    BY <1>a, <2>1 DEF SetRemoteDoes
  <2>3. \A q \in DOMAIN pcs' :
              \/ q \in DOMAIN pcs /\ pcs'[q].remote = pcs[q].remote
              \/ pcs'[q].remote.kind = "answer" => MaySay(pcs'[q].remote.pc)
    BY <1>0, <2>1 DEF SetRemoteDoes, OnlyAt, IsIn
  <2>4. Quiet /\ peers' = peers
    BY <2>1 DEF SetRemoteDoes
  <2> QED
    BY <1>b, <1>c, <2>2, <2>3, <2>4, SaidMoves, SoleMoves
<1>6. CASE CreateAnswer(t)
  <2> DEFINE c == pcs[t.pc]
  <2> DEFINE m == Msg("answer", t.pc, c.remote.offer)
  <2>1. CreateAnswerDoes(t, c, m)
    BY <1>6, CreateAnswerShape
  <2> HIDE DEF c, m
  <2>2. t.at \in Negotiating /\ m.pc = t.pc
    BY <2>1 DEF CreateAnswerDoes, Negotiating
  <2>3. MaySay(t.pc)
    BY <2>2, ConnectionInHand DEF MaySay, InSession, PcLives
  <2>4. \A u \in tasks' : u \in tasks \/ TaskMaySay(u)
    <3>1. ASSUME NEW u, Goes(t, u, "set_local", t.pc, m) PROVE TaskMaySay(u)
      BY <1>0, <2>2, <2>3, <3>1 DEF Goes, TaskMaySay
    <3> QED
      BY <2>1, <3>1 DEF CreateAnswerDoes
  <2>5. Quiet /\ UNCHANGED <<pcs, peers>>
    BY <2>1 DEF CreateAnswerDoes
  <2> QED
    BY <1>b, <1>c, <2>4, <2>5, SaidMoves, SoleMoves
<1>7. CASE SetLocal(t)
  <2> DEFINE c == pcs[t.pc]
  <2>1. SetLocalDoes(t, c)
    BY <1>7, SetLocalShape
  <2>2. \A q \in DOMAIN pcs' : q \in DOMAIN pcs /\ pcs'[q].remote = pcs[q].remote
    BY <2>1 DEF SetLocalDoes, OnlyAt, IsIn
  <2> HIDE DEF c
  <2>3. \A u \in tasks' : u \in tasks \/ TaskMaySay(u)
    <3>1. ASSUME NEW u, Goes(t, u, "publish", t.pc, t.ans), t.at = "set_local" PROVE TaskMaySay(u)
      BY <1>0, <3>1 DEF Goes, TaskMaySay
    <3> QED
      BY <2>1, <3>1 DEF SetLocalDoes
  <2>4. Quiet /\ peers' = peers
    BY <2>1 DEF SetLocalDoes
  <2> QED
    BY <1>b, <1>c, <2>2, <2>3, <2>4, SaidMoves, SoleMoves
<1>8. CASE PublishAnswer(t)
  <2> DEFINE new == Deliver(t.robot, t.from, t.ans)
  <2>1. PublishAnswerDoes(t)
    BY <1>8, PublishAnswerShape
  <2>2. /\ t.ans \in Msgs /\ t.ans.kind = "answer" /\ tasks' = (tasks \ {t}) \cup new
        /\ Quiet /\ UNCHANGED <<pcs, peers>> /\ TypeOK /\ MaySay(t.ans.pc)
    BY <1>0, <2>1 DEF PublishAnswerDoes, Base
  <2>3. ASSUME NEW x \in new PROVE TaskMaySay(x)
    <3>1. x.msg = t.ans /\ (x.at = "find" \/ x.at = First(t.ans.kind))
      BY <1>0, <2>2, DeliveredIs
    <3> QED
      BY <2>2, <3>1 DEF First, TaskMaySay
  <2> HIDE DEF new
  <2> QED
    BY <1>b, <1>c, <2>2, <2>3, SaidMoves, SoleMoves
<1> QED
  BY <1>1, <1>2, <1>3, <1>4, <1>5, <1>6, <1>7, <1>8 DEF TaskStep

LEMMA SoleInit == Init => Sole
<1> SUFFICES ASSUME Init PROVE Sole
  OBVIOUS
<1> DEFINE c == NewPc
<1> HIDE DEF c
<1>1. pcs = [pc \in {} |-> c] /\ tasks = {}
  BY DEF Init, c
<1>2. DOMAIN pcs = {}
  BY <1>1
<1> QED
  BY <1>1, <1>2 DEF Sole, Said

LEMMA SoleKeeps == Base /\ SInv /\ Sole /\ [Next]_vars => Sole'
<1> SUFFICES ASSUME Base, SInv, Sole, [Next]_vars PROVE Sole'
  OBVIOUS
<1>1. CASE UNCHANGED vars
  <2>1. UNCHANGED <<run, proc, peers, pcs, tasks>> /\ SessionsKept
    BY <1>1 DEF vars, SessionsKept
  <2> QED
    BY <2>1, SaidMoves, SoleMoves
<1> QED
  BY <1>1, ProcessIsSole, TaskStepIsSole, IceIsSole DEF Next, SubsystemFails, SupervisorExit

\* A connection that has a remote description is given no candidates but those of the
\* PeerConnection it negotiates with (video.rs and mesh.rs, on_ice), for any number of
\* robots, calls and restarts: the restarts and the robot that calls and is called,
\* which CandidatesFit names, are the only ways to a candidate of another.
THEOREM CandidatesAreThePeers == Spec => []CandidatesFit
<1>1. Base /\ SInv /\ Sole => CandidatesFit
  <2> DEFINE crossed(r) == PeersOf[r] \ {NoRobot} # {} /\ \E q \in Robots : r \in PeersOf[q]
  <2> SUFFICES ASSUME Base, SInv, Sole, NEW t \in tasks, t.at = "add_ice",
                      pcs[t.pc].remote # NoMsg, ~(run[t.from] > 1),
                      ~(run[t.robot] > 1 /\ ~(PeersOf[t.robot] \subseteq {t.from, NoRobot})),
                      ~crossed(t.from), ~crossed(t.robot)
               PROVE  pcs[t.pc].remote.pc = t.msg.pc
    BY DEF CandidatesFit
  <2> DEFINE m == pcs[t.pc].remote
  <2>1. /\ t.robot \in Robots /\ t.from \in Robots /\ t.msg.kind = "ice" /\ t.msg \in Msgs
        /\ run[t.from] \in Nat /\ run[t.robot] \in Nat
    BY InHand DEF TaskLives, Base, TypeOK
  <2>2. IceMsg(t.msg, t.from, t.robot)
    BY <2>1 DEF SInv, TaskSpeaks
  <2>3. /\ t.pc \in DOMAIN pcs /\ t.pc.owner = t.robot
        /\ t.pc.for = NoOffer => Calls(t.robot)
        /\ t.pc.for # NoOffer => t.pc.for.by = t.from
    BY ConnectionInHand DEF Negotiating
  <2>4. PICK c \in Pcs : Speaks(t.pc, c) /\ m = c.remote /\ m \in Msgs
    BY <2>3, PcsFields DEF SInv, Base, TypeOK
  <2>5. m # NoMsg /\ (m.kind = "answer" => Said(m.pc)) /\ Said(t.msg.pc)
    BY <2>1, <2>3 DEF Said
  <2> HIDE DEF m
  <2>6. m.pc \in PcIds /\ t.msg.pc \in PcIds
    BY <2>1, <2>4, MsgFields
  <2>7. t.msg.pc.owner = t.from /\ t.msg.pc.run = 1 /\ run[t.from] = 1
    BY <2>1, <2>2 DEF IceMsg
  <2>8. /\ Calls(t.from) => \A q \in Robots : t.from \notin PeersOf[q]
        /\ Calls(t.robot) => \A q \in Robots : t.robot \notin PeersOf[q]
    BY DEF Calls
  <2>9. NoRobot \notin Robots
    BY NothingFields
  <2>10. CASE t.pc.for = NoOffer
    <3>1. Calls(t.robot) /\ \A q \in Robots : t.robot \notin PeersOf[q]
      BY <2>3, <2>8, <2>10
    <3>2. /\ t.msg.pc.for # NoOffer /\ t.msg.pc.for.by = t.robot
          /\ Reached(t.robot, t.from)
      BY <2>1, <2>2, <3>1 DEF IceMsg
    <3>3. m.kind # "offer"
      BY <2>3, <2>4, <3>1 DEF Speaks, OfferMsg, KnownOffer, Reached
    <3>4. m.kind = "answer" /\ AnswerMsg(m, m.pc.owner, t.robot)
      BY <2>3, <2>4, <2>5, <3>3 DEF Speaks
    <3>5. m.pc.owner \in Robots /\ Reached(t.robot, m.pc.owner)
      BY <3>4 DEF AnswerMsg
    <3>6. m.pc.owner = t.from
      <4>1. CASE run[t.robot] = 1
        BY <3>2, <3>5, <4>1 DEF Reached
      <4>2. CASE run[t.robot] # 1
        BY <2>1, <2>9, <3>5, <4>2 DEF Reached
      <4> QED
        BY <4>1, <4>2
    <3>7. ~Calls(t.from)
      BY <2>1, <2>8, <3>2 DEF Reached
    <3>8. m.pc.for # NoOffer /\ m.pc.for.by = t.robot /\ m.pc.run = 1
      BY <2>7, <3>4, <3>6, <3>7 DEF AnswerMsg
    <3>9. m.pc = t.msg.pc
      BY <2>5, <2>7, <3>2, <3>4, <3>6, <3>8 DEF Sole
    <3> QED
      BY <3>9 DEF m
  <2>11. CASE t.pc.for # NoOffer
    <3>1. Reached(t.from, t.robot)
      BY <2>3, <2>4, <2>11 DEF Speaks
    <3>2. ~Calls(t.robot)
      BY <2>1, <2>8, <3>1 DEF Reached
    <3>3. t.from \notin PeersOf[t.robot]
      BY <2>1, <2>9, <3>2 DEF Calls
    <3>4. t.msg.pc.for = NoOffer
      BY <2>2, <3>3 DEF IceMsg, Reached
    <3>5. m.kind = "offer" /\ OfferMsg(m, t.robot) /\ m.offer.by = t.from
      BY <2>3, <2>4, <2>5, <2>11 DEF Speaks
    <3>6. m.pc.owner = t.from /\ m.pc.run = 1 /\ m.pc.for = NoOffer
      BY <2>7, <3>5 DEF OfferMsg, KnownOffer
    <3>7. m.pc = t.msg.pc
      BY <2>6, <2>7, <3>4, <3>6, PcFields
    <3> QED
      BY <3>7 DEF m
  <2> QED
    BY <2>10, <2>11
<1> QED
  BY <1>1, BaseInit, BaseKeeps, SpeaksInit, SpeaksKeeps, SoleInit, SoleKeeps, PTL DEF Spec

-----------------------------------------------------------------------------
(* A call that waits is carried by somebody: the invariant behind          *)
(* UnansweredHasCause.                                                     *)

\* A task that answers the offer that connection p, in state c, has.
Answering(u, p, c) ==
    /\ u.pc = p
    /\ u.at = "create_answer" \/ (u.at = "set_local" /\ u.ans.offer = c.remote.offer)

\* A task that has the offer of r's call, or an answer for it.
Bears(t, r) ==
    \/ t.at = "set_remote" /\ t.msg.kind = "answer" /\ t.pc = CallPc(r)
    \/ Opening(t) /\ t.msg.offer = Offer(r)
    \/ /\ t.at = "set_remote" /\ t.msg.kind = "offer" /\ t.pc.for # NoOffer
       /\ t.msg.offer = Offer(r)
    \/ t.at = "publish" /\ t.pc.for # NoOffer /\ t.from = r

\* PeerConnection p, in state c, has an offer of r's to answer.
Holds(p, c, r) == p.for # NoOffer /\ p.for.by = r /\ c.sig = "remote"

Carried(r) ==
    \/ Offer(r) \in missed
    \/ \E t \in tasks : Bears(t, r)
    \/ \E p \in DOMAIN pcs, u \in tasks : Holds(p, pcs[p], r) /\ Answering(u, p, pcs[p])

Waits(r) == call[r] = "published" /\ pcs[CallPc(r)].sig = "local"

KInv == \A r \in Robots : Waits(r) => Carried(r)

LEMMA KInit == Init => KInv
<1> SUFFICES ASSUME Init PROVE KInv
  OBVIOUS
<1>1. \A r \in Robots : call[r] # "published"
  BY DEF Init
<1> QED
  BY <1>1 DEF KInv, Waits

\* The robot's call is the same before and after a step.
Same(r) == Offer(r)' = Offer(r) /\ CallPc(r)' = CallPc(r)

LEMMA SameIds ==
    ASSUME run' = run
    PROVE  \A r : Same(r)
  BY DEF Same, Offer, CallPc

LEMMA BearsSame ==
    ASSUME NEW r, Same(r), NEW t
    PROVE  Bears(t, r)' <=> Bears(t, r)
  BY DEF Same, Bears, Opening

LEMMA AnsweringCarries ==
    ASSUME NEW r, NEW p \in DOMAIN pcs', NEW u \in tasks',
           Holds(p, pcs'[p], r), Answering(u, p, pcs'[p])
    PROVE  Carried(r)'
  BY DEF Carried, Holds, Answering

\* What carries a call goes on carrying it, or is handed on.
LEMMA CarriedMoves ==
    ASSUME NEW r, Same(r), missed \subseteq missed', Carried(r),
           \A t \in tasks : Bears(t, r) => t \in tasks' \/ Carried(r)',
           \A p \in DOMAIN pcs, u \in tasks : Holds(p, pcs[p], r) /\ Answering(u, p, pcs[p]) =>
              (p \in DOMAIN pcs' /\ pcs'[p] = pcs[p] /\ u \in tasks') \/ Carried(r)'
    PROVE  Carried(r)'
<1>1. CASE Offer(r) \in missed
  BY <1>1 DEF Carried, Same
<1>2. CASE \E t \in tasks : Bears(t, r)
  BY <1>2, BearsSame DEF Carried
<1>3. CASE \E p \in DOMAIN pcs, u \in tasks : Holds(p, pcs[p], r) /\ Answering(u, p, pcs[p])
  <2>1. PICK p \in DOMAIN pcs, u \in tasks : Holds(p, pcs[p], r) /\ Answering(u, p, pcs[p])
    BY <1>3
  <2>2. CASE p \in DOMAIN pcs' /\ pcs'[p] = pcs[p] /\ u \in tasks'
    BY <2>1, <2>2, AnsweringCarries
  <2> QED
    BY <2>1, <2>2
<1> QED
  BY <1>1, <1>2, <1>3 DEF Carried

LEMMA MissedCarries ==
    ASSUME NEW r, Same(r), Offer(r) \in missed'
    PROVE  Carried(r)'
  BY DEF Carried, Same

LEMMA TaskCarries ==
    ASSUME NEW r, Same(r), NEW t \in tasks', Bears(t, r)
    PROVE  Carried(r)'
  BY BearsSame DEF Carried

\* The steps in which tasks only come, and connections stay as they are.
LEMMA KGrows ==
    ASSUME KInv, run' = run, tasks \subseteq tasks', pcs' = pcs, missed \subseteq missed',
           \A r \in Robots : call'[r] = "published" => call[r] = "published" \/ Carried(r)'
    PROVE  KInv'
<1>1. ASSUME NEW r \in Robots, Waits(r)' PROVE Carried(r)'
  <2>1. Same(r)
    BY SameIds
  <2>2. CASE call[r] = "published"
    <3>1. Waits(r)
      BY <1>1, <2>1, <2>2 DEF Waits, Same
    <3>2. Carried(r)
      BY <3>1 DEF KInv
    <3> QED
      BY <2>1, <3>2, CarriedMoves
  <2>3. CASE Carried(r)'
    BY <2>3
  <2> QED
    BY <1>1, <2>2, <2>3 DEF Waits
<1> QED
  BY <1>1 DEF KInv

LEMMA ProcessCarries ==
    ASSUME Base, SInv, KInv, NEW r \in Robots,
           \/ \E p \in PeersOf[r] : Start(r, p)
           \/ MeshSubscribe(r) \/ CreateOffer(r) \/ PublishOffer(r) \/ CallSubscribe(r) \/ Down(r)
    PROVE  KInv'
<1>0. /\ run \in [Robots -> Nat] /\ call \in [Robots -> {"none", "created", "published"}]
      /\ \A q \in Robots : Life(q)
  BY DEF Base, TypeOK, LInv
<1>1. CASE \E p \in PeersOf[r] : Start(r, p)
  <2>1. /\ run' = [run EXCEPT ![r] = @ + 1] /\ ~Up(r)
        /\ UNCHANGED <<tasks, pcs, call, missed>>
    BY <1>1 DEF Start, Up
  <2>3. ASSUME NEW q \in Robots, Waits(q)' PROVE Carried(q)'
    <3>1. q # r
      BY <1>0, <2>1, <2>3 DEF Waits, Life
    <3>2. run'[q] = run[q]
      BY <1>0, <2>1, <3>1
    <3>3. Same(q)
      BY <3>2 DEF Same, Offer, CallPc
    <3>4. Waits(q)
      BY <2>1, <2>3, <3>3 DEF Waits, Same
    <3>5. Carried(q)
      BY <3>4 DEF KInv
    <3> QED
      BY <2>1, <3>3, <3>5, CarriedMoves
  <2> QED
    BY <2>3 DEF KInv
<1>2. CASE MeshSubscribe(r) \/ CallSubscribe(r)
  <2>1. UNCHANGED <<run, call, tasks, pcs, missed>>
    BY <1>2 DEF MeshSubscribe, CallSubscribe
  <2> QED
    BY <2>1, KGrows
<1>3. CASE CreateOffer(r)
  <2>1. CreateOfferDoes(r)
    BY <1>3, CreateOfferShape
  <2>2. /\ UNCHANGED <<run, tasks, missed>> /\ DOMAIN pcs' = DOMAIN pcs \cup {CallPc(r)}
        /\ \A p \in DOMAIN pcs : pcs'[p] = pcs[p]
        /\ call' = [call EXCEPT ![r] = "created"]
    BY <2>1 DEF CreateOfferDoes
  <2>4. ASSUME NEW q \in Robots, Waits(q)' PROVE Carried(q)'
    <3>1. Same(q)
      BY <2>2, SameIds
    <3>2. call[q] = "published"
      BY <1>0, <2>2, <2>4 DEF Waits
    <3>3. CallPc(q) \in DOMAIN pcs
      BY <1>0, <3>2 DEF Life
    <3>4. Waits(q)
      BY <2>2, <2>4, <3>1, <3>2, <3>3 DEF Waits, Same
    <3>5. Carried(q)
      BY <3>4 DEF KInv
    <3> QED
      BY <2>2, <3>1, <3>5, CarriedMoves
  <2> QED
    BY <2>4 DEF KInv
<1>4. CASE PublishOffer(r)
  <2> DEFINE m == Msg("offer", CallPc(r), Offer(r))
  <2> DEFINE new == Deliver(r, peer[r], m)
  <2>1. PublishOfferDoes(r, m)
    BY <1>4, PublishOfferShape
  <2> HIDE DEF m
  <2>2. /\ m \in Msgs /\ m.kind = "offer" /\ m.offer = Offer(r) /\ peer[r] \in Robots
        /\ UNCHANGED <<run, pcs>> /\ tasks \subseteq tasks' /\ missed \subseteq missed' /\ TypeOK
        /\ call' = [call EXCEPT ![r] = "published"]
        /\ \/ Offer(r) \in missed'
           \/ meshSubs[peer[r]] >= Pattern["offer"] /\ new \subseteq tasks'
    BY <2>1 DEF PublishOfferDoes, Base
  <2>3. Same(r)
    BY <2>2, SameIds
  <2>4. Carried(r)'
    <3>1. CASE Offer(r) \in missed'
      BY <2>3, <3>1, MissedCarries
    <3>2. CASE meshSubs[peer[r]] >= Pattern["offer"] /\ new \subseteq tasks'
      <4>1. PICK x \in new : x.at = "find"
        BY <2>2, <3>2, DeliveredIs
      <4>2. x.msg = m
        BY <2>2, DeliveredIs
      <4>3. Bears(x, r)
        BY <2>2, <4>1, <4>2 DEF Bears, Opening
      <4> HIDE DEF new
      <4>4. x \in tasks'
        BY <3>2, <4>1
      <4> QED
        BY <2>3, <4>3, <4>4, TaskCarries
    <3> QED
      BY <2>2, <3>1, <3>2
  <2> HIDE DEF new
  <2> QED
    BY <1>0, <2>2, <2>4, KGrows
<1>5. CASE Down(r)
  <2>1. DownDoes(r)
    BY <1>5, DownShape
  <2>2. /\ run' = run /\ tasks' = {t \in tasks : t.robot # r} /\ call' = [call EXCEPT ![r] = "none"]
        /\ DOMAIN pcs' = {q \in DOMAIN pcs : q.owner # r}
        /\ \A q \in DOMAIN pcs' : pcs'[q] = pcs[q]
        /\ missed \subseteq missed'
        /\ \A t \in tasks : t.robot = r => t.msg.offer \in missed' /\ Offer(t.from) \in missed'
    BY <2>1 DEF DownDoes
  <2>a. ASSUME NEW u \in tasks, NEW p, Answering(u, p, pcs[p])
        PROVE  u.robot = p.owner /\ (p.for # NoOffer => u.from = p.for.by)
    <3>1. u.at \in Negotiating /\ u.pc = p
      BY <2>a DEF Answering, Negotiating
    <3> QED
      BY <3>1, ConnectionInHand
  <2>5. ASSUME NEW q \in Robots, Waits(q)' PROVE Carried(q)'
    <3>1. Same(q) /\ call[q] = "published" /\ q # r
      BY <1>0, <2>2, <2>5, SameIds DEF Waits
    <3>2. CallPc(q) \in DOMAIN pcs'
      BY <1>0, <2>2, <3>1, PcIs DEF Life
    <3>3. Waits(q)
      BY <2>2, <2>5, <3>1, <3>2 DEF Waits, Same
    <3>4. Carried(q)
      BY <3>3 DEF KInv
    <3>5. ASSUME NEW t \in tasks, Bears(t, q) PROVE t \in tasks' \/ Carried(q)'
      <4>1. CASE t.robot # r
        BY <2>2, <4>1
      <4>2. CASE t.robot = r
        <5>1. t.msg.offer \in missed' /\ Offer(t.from) \in missed'
          BY <2>2, <4>2
        <5>2. ~(t.at = "set_remote" /\ t.pc = CallPc(q))
          BY <3>1, <4>2, ConnectionInHand, PcIs DEF Negotiating
        <5>3. Offer(q) \in missed'
          BY <3>5, <5>1, <5>2 DEF Bears
        <5> QED
          BY <3>1, <5>3, MissedCarries
      <4> QED
        BY <4>1, <4>2
    <3>6. ASSUME NEW p \in DOMAIN pcs, NEW u \in tasks, Holds(p, pcs[p], q), Answering(u, p, pcs[p])
          PROVE  (p \in DOMAIN pcs' /\ pcs'[p] = pcs[p] /\ u \in tasks') \/ Carried(q)'
      <4>1. u.robot = p.owner /\ u.from = q
        BY <2>a, <3>6 DEF Holds
      <4>2. CASE p.owner # r
        BY <2>2, <4>1, <4>2
      <4>3. CASE p.owner = r
        <5>1. Offer(q) \in missed'
          BY <2>2, <4>1, <4>3
        <5> QED
          BY <3>1, <5>1, MissedCarries
      <4> QED
        BY <4>2, <4>3
    <3> QED
      BY <2>2, <3>1, <3>4, <3>5, <3>6, CarriedMoves
  <2> QED
    BY <2>5 DEF KInv
<1> QED
  BY <1>1, <1>2, <1>3, <1>4, <1>5

LEMMA IceCarries ==
    ASSUME Base, KInv, NEW pc \in DOMAIN pcs, PublishIce(pc)
    PROVE  KInv'
<1>1. UNCHANGED <<run, call, pcs, missed>> /\ tasks \subseteq tasks'
  BY DEF PublishIce, procVars
<1> QED
  BY <1>1, KGrows

\* A task's step: the task itself is the only one that may stop to carry a call, and
\* what it stops to carry is handed on.
LEMMA KStep ==
    ASSUME Base, KInv, Quiet, missed \subseteq missed', NEW t \in tasks,
           \A u \in tasks : u = t \/ u \in tasks',
           \A r \in Robots : Waits(r)' => Waits(r),
           \A r \in Robots : Bears(t, r) /\ Waits(r)' => Carried(r)',
           \A r \in Robots, p \in DOMAIN pcs, u \in tasks :
              Holds(p, pcs[p], r) /\ Answering(u, p, pcs[p]) =>
                 (p \in DOMAIN pcs' /\ pcs'[p] = pcs[p] /\ u # t) \/ Carried(r)'
    PROVE  KInv'
<1>1. ASSUME NEW r \in Robots, Waits(r)' PROVE Carried(r)'
  <2>1. Same(r)
    BY SameIds DEF Quiet
  <2>2. Carried(r)
    BY <1>1 DEF KInv
  <2>3. \A u \in tasks : Bears(u, r) => u \in tasks' \/ Carried(r)'
    BY <1>1
  <2>4. \A p \in DOMAIN pcs, u \in tasks : Holds(p, pcs[p], r) /\ Answering(u, p, pcs[p]) =>
              (p \in DOMAIN pcs' /\ pcs'[p] = pcs[p] /\ u \in tasks') \/ Carried(r)'
    OBVIOUS
  <2> QED
    BY <2>1, <2>2, <2>3, <2>4, CarriedMoves
<1> QED
  BY <1>1 DEF KInv

LEMMA WaitsStay ==
    ASSUME Base, Quiet,
           \A p \in DOMAIN pcs : p.for = NoOffer /\ pcs'[p].sig = "local" => pcs[p].sig = "local"
    PROVE  \A r \in Robots : Waits(r)' => Waits(r)
<1> SUFFICES ASSUME NEW r \in Robots, Waits(r)' PROVE Waits(r)
  OBVIOUS
<1>1. Same(r) /\ call' = call
  BY SameIds DEF Quiet
<1>2. CallPc(r) \in DOMAIN pcs /\ call[r] = "published"
  BY <1>1 DEF Waits, Base, LInv, Life
<1>3. CallPc(r).for = NoOffer
  BY PcIs
<1> QED
  BY <1>1, <1>2, <1>3 DEF Waits, Same

LEMMA TaskStepCarries ==
    ASSUME Base, SInv, KInv, NEW t \in tasks, TaskStep(t)
    PROVE  KInv'
<1>0. TaskLives(t) /\ Settled(t) /\ OpeningIsNew(t) /\ t.robot \in Robots /\ t.from \in Robots
  BY InHand
<1>a. ASSUME Quiet PROVE \A r : Same(r)
  BY <1>a, SameIds DEF Quiet
<1>1. CASE FindPeer(t)
  <2> DEFINE s == Session(t.robot, t.from)
  <2>1. FindPeerDoes(t, s)
    BY <1>1, FindPeerShape
  <2>2. s # NoPc => s.for # NoOffer
    BY <1>0, SessionFacts
  <2> HIDE DEF s
  <2>3. /\ t.at = "find" /\ Quiet /\ UNCHANGED <<pcs, missed>>
        /\ \A u \in tasks : u = t \/ u \in tasks'
    BY <2>1 DEF FindPeerDoes
  <2>4. ASSUME NEW r \in Robots, Bears(t, r) PROVE Carried(r)'
    <3>1. t.msg.kind = "offer" /\ t.msg.offer = Offer(r)
      BY <2>3, <2>4 DEF Bears, Opening
    <3>2. CASE s # NoPc
      <4>1. PICK u : Goes(t, u, First(t.msg.kind), s, t.ans) /\ u \in tasks'
        BY <2>1, <3>2 DEF FindPeerDoes
      <4>2. Bears(u, r)
        BY <2>2, <3>1, <3>2, <4>1 DEF Goes, First, Bears
      <4> QED
        BY <1>a, <2>3, <4>1, <4>2, TaskCarries
    <3>3. CASE s = NoPc
      <4>1. PICK u : Goes(t, u, "create", t.pc, t.ans) /\ u \in tasks'
        BY <2>1, <3>1, <3>3 DEF FindPeerDoes
      <4>2. Bears(u, r)
        BY <3>1, <4>1 DEF Goes, Opening, Bears
      <4> QED
        BY <1>a, <2>3, <4>1, <4>2, TaskCarries
    <3> QED
      BY <3>2, <3>3
  <2>5. \A p : ~Answering(t, p, pcs[p])
    BY <2>3 DEF Answering
  <2>6. \A r \in Robots : Waits(r)' => Waits(r)
    BY <2>3, WaitsStay
  <2> QED
    BY <2>3, <2>4, <2>5, <2>6, KStep
<1>2. CASE CreatePeer(t)
  <2> DEFINE q == AnswerPc(t.robot, t.msg.offer)
  <2>1. CreatePeerDoes(t, q)
    BY <1>2, CreatePeerShape
  <2>2. /\ t.at = "create" /\ Quiet /\ missed \subseteq missed'
        /\ \A u \in tasks : u = t \/ u \in tasks'
    BY <2>1 DEF CreatePeerDoes
  <2>3. q \notin DOMAIN pcs /\ t.msg.kind = "offer"
    BY <1>0, <2>2 DEF TaskLives, OpeningIsNew, Opening
  <2> HIDE DEF q
  <2>4. \A p \in DOMAIN pcs : p \in DOMAIN pcs' /\ pcs'[p] = pcs[p]
    BY <2>1, <2>3 DEF CreatePeerDoes
  <2>7. ASSUME NEW r \in Robots, Bears(t, r) PROVE Carried(r)'
    <3>1. t.msg.offer = Offer(r)
      BY <2>2, <2>7 DEF Bears, Opening
    <3>2. CASE \E u : Goes(t, u, "insert", q, t.ans) /\ tasks' = (tasks \ {t}) \cup {u}
      <4>1. PICK u : Goes(t, u, "insert", q, t.ans) /\ u \in tasks'
        BY <3>2
      <4>2. Bears(u, r)
        BY <2>3, <3>1, <4>1 DEF Goes, Opening, Bears
      <4> QED
        BY <1>a, <2>2, <4>1, <4>2, TaskCarries
    <3>3. CASE missed' = missed \cup {t.msg.offer}
      BY <1>a, <2>2, <3>1, <3>3, MissedCarries
    <3> QED
      BY <2>1, <3>2, <3>3 DEF CreatePeerDoes
  <2>8. \A p : ~Answering(t, p, pcs[p])
    BY <2>2 DEF Answering
  <2>9. \A r \in Robots : Waits(r)' => Waits(r)
    BY <2>2, <2>4, WaitsStay
  <2> QED
    BY <2>2, <2>4, <2>7, <2>8, <2>9, KStep
<1>3. CASE InsertPeer(t)
  <2> DEFINE s == Session(t.robot, t.from)
  <2> DEFINE key == <<t.robot, t.from>>
  <2>1. InsertPeerDoes(t, s, key)
    BY <1>3, InsertPeerShape
  <2>2. s # NoPc => s.for # NoOffer
    BY <1>0, SessionFacts
  <2> HIDE DEF s, key
  <2>3. /\ t.at = "insert" /\ Quiet /\ missed' = missed
        /\ \A q \in DOMAIN pcs' : q \in DOMAIN pcs /\ pcs'[q] = pcs[q]
        /\ \A q \in DOMAIN pcs : q # t.pc => q \in DOMAIN pcs'
    BY <2>1 DEF InsertPeerDoes
  <2>a. \A u \in tasks : u = t \/ u \in tasks'
    BY <2>1 DEF InsertPeerDoes
  <2>4. /\ t.msg.kind = "offer" /\ t.pc.owner = t.robot /\ t.pc.for.by = t.from
        /\ t.pc \in DOMAIN pcs /\ \A k \in DOMAIN peers : peers[k] # t.pc
    BY <1>0, <2>3 DEF TaskLives, Settled, OpeningIsNew
  <2>5. t.pc.for # NoOffer
    BY <1>0, <2>4, NothingFields
  <2>6. pcs[t.pc].sig # "remote"
    <3>1. Speaks(t.pc, pcs[t.pc]) /\ SessionsNegotiate
      BY <2>4 DEF SInv, Base, MInv
    <3>2. Session(t.pc.owner, t.pc.for.by) # t.pc
      BY <2>4, <2>5, NothingFields DEF Session
    <3>3. pcs[t.pc].remote = NoMsg
      BY <2>4, <2>5, <3>1, <3>2 DEF SessionsNegotiate
    <3> QED
      BY <3>1, <3>3, NothingFields DEF Speaks
  <2>7. ASSUME NEW r \in Robots, Bears(t, r) PROVE Carried(r)'
    <3>1. t.msg.offer = Offer(r)
      BY <2>3, <2>7 DEF Bears, Opening
    <3>2. PICK u, x : Goes(t, u, "set_remote", x, t.ans) /\ u \in tasks' /\ x.for # NoOffer
      <4>1. CASE s = NoPc
        BY <2>1, <2>5, <4>1 DEF InsertPeerDoes
      <4>2. CASE s # NoPc
        BY <2>1, <2>2, <4>2 DEF InsertPeerDoes
      <4> QED
        BY <4>1, <4>2
    <3>3. Bears(u, r)
      BY <2>4, <3>1, <3>2 DEF Goes, Bears
    <3> QED
      BY <1>a, <2>3, <3>2, <3>3, TaskCarries
  <2>8. \A p : ~Answering(t, p, pcs[p])
    BY <2>3 DEF Answering
  <2>9. \A r \in Robots : Waits(r)' => Waits(r)
    BY <2>3, <2>5, WaitsStay
  <2>10. \A r \in Robots, p \in DOMAIN pcs : Holds(p, pcs[p], r) => p \in DOMAIN pcs' /\ pcs'[p] = pcs[p]
    BY <2>3, <2>6 DEF Holds
  <2> QED
    BY <2>3, <2>a, <2>7, <2>8, <2>9, <2>10, KStep
<1>4. CASE StartCapture(t) \/ AddIce(t)
  <2>1. /\ t.at \in {"capture", "add_ice"} /\ Quiet /\ UNCHANGED <<pcs, missed>>
        /\ tasks' = tasks \ {t}
    BY <1>4 DEF StartCapture, AddIce, Ends, procVars, Quiet
  <2>2. \A r : ~Bears(t, r)
    BY <2>1 DEF Bears, Opening
  <2>3. \A p : ~Answering(t, p, pcs[p])
    BY <2>1 DEF Answering
  <2>4. \A r \in Robots : Waits(r)' => Waits(r)
    BY <2>1, WaitsStay
  <2> QED
    BY <2>1, <2>2, <2>3, <2>4, KStep
<1>5. CASE SetRemote(t)
  <2> DEFINE c == pcs[t.pc]
  <2>1. SetRemoteDoes(t, c)
    BY <1>5, SetRemoteShape
  <2>2. /\ t.at = "set_remote" /\ Quiet /\ missed' = missed
        /\ \A u \in tasks : u = t \/ u \in tasks'
        /\ t.pc \in DOMAIN pcs /\ (OnlyAt(t.pc) \/ pcs' = pcs)
    BY <2>1 DEF SetRemoteDoes
  <2>3. t.pc.for # NoOffer => t.pc.for.by = t.from /\ c.sig # "local"
    BY <2>2, ConnectionInHand DEF Negotiating, PcLives
  <2>b. \A p \in DOMAIN pcs : p \in DOMAIN pcs' /\ (p # t.pc => pcs'[p] = pcs[p])
    BY <2>2 DEF OnlyAt
  <2>5. ASSUME pcs' # pcs, t.msg.kind = "offer"
        PROVE  /\ t.pc \in DOMAIN pcs' /\ pcs'[t.pc].sig = "remote"
               /\ \E u \in tasks' : Answering(u, t.pc, pcs'[t.pc])
    <3>1. PICK u : Goes(t, u, "create_answer", t.pc, t.ans) /\ u \in tasks'
      BY <2>1, <2>5 DEF SetRemoteDoes
    <3>2. Answering(u, t.pc, pcs'[t.pc])
      BY <3>1 DEF Goes, Answering
    <3> QED
      BY <2>1, <2>5, <3>1, <3>2 DEF SetRemoteDoes, IsIn, OnlyAt
  <2>7. \A p : ~Answering(t, p, pcs[p])
    BY <2>2 DEF Answering
  <2>8. \A r \in Robots : Waits(r)' => Waits(r)
    <3>1. t.pc \in DOMAIN pcs /\ pcs'[t.pc].sig = "local" => pcs[t.pc].sig = "local"
      BY <2>1 DEF SetRemoteDoes, IsIn
    <3> QED
      BY <2>2, <2>b, <3>1, WaitsStay
  <2>9. ASSUME NEW r \in Robots, Bears(t, r), Waits(r)' PROVE Carried(r)'
    <3>1. Same(r) /\ Waits(r)
      BY <1>a, <2>2, <2>8, <2>9
    <3>2. CASE t.msg.kind = "answer" /\ t.pc = CallPc(r)
      <4>1. c.sig = "local"
        BY <3>1, <3>2 DEF Waits
      <4>2. pcs'[t.pc].sig = "stable"
        BY <2>1, <3>2, <4>1 DEF SetRemoteDoes, IsIn
      <4>3. pcs'[t.pc].sig = "local"
        BY <2>9, <3>1, <3>2 DEF Waits, Same
      <4> QED
        BY <4>2, <4>3
    <3>3. CASE t.msg.kind = "offer" /\ t.pc.for # NoOffer /\ t.msg.offer = Offer(r)
      <4>1. t.pc.for.by = r
        BY <1>0, <2>3, <3>3, PcIs DEF Settled
      <4>2. PICK u : Goes(t, u, "create_answer", t.pc, t.ans) /\ u \in tasks'
        BY <2>1, <2>3, <3>3 DEF SetRemoteDoes
      <4>3. pcs'[t.pc].sig = "remote" /\ t.pc \in DOMAIN pcs'
        BY <2>1, <2>3, <3>3 DEF SetRemoteDoes, IsIn, OnlyAt
      <4>4. Answering(u, t.pc, pcs'[t.pc]) /\ Holds(t.pc, pcs'[t.pc], r)
        BY <3>3, <4>1, <4>2, <4>3 DEF Goes, Answering, Holds
      <4> QED
        BY <4>2, <4>3, <4>4, AnsweringCarries
    <3> QED
      BY <2>2, <2>9, <3>2, <3>3 DEF Bears, Opening
  <2>10. ASSUME NEW r \in Robots, NEW p \in DOMAIN pcs, Holds(p, pcs[p], r)
         PROVE  (p \in DOMAIN pcs' /\ pcs'[p] = pcs[p]) \/ Carried(r)'
    <3>1. CASE p # t.pc \/ pcs' = pcs
      BY <2>b, <3>1
    <3>2. CASE p = t.pc /\ pcs' # pcs
      <4>1. t.msg.kind = "offer"
        BY <2>1, <2>10, <3>2 DEF SetRemoteDoes, Holds
      <4>2. PICK u \in tasks' : Answering(u, p, pcs'[p])
        BY <2>5, <3>2, <4>1
      <4>3. Holds(p, pcs'[p], r) /\ p \in DOMAIN pcs'
        BY <2>5, <2>10, <3>2, <4>1 DEF Holds
      <4> QED
        BY <4>2, <4>3, AnsweringCarries
    <3> QED
      BY <3>1, <3>2
  <2> HIDE DEF c
  <2>11. missed \subseteq missed'
    BY <2>2
  <2> QED
    BY <2>2, <2>7, <2>8, <2>9, <2>10, <2>11, KStep
<1>6. CASE CreateAnswer(t)
  <2> DEFINE c == pcs[t.pc]
  <2> DEFINE m == Msg("answer", t.pc, c.remote.offer)
  <2>1. CreateAnswerDoes(t, c, m)
    BY <1>6, CreateAnswerShape
  <2> HIDE DEF m
  <2>2. /\ t.at = "create_answer" /\ Quiet /\ UNCHANGED <<pcs, missed>>
        /\ \A u \in tasks : u = t \/ u \in tasks'
        /\ m.offer = c.remote.offer
    BY <2>1 DEF CreateAnswerDoes
  <2>3. \A r : ~Bears(t, r)
    BY <2>2 DEF Bears, Opening
  <2>4. ASSUME NEW r \in Robots, NEW p \in DOMAIN pcs, Holds(p, pcs[p], r), Answering(t, p, pcs[p])
        PROVE  Carried(r)'
    <3>1. p = t.pc /\ c.sig = "remote"
      BY <2>4 DEF Answering, Holds
    <3>2. PICK u \in tasks' : Goes(t, u, "set_local", t.pc, m)
      BY <2>1, <3>1 DEF CreateAnswerDoes
    <3>3. Answering(u, p, pcs'[p]) /\ Holds(p, pcs'[p], r) /\ p \in DOMAIN pcs'
      BY <2>2, <2>4, <3>1, <3>2 DEF Answering, Goes
    <3> QED
      BY <3>2, <3>3, AnsweringCarries
  <2>5. \A r \in Robots : Waits(r)' => Waits(r)
    BY <2>2, WaitsStay
  <2> HIDE DEF c
  <2> QED
    BY <2>2, <2>3, <2>4, <2>5, KStep
<1>7. CASE SetLocal(t)
  <2> DEFINE c == pcs[t.pc]
  <2>1. SetLocalDoes(t, c)
    BY <1>7, SetLocalShape
  <2>2. /\ t.at = "set_local" /\ Quiet /\ missed' = missed /\ t.pc \in DOMAIN pcs
        /\ \A u \in tasks : u = t \/ u \in tasks'
        /\ \A p \in DOMAIN pcs' : p \in DOMAIN pcs /\ (p # t.pc => pcs'[p] = pcs[p])
        /\ \A p \in DOMAIN pcs : p \in DOMAIN pcs' /\ (p # t.pc => pcs'[p] = pcs[p])
    BY <2>1 DEF SetLocalDoes, OnlyAt
  <2>3. pcs' = pcs \/ pcs'[t.pc].sig = "stable"
    BY <2>1 DEF SetLocalDoes, IsIn
  <2>5. \A r : ~Bears(t, r)
    BY <2>2 DEF Bears, Opening
  <2>7. \A r \in Robots : Waits(r)' => Waits(r)
    BY <2>2, <2>3, WaitsStay
  <2>8. ASSUME NEW r \in Robots, NEW p \in DOMAIN pcs, NEW u \in tasks,
               Holds(p, pcs[p], r), Answering(u, p, pcs[p])
        PROVE  (p \in DOMAIN pcs' /\ pcs'[p] = pcs[p] /\ u # t) \/ Carried(r)'
    <3>1. CASE u # t /\ (p # t.pc \/ pcs' = pcs)
      BY <2>2, <3>1
    <3>2. CASE p = t.pc /\ pcs' # pcs
      <4>1. PICK v \in tasks' : Goes(t, v, "publish", t.pc, t.ans)
        BY <2>1, <3>2 DEF SetLocalDoes
      <4>2. t.from = r /\ t.pc.for # NoOffer
        BY <2>2, <2>8, <3>2, ConnectionInHand DEF Negotiating, Holds
      <4>3. Bears(v, r)
        BY <4>1, <4>2 DEF Bears, Goes
      <4> QED
        BY <1>a, <2>2, <4>3, TaskCarries
    <3>3. CASE u = t
      <4>1. p = t.pc /\ t.ans.offer = c.remote.offer /\ c.sig = "remote"
        BY <2>2, <2>8, <3>3 DEF Answering, Holds
      <4>2. pcs'[p].sig = "stable"
        BY <2>1, <4>1 DEF SetLocalDoes, IsIn
      <4>3. pcs' # pcs
        BY <4>1, <4>2
      <4> QED
        BY <3>2, <4>1, <4>3
    <3> QED
      BY <3>1, <3>2, <3>3
  <2> HIDE DEF c
  <2> QED
    BY <2>2, <2>5, <2>7, <2>8, KStep
<1>8. CASE PublishAnswer(t)
  <2> DEFINE new == Deliver(t.robot, t.from, t.ans)
  <2>1. PublishAnswerDoes(t)
    BY <1>8, PublishAnswerShape
  <2>2. /\ t.at = "publish" /\ t.ans \in Msgs /\ t.ans.kind = "answer" /\ tasks' = (tasks \ {t}) \cup new
        /\ Quiet /\ pcs' = pcs /\ TypeOK
        /\ missed' = IF callSubs[t.from] >= Pattern["answer"] THEN missed
                     ELSE missed \cup {Offer(t.from)}
    BY <2>1 DEF PublishAnswerDoes, Base
  <2>3. missed \subseteq missed' /\ \A u \in tasks : u = t \/ u \in tasks'
    BY <2>2
  <2>4. ASSUME NEW r \in Robots, Bears(t, r) PROVE Carried(r)'
    <3>1. t.from = r /\ Same(r)
      BY <1>a, <2>2, <2>4 DEF Bears, Opening
    <3>2. CASE callSubs[r] >= Pattern["answer"]
      <4>1. PICK x \in new : x.at = First(t.ans.kind) /\ x.pc = CallPc(r)
        BY <1>0, <2>2, <3>1, <3>2, DeliveredIs
      <4>2. x.msg = t.ans
        BY <1>0, <2>2, DeliveredIs
      <4> HIDE DEF new
      <4>3. x \in tasks' /\ Bears(x, r)
        BY <2>2, <4>1, <4>2 DEF Bears, First
      <4> QED
        BY <3>1, <4>3, TaskCarries
    <3>3. CASE ~(callSubs[r] >= Pattern["answer"])
      <4>1. Offer(r) \in missed'
        BY <2>2, <3>1, <3>3
      <4> QED
        BY <3>1, <4>1, MissedCarries
    <3> QED
      BY <3>2, <3>3
  <2>5. \A p : ~Answering(t, p, pcs[p])
    BY <2>2 DEF Answering
  <2>6. \A r \in Robots : Waits(r)' => Waits(r)
    BY <2>2, WaitsStay
  <2> HIDE DEF new
  <2> QED
    BY <2>2, <2>3, <2>4, <2>5, <2>6, KStep
<1>9. CASE SignalFails(t)
  <2>1. SignalFailsDoes(t)
    BY <1>9, SignalFailsShape
  <2>2. /\ t.at \in Negotiating /\ t.at # "add_ice" /\ Quiet /\ pcs' = pcs
        /\ tasks' = tasks \ {t} /\ missed' = missed \cup Lost(t)
        /\ t.at # "set_remote" => t.msg.kind = "offer"
    BY <1>0, <2>1 DEF SignalFailsDoes, Negotiating, TaskLives
  <2>3. ASSUME NEW r \in Robots, Bears(t, r) PROVE Offer(r) \in Lost(t)
    <3>1. CASE t.msg.kind = "answer" /\ t.pc = CallPc(r)
      <4>1. t.robot = r
        BY <2>2, <3>1, ConnectionInHand, PcIs
      <4> QED
        BY <3>1, <4>1 DEF Lost
    <3>2. CASE t.msg.kind = "offer" /\ t.pc.for # NoOffer /\ (t.msg.offer = Offer(r) \/ t.from = r)
      BY <3>2 DEF Lost
    <3> QED
      BY <2>2, <2>3, <3>1, <3>2 DEF Bears, Opening, Negotiating
  <2>4. ASSUME NEW r \in Robots, NEW p, Holds(p, pcs[p], r), Answering(t, p, pcs[p])
        PROVE  Offer(r) \in Lost(t)
    <3>1. t.pc = p /\ t.pc.for # NoOffer /\ t.from = r /\ t.msg.kind = "offer"
      BY <2>2, <2>4, ConnectionInHand DEF Holds, Answering
    <3> QED
      BY <3>1 DEF Lost
  <2>5. \A r \in Robots : Offer(r) \in Lost(t) => Carried(r)'
    BY <1>a, <2>2, MissedCarries
  <2>6. \A r \in Robots : Waits(r)' => Waits(r)
    BY <2>2, WaitsStay
  <2> QED
    BY <2>2, <2>3, <2>4, <2>5, <2>6, KStep
<1> QED
  BY <1>1, <1>2, <1>3, <1>4, <1>5, <1>6, <1>7, <1>8, <1>9 DEF TaskStep

LEMMA KKeeps == Base /\ SInv /\ KInv /\ [Next]_vars => KInv'
<1> SUFFICES ASSUME Base, SInv, KInv, [Next]_vars PROVE KInv'
  OBVIOUS
<1>1. CASE UNCHANGED vars
  <2>1. UNCHANGED <<run, call, pcs, tasks, missed>>
    BY <1>1 DEF vars
  <2> QED
    BY <2>1, KGrows
<1> QED
  BY <1>1, ProcessCarries, TaskStepCarries, IceCarries DEF Next, SubsystemFails, SupervisorExit

\* When nothing is left to do, a call without an answer was lost on the way, missed by a
\* listener that had not subscribed or could make no PeerConnection, dropped by a process
\* that ended or by a step that failed (video.rs, on_offer and on_answer, which log and
\* return), or its answer came before the call's own subscription (video.rs,
\* start_video_with_source: it subscribes after the offer is out).  No interleaving of
\* offers, answers and restarts of any number of robots loses a call in another way.
THEOREM NoCallIsLostOtherwise == Spec => []UnansweredHasCause
<1>1. Base /\ KInv => UnansweredHasCause
  <2> SUFFICES ASSUME Base, KInv, NEW r \in Robots, tasks = {}, callSubs[r] = AllPatterns,
                      pcs[CallPc(r)].sig = "local"
               PROVE  Offer(r) \in missed
    BY DEF UnansweredHasCause
  <2>1. Waits(r)
    BY DEF Base, LInv, Life, AllPatterns, Waits
  <2>2. Carried(r)
    BY <2>1 DEF KInv
  <2> QED
    BY <2>2 DEF Carried
<1> QED
  BY <1>1, BaseInit, BaseKeeps, SpeaksInit, SpeaksKeeps, KInit, KKeeps, PTL DEF Spec

\* The state of the mesh keeps its type, for any number of robots and restarts
\* (mesh.rs, video.rs, signaling.rs).
THEOREM TypeCorrect == Spec => []TypeOK
<1>1. Base => TypeOK
  BY DEF Base
<1> QED
  BY <1>1, BaseInit, BaseKeeps, PTL DEF Spec
=============================================================================
