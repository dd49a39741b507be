-------------------------------- MODULE Mesh --------------------------------
(***************************************************************************)
(* WebRTC signaling between robots built with the `media` feature: the     *)
(* mesh listener of src/mesh.rs that answers every offer, the calls that   *)
(* src/video.rs places for --video-peer, the receiver of src/signaling.rs  *)
(* that both use, and the supervisor that watches the signaling task.      *)
(*                                                                         *)
(* A receiver only spawns a task per message, so a delivered message is a  *)
(* task that has not run yet.  Two handlers of one robot that have both    *)
(* subscribed get a task each.  A session description is who made it and,  *)
(* for an answer, the offer it answers; a candidate is the PeerConnection  *)
(* that gathered it.  Presence is logged and no more.                      *)
(***************************************************************************)
EXTENDS Topics, FiniteSets

CONSTANTS
    Robots,   \* robot ids, each one segment of a topic
    NoRobot,  \* no --video-peer
    PeersOf,  \* robot -> the --video-peer a process of it may be started with
    Cameras,  \* robots started with --video-device
    MaxRuns,   \* bound: process starts of each robot
    MaxStarts, \* bound: process starts of all robots together
    MaxIce     \* bound: candidates published

ASSUME MeshConstants ==
    /\ NoRobot \notin Robots /\ Robots \cap (Wild \cup {""}) = {}
    /\ PeersOf \in [Robots -> SUBSET (Robots \cup {NoRobot})]
    /\ Cameras \subseteq Robots
    /\ MaxRuns \in [Robots -> Nat]
    /\ MaxStarts \in Nat
    /\ MaxIce \in Nat

VARIABLES
    proc,      \* robot -> "off" or "up"
    run,       \* robot -> starts so far
    peer,      \* robot -> --video-peer of this run
    meshSubs,  \* robot -> patterns the mesh listener has subscribed to
    call,      \* robot -> "none", "created", "published": VideoPeer::offer
    callSubs,  \* robot -> patterns the call has subscribed to
    pcs,       \* the PeerConnections that exist
    peers,     \* <<robot, caller>> -> PeerConnection of the PeerSession, where there is one
    captures,  \* the captures that run: robot, caller and the offer that made it start
    tasks,     \* spawned tasks that have not ended
    trickled,  \* candidates published so far
    missed     \* history: offers that, or whose answer, a handler was not there for

procVars == <<proc, run, peer, meshSubs, call, callSubs>>
vars == <<proc, run, peer, meshSubs, call, callSubs, pcs, peers, captures, tasks, trickled, missed>>

\* The patterns in the order run_signal_receiver subscribes to them.  The one for
\* candidates is taken together with the one for answers: a candidate that comes
\* between the two is lost like one that was never gathered.
Pattern == [offer |-> 1, answer |-> 2, ice |-> 2]
AllPatterns == 2

\* The robots whose pattern of a kind hears what `from` puts for `to`.
Routes ==
    [kind \in DOMAIN Pattern |-> [from \in Robots |-> [to \in Robots |->
        {q \in Robots : Hears(signal_pattern(<<q>>, kind), signal_key(<<from>>, <<to>>, kind))}]]]

\* An offer is the robot and the run that made it (a run makes one).
NoOffer == [by |-> NoRobot, run |-> 0]
Offer(r) == [by |-> r, run |-> run[r]]

\* A PeerConnection: of a call, or made to answer an offer.
NoPc == [owner |-> NoRobot, run |-> 0, for |-> NoOffer]
CallPc(r) == [owner |-> r, run |-> run[r], for |-> NoOffer]
AnswerPc(r, offer) == [owner |-> r, run |-> run[r], for |-> offer]

Msg(kind, pc, offer) == [kind |-> kind, pc |-> pc, offer |-> offer]
NoMsg == Msg("none", NoPc, NoOffer)

\* A PeerConnection's signaling state and remote description, and whether it gathers
\* candidates of its own.
NewPc == [sig |-> "stable", remote |-> NoMsg, gathers |-> FALSE]

OfferIds == [by : Robots \cup {NoRobot}, run : Nat]
PcIds == [owner : Robots \cup {NoRobot}, run : Nat, for : OfferIds]
Msgs == [kind : {"none", "offer", "answer", "ice"}, pc : PcIds, offer : OfferIds]
Steps == {"find", "create", "insert", "capture", "set_remote", "create_answer", "set_local",
          "publish", "add_ice"}
Tasks == [robot : Robots, from : Robots, msg : Msgs, at : Steps, pc : PcIds, ans : Msgs]
Pcs == [sig : {"stable", "local", "remote"}, remote : Msgs, gathers : BOOLEAN]

TypeOK ==
    /\ proc \in [Robots -> {"off", "up"}]
    /\ run \in [Robots -> Nat]
    /\ peer \in [Robots -> Robots \cup {NoRobot}]
    /\ meshSubs \in [Robots -> 0..AllPatterns]
    /\ call \in [Robots -> {"none", "created", "published"}]
    /\ callSubs \in [Robots -> 0..AllPatterns]
    /\ DOMAIN pcs \subseteq PcIds /\ pcs \in [DOMAIN pcs -> Pcs]
    /\ DOMAIN peers \subseteq Robots \X Robots /\ peers \in [DOMAIN peers -> PcIds]
    /\ captures \subseteq Robots \X Robots \X OfferIds
    /\ tasks \subseteq Tasks
    /\ trickled \in 0..MaxIce
    /\ missed \subseteq OfferIds

Init ==
    /\ proc = [r \in Robots |-> "off"]
    /\ run = [r \in Robots |-> 0]
    /\ peer = [r \in Robots |-> NoRobot]
    /\ meshSubs = [r \in Robots |-> 0]
    /\ call = [r \in Robots |-> "none"]
    /\ callSubs = [r \in Robots |-> 0]
    /\ pcs = [pc \in {} |-> NewPc]
    /\ peers = [s \in {} |-> NoPc]
    /\ captures = {}
    /\ tasks = {}
    /\ trickled = 0
    /\ missed = {}

\* Function f with x mapped to v.
With(f, x, v) == [y \in DOMAIN f \cup {x} |-> IF y = x THEN v ELSE f[y]]

Up(r) == proc[r] = "up"

Session(r, from) == IF <<r, from>> \in DOMAIN peers THEN peers[<<r, from>>] ELSE NoPc

-----------------------------------------------------------------------------
(* Tasks.                                                                  *)

Task(r, from, msg, at, pc) ==
    [robot |-> r, from |-> from, msg |-> msg, at |-> at, pc |-> pc, ans |-> NoMsg]

\* The tasks that a message starts: run_signal_receiver calls each handler of a robot
\* on the route that has subscribed to its pattern.  MeshSignalHandler looks for the
\* session first; a call's VideoPeer takes the message for itself, whoever sent it.
Deliver(from, to, msg) ==
    LET listening(subs) ==
            {q \in Robots \cap Routes[msg.kind][from][to] : subs[q] >= Pattern[msg.kind]}
        first == IF msg.kind = "ice" THEN "add_ice" ELSE "set_remote"
    IN  {Task(q, from, msg, "find", NoPc) : q \in listening(meshSubs)}
        \cup {Task(q, from, msg, first, CallPc(q)) : q \in listening(callSubs)}

\* Task t goes on as u, or ends.
Becomes(t, u) == tasks' = (tasks \ {t}) \cup {u}
Ends(t) == tasks' = tasks \ {t}

-----------------------------------------------------------------------------
(* A process.                                                              *)

\* start_common_subsystems and spawn_video_peer.
Start(r, p) ==
    /\ proc[r] = "off"
    /\ run[r] < MaxRuns[r]
    /\ Cardinality({s \in Robots \X (1..MaxStarts) : s[2] <= run[s[1]]}) < MaxStarts
    /\ proc' = [proc EXCEPT ![r] = "up"]
    /\ run' = [run EXCEPT ![r] = @ + 1]
    /\ peer' = [peer EXCEPT ![r] = p]
    /\ UNCHANGED <<meshSubs, call, callSubs, pcs, peers, captures, tasks, trickled, missed>>

\* run_signaling: one more subscription of the mesh listener's receiver.
MeshSubscribe(r) ==
    /\ Up(r)
    /\ meshSubs[r] < AllPatterns
    /\ meshSubs' = [meshSubs EXCEPT ![r] = @ + 1]
    /\ UNCHANGED <<proc, run, peer, call, callSubs, pcs, peers, captures, tasks, trickled, missed>>

\* VideoPeer::offer: build, create_offer, set_local_description ...
CreateOffer(r) ==
    /\ Up(r)
    /\ peer[r] # NoRobot
    /\ call[r] = "none"
    /\ call' = [call EXCEPT ![r] = "created"]
    /\ pcs' = With(pcs, CallPc(r), [NewPc EXCEPT !.sig = "local", !.gathers = TRUE])
    /\ UNCHANGED <<proc, run, peer, meshSubs, callSubs, peers, captures, tasks, trickled, missed>>

\* ... and publish_offer.  A put may be lost on its way.  One that fails ends the call
\* before it subscribes, as does any other error of VideoPeer::offer: it goes no further.
PublishOffer(r) ==
    /\ Up(r)
    /\ call[r] = "created"
    /\ call' = [call EXCEPT ![r] = "published"]
    /\ \/ /\ tasks' = tasks \cup Deliver(r, peer[r], Msg("offer", CallPc(r), Offer(r)))
          /\ missed' = IF meshSubs[peer[r]] >= Pattern["offer"] THEN missed
                       ELSE missed \cup {Offer(r)}
       \/ /\ missed' = missed \cup {Offer(r)}
          /\ UNCHANGED tasks
    /\ UNCHANGED <<proc, run, peer, meshSubs, callSubs, pcs, peers, captures, trickled>>

\* start_video_with_source: after the offer (and the start of capture, which is
\* detached) come the subscriptions of the call's own receiver.
CallSubscribe(r) ==
    /\ Up(r)
    /\ call[r] = "published"
    /\ callSubs[r] < AllPatterns
    /\ callSubs' = [callSubs EXCEPT ![r] = @ + 1]
    /\ UNCHANGED <<proc, run, peer, meshSubs, call, pcs, peers, captures, tasks, trickled, missed>>

\* The process ends, and its tasks, sessions and subscriptions with it.
Down(r) ==
    /\ proc' = [proc EXCEPT ![r] = "off"]
    /\ meshSubs' = [meshSubs EXCEPT ![r] = 0]
    /\ call' = [call EXCEPT ![r] = "none"]
    /\ callSubs' = [callSubs EXCEPT ![r] = 0]
    /\ pcs' = [pc \in {q \in DOMAIN pcs : q.owner # r} |-> pcs[pc]]
    /\ peers' = [s \in {x \in DOMAIN peers : x[1] # r} |-> peers[s]]
    /\ captures' = {c \in captures : c[1] # r}
    /\ tasks' = {t \in tasks : t.robot # r}
    /\ missed' = missed \cup UNION {{t.msg.offer, Offer(t.from)} : t \in {u \in tasks : u.robot = r}}
    /\ UNCHANGED <<run, peer, trickled>>

\* A subscription of the mesh listener fails (or another subsystem of the process
\* does): Supervisor::await_shutdown.
SubsystemFails(r) ==
    /\ Up(r)
    /\ meshSubs[r] < AllPatterns
    /\ Down(r)

\* run_signal_receiver returns once it has subscribed, the signaling task ends with
\* it, and Supervisor::await_shutdown takes any completion for fatal.
SupervisorExit(r) ==
    /\ Up(r)
    /\ meshSubs[r] = AllPatterns
    /\ Down(r)

-----------------------------------------------------------------------------
(* MeshSignalHandler.                                                      *)

\* Fault: a session answers the first offer of its robot only.
FindPeer_first(t) ==
    /\ t.at = "find"
    /\ IF Session(t.robot, t.from) = NoPc /\ t.msg.kind = "offer"
       THEN Becomes(t, [t EXCEPT !.at = "create"])
       ELSE Ends(t)
    /\ UNCHANGED <<procVars, pcs, peers, captures, trickled, missed>>

\* Fault: a candidate goes to whatever session there is.
FindPeer_any(t) ==
    /\ t.at = "find"
    /\ LET sessions == {Session(t.robot, p) : p \in Robots} \ {NoPc}
       IN  \E pc \in IF t.msg.kind = "ice" THEN sessions ELSE {Session(t.robot, t.from)} :
              IF pc # NoPc
              THEN Becomes(t, [t EXCEPT !.at = IF t.msg.kind = "ice" THEN "add_ice" ELSE "set_remote",
                                        !.pc = pc])
              ELSE IF t.msg.kind = "offer" THEN Becomes(t, [t EXCEPT !.at = "create"])
              ELSE Ends(t)
    /\ UNCHANGED <<procVars, pcs, peers, captures, trickled, missed>>

\* find_peer for an offer; the look-ups of on_answer and on_ice, which drop what has
\* no session.
FindPeer(t) ==
    /\ t.at = "find"
    /\ LET pc == Session(t.robot, t.from)
           then == IF t.msg.kind = "ice" THEN "add_ice" ELSE "set_remote"
       IN  IF pc # NoPc THEN Becomes(t, [t EXCEPT !.at = then, !.pc = pc])
           ELSE IF t.msg.kind = "offer" THEN Becomes(t, [t EXCEPT !.at = "create"])
           ELSE Ends(t)
    /\ UNCHANGED <<procVars, pcs, peers, captures, trickled, missed>>

\* peer_for, outside the lock: VideoPeer::answer builds a PeerConnection, or fails.
CreatePeer(t) ==
    /\ t.at = "create"
    /\ LET pc == AnswerPc(t.robot, t.msg.offer)
       IN  \/ /\ pcs' = With(pcs, pc, NewPc)
              /\ Becomes(t, [t EXCEPT !.at = "insert", !.pc = pc])
              /\ UNCHANGED missed
           \/ /\ Ends(t)
              /\ missed' = missed \cup {t.msg.offer}
              /\ UNCHANGED pcs
    /\ UNCHANGED <<procVars, peers, captures, trickled>>

\* Fault: no second look at the table, the new session replaces the old one.
InsertPeer_replaces(t) ==
    /\ t.at = "insert"
    /\ peers' = With(peers, <<t.robot, t.from>>, t.pc)
    /\ tasks' = (tasks \ {t}) \cup {[t EXCEPT !.at = "set_remote"]}
           \cup (IF t.robot \in Cameras THEN {[t EXCEPT !.at = "capture"]} ELSE {})
    /\ UNCHANGED <<procVars, pcs, captures, trickled, missed>>

\* Fault: the task that lost the race goes on with its own PeerConnection.
InsertPeer_keeps_own(t) ==
    /\ t.at = "insert"
    /\ LET was_new == Session(t.robot, t.from) = NoPc
       IN  /\ peers' = IF was_new THEN With(peers, <<t.robot, t.from>>, t.pc) ELSE peers
           /\ tasks' = (tasks \ {t}) \cup {[t EXCEPT !.at = "set_remote"]}
                  \cup (IF was_new /\ t.robot \in Cameras THEN {[t EXCEPT !.at = "capture"]} ELSE {})
    /\ UNCHANGED <<procVars, pcs, captures, trickled, missed>>

\* Fault: every task that created a PeerConnection starts a capture.
InsertPeer_captures(t) ==
    /\ t.at = "insert"
    /\ LET old == Session(t.robot, t.from)
           pc == IF old = NoPc THEN t.pc ELSE old
       IN  /\ peers' = With(peers, <<t.robot, t.from>>, pc)
           /\ tasks' = (tasks \ {t}) \cup {[t EXCEPT !.at = "set_remote", !.pc = pc]}
                  \cup (IF t.robot \in Cameras THEN {[t EXCEPT !.at = "capture"]} ELSE {})
    /\ UNCHANGED <<procVars, pcs, captures, trickled, missed>>

\* peer_for, under the lock again: the first to come is the session; the other
\* PeerConnection is dropped.  Only a new session starts a capture task.
InsertPeer(t) ==
    /\ t.at = "insert"
    /\ LET old == Session(t.robot, t.from)
           was_new == old = NoPc
           next == [t EXCEPT !.at = "set_remote", !.pc = IF was_new THEN t.pc ELSE old]
       IN  /\ peers' = IF was_new THEN With(peers, <<t.robot, t.from>>, t.pc) ELSE peers
           /\ pcs' = IF was_new THEN pcs ELSE [q \in DOMAIN pcs \ {t.pc} |-> pcs[q]]
           /\ tasks' = (tasks \ {t}) \cup {next}
                  \cup (IF was_new /\ t.robot \in Cameras THEN {[t EXCEPT !.at = "capture"]} ELSE {})
    /\ UNCHANGED <<procVars, captures, trickled, missed>>

\* start_capture, and its handle put into the session; or its failure, logged.
StartCapture(t) ==
    /\ t.at = "capture"
    /\ captures' \in {captures, captures \cup {<<t.robot, t.from, t.msg.offer>>}}
    /\ Ends(t)
    /\ UNCHANGED <<procVars, pcs, peers, trickled, missed>>

-----------------------------------------------------------------------------
(* VideoPeer as SignalHandler.  The webrtc crate refuses what does not fit *)
(* the signaling state; a refusal is logged and ends the task.  Each step  *)
(* may also fail for a reason of its own, which is SignalFails.            *)

\* set_remote_description with the offer or the answer that came in.
SetRemote(t) ==
    /\ t.at = "set_remote"
    /\ LET sig == pcs[t.pc].sig
           fits == IF t.msg.kind = "offer" THEN sig \in {"stable", "remote"} ELSE sig = "local"
           then == IF t.msg.kind = "offer" THEN "remote" ELSE "stable"
       IN  /\ pcs' = IF fits THEN [pcs EXCEPT ![t.pc].sig = then, ![t.pc].remote = t.msg] ELSE pcs
           /\ IF fits /\ t.msg.kind = "offer" THEN Becomes(t, [t EXCEPT !.at = "create_answer"])
              ELSE Ends(t)
    /\ UNCHANGED <<procVars, peers, captures, trickled, missed>>

\* create_answer answers the remote description of that moment.
CreateAnswer(t) ==
    /\ t.at = "create_answer"
    /\ IF pcs[t.pc].sig = "remote"
       THEN Becomes(t, [t EXCEPT !.at = "set_local",
                                 !.ans = Msg("answer", t.pc, pcs[t.pc].remote.offer)])
       ELSE Ends(t)
    /\ UNCHANGED <<procVars, pcs, peers, captures, trickled, missed>>

\* set_local_description; an answer to a description that has been replaced may be
\* refused.
SetLocal(t) ==
    /\ t.at = "set_local"
    /\ \/ /\ pcs[t.pc].sig = "remote"
          /\ pcs' = [pcs EXCEPT ![t.pc].sig = "stable", ![t.pc].gathers = TRUE]
          /\ Becomes(t, [t EXCEPT !.at = "publish"])
       \/ /\ pcs[t.pc].sig # "remote" \/ pcs[t.pc].remote.offer # t.ans.offer
          /\ Ends(t)
          /\ UNCHANGED pcs
    /\ UNCHANGED <<procVars, peers, captures, trickled, missed>>

\* publish_answer, to the sender of the offer.
PublishAnswer(t) ==
    /\ t.at = "publish"
    /\ tasks' = (tasks \ {t}) \cup Deliver(t.robot, t.from, t.ans)
    /\ missed' = IF callSubs[t.from] >= Pattern["answer"] THEN missed
                 ELSE missed \cup {Offer(t.from)}
    /\ UNCHANGED <<procVars, pcs, peers, captures, trickled>>

\* The offers left without an answer when task t fails: of the two that a session may
\* have been answering, and that of the call whose answer came in.
Lost(t) ==
    IF t.msg.kind = "offer" /\ t.pc.for # NoOffer THEN {t.msg.offer, Offer(t.from)}
    ELSE IF t.msg.kind = "answer" /\ t.pc = CallPc(t.robot) THEN {Offer(t.robot)}
    ELSE {}

\* Any other error of a step of on_offer or on_answer: a description that does not
\* parse, an error of set_remote_description, create_answer or set_local_description,
\* or a publish_answer that fails or is lost on its way.  It is logged, the task ends
\* and nothing is tried again.  (An error after the signaling state has changed is the
\* step itself, followed by the failure of the next one.)
SignalFails(t) ==
    /\ t.at \in {"set_remote", "create_answer", "set_local", "publish"}
    /\ Ends(t)
    /\ missed' = missed \cup Lost(t)
    /\ UNCHANGED <<procVars, pcs, peers, captures, trickled>>

\* on_ice_candidate: a PeerConnection with a local description has gathered a
\* candidate, which goes to the robot that it was built for, perhaps before its
\* description does.  One that nobody hears is no step.
PublishIce(pc) ==
    /\ pcs[pc].gathers
    /\ trickled < MaxIce
    /\ trickled' = trickled + 1
    /\ LET to == IF pc.for = NoOffer THEN peer[pc.owner] ELSE pc.for.by
           heard == Deliver(pc.owner, to, Msg("ice", pc, NoOffer))
       IN  heard # {} /\ tasks' = tasks \cup heard
    /\ UNCHANGED <<procVars, pcs, peers, captures, missed>>

\* add_ice_candidate: the webrtc crate takes the candidate if there is a remote
\* description and refuses it if not; neither shows outside.
AddIce(t) ==
    /\ t.at = "add_ice"
    /\ Ends(t)
    /\ UNCHANGED <<procVars, pcs, peers, captures, trickled, missed>>

-----------------------------------------------------------------------------
TaskStep(t) ==
    \/ FindPeer(t) \/ CreatePeer(t) \/ InsertPeer(t) \/ StartCapture(t)
    \/ SetRemote(t) \/ CreateAnswer(t) \/ SetLocal(t) \/ PublishAnswer(t) \/ SignalFails(t)
    \/ AddIce(t)

Next ==
    \/ \E r \in Robots :
          \/ \E p \in PeersOf[r] : Start(r, p)
          \/ MeshSubscribe(r) \/ CreateOffer(r) \/ PublishOffer(r) \/ CallSubscribe(r)
          \/ SubsystemFails(r) \/ SupervisorExit(r)
    \/ \E t \in tasks : TaskStep(t)
    \/ \E pc \in DOMAIN pcs : PublishIce(pc)

Spec == Init /\ [][Next]_vars

-----------------------------------------------------------------------------
\* Only the PeerConnection in the peer table negotiates for the mesh listener:
\* however look-up, creation and insertion of several offers interleave, the
\* one that lost the race is never given an offer.
SessionsNegotiate ==
    \A pc \in DOMAIN pcs :
        pc.for # NoOffer /\ pcs[pc].remote # NoMsg => Session(pc.owner, pc.for.by) = pc

\* Two offers that find no session start one capture pipeline between them.
OneCapture == \A c, d \in captures : c[1] = d[1] /\ c[2] = d[2] => c = d

\* A session lives as long as its process: signaling never replaces it.
SessionsStay ==
    [][\A r, p \in Robots :
         Session(r, p) # NoPc => Session(r, p)' = Session(r, p) \/ proc'[r] = "off"]_vars

\* A robot in its first run is connected to the peer it called and by an answer to
\* its own offer, unless that peer may place a call itself and a third robot call it.
FirstCallAgrees ==
    \A r \in Robots :
        LET pc == CallPc(r)
        IN  /\ run[r] = 1 /\ pc \in DOMAIN pcs /\ pcs[pc].remote.kind = "answer"
            /\ \/ PeersOf[peer[r]] \subseteq {NoRobot}
               \/ \A q \in Robots \ {r} : peer[r] \notin PeersOf[q]
            => pcs[pc].remote.offer = Offer(r) /\ pcs[pc].remote.pc.owner = peer[r]

\* A connection that has a remote description is given no candidate but those of the
\* PeerConnection it negotiates with, whenever the task that has the candidate runs.
\* Three things upset it: a restart of the robot that sent it; a restart of the robot
\* it is for with another peer to call, because the answer of the former one is taken;
\* and a robot that calls and is called, whose call answers offers and takes candidates
\* from everybody.
CandidatesFit ==
    LET crossed(r) == PeersOf[r] \ {NoRobot} # {} /\ \E q \in Robots : r \in PeersOf[q]
    IN  \A t \in tasks :
            t.at = "add_ice" /\ pcs[t.pc].remote # NoMsg
            => \/ pcs[t.pc].remote.pc = t.msg.pc
               \/ run[t.from] > 1
               \/ run[t.robot] > 1 /\ ~(PeersOf[t.robot] \subseteq {t.from, NoRobot})
               \/ crossed(t.from) \/ crossed(t.robot)

\* When nothing is left to do, a call without an answer has one of six causes: its
\* offer or the answer was lost on the way; the mesh listener of its peer had not
\* subscribed to offers or could make no PeerConnection; its process ended; a step of
\* the task that had the offer or the answer failed; or the answer came before the call
\* had subscribed to answers.  No crossing of offers, restarts or refusals is a seventh.
UnansweredHasCause ==
    \A r \in Robots :
        (tasks = {} /\ callSubs[r] = AllPatterns /\ pcs[CallPc(r)].sig = "local") => Offer(r) \in missed

\* What the header of mesh.rs says of the listener, "Always-on WebRTC mesh signaling
\* listener": once it has subscribed, it stays.
AlwaysOn ==
    [][\A r \in Robots : Up(r) /\ meshSubs[r] = AllPatterns => proc'[r] = "up"]_vars
=============================================================================
