-------------------------- MODULE SampleFlowProofs --------------------------
(***************************************************************************)
(* Proofs about the delivery of samples, for any rules and sensors, any    *)
(* capacity of the channel, any number of publications and of subscriber   *)
(* tasks: a lone task keeps the order of its topic and leaves `latest`     *)
(* current, and only lost or overtaken events misplace a robot.            *)
(***************************************************************************)
EXTENDS SampleFlow, SequenceTheorems, TLAPS

-----------------------------------------------------------------------------
(* Sequences by their positions.                                           *)

LEMMA Positions ==
    ASSUME NEW S, NEW s \in Seq(S)
    PROVE  /\ Len(s) \in Nat /\ DOMAIN s = 1..Len(s)
           /\ \A i \in DOMAIN s : s[i] \in S
BY LenProperties, ElementOfSeq

LEMMA TailPositions ==
    ASSUME NEW S, NEW s \in Seq(S), s # <<>>
    PROVE  /\ Len(s) \in Nat \ {0} /\ DOMAIN s = 1..Len(s)
           /\ 1 \in DOMAIN s /\ Head(s) = s[1] /\ Head(s) \in S /\ Tail(s) \in Seq(S)
           /\ DOMAIN Tail(s) = 1..(Len(s) - 1)
           /\ \A i \in DOMAIN Tail(s) : i + 1 \in DOMAIN s /\ Tail(s)[i] = s[i + 1]
<1>1. Len(s) \in Nat \ {0} /\ DOMAIN s = 1..Len(s)
  BY EmptySeq, LenProperties
<1>2. /\ Head(s) \in S /\ Tail(s) \in Seq(S) /\ Len(Tail(s)) = Len(s) - 1
      /\ \A i \in 1..Len(Tail(s)) : Tail(s)[i] = s[i + 1]
  BY HeadTailProperties
<1>3. DOMAIN Tail(s) = 1..(Len(s) - 1)
  BY <1>2, LenProperties
<1>4. Head(s) = s[1]
  OBVIOUS
<1> QED
  BY <1>1, <1>2, <1>3, <1>4

LEMMA AppendPositions ==
    ASSUME NEW S, NEW s \in Seq(S), NEW e \in S
    PROVE  /\ Len(s) \in Nat /\ DOMAIN s = 1..Len(s) /\ Append(s, e) \in Seq(S)
           /\ DOMAIN Append(s, e) = 1..(Len(s) + 1) /\ Append(s, e)[Len(s) + 1] = e
           /\ \A i \in DOMAIN s : i \in DOMAIN Append(s, e) /\ Append(s, e)[i] = s[i]
BY AppendProperties, LenProperties

-----------------------------------------------------------------------------
(* One topic in a pipe of two: the box of its task, then the channel it    *)
(* shares with other topics, then `latest`.                                *)

Boxes(A) == Seq([key : A, n : Nat])
Channels(B) == Seq([topic : B, n : Nat])

LEMMA BoxPositions ==
    ASSUME NEW A, NEW box \in Boxes(A)
    PROVE  /\ Len(box) \in Nat /\ DOMAIN box = 1..Len(box)
           /\ \A i \in DOMAIN box : box[i] \in [key : A, n : Nat] /\ box[i].n \in Nat
<1> DEFINE S == [key : A, n : Nat]
<1>1. box \in Seq(S) /\ \A x \in S : x.n \in Nat
  BY DEF Boxes
<1> HIDE DEF S
<1>2. Len(box) \in Nat /\ DOMAIN box = 1..Len(box) /\ \A i \in DOMAIN box : box[i] \in S
  BY <1>1, Positions
<1> QED
  BY <1>1, <1>2 DEF S

LEMMA BoxTail ==
    ASSUME NEW A, NEW box \in Boxes(A), box # <<>>
    PROVE  /\ Len(box) \in Nat \ {0} /\ 1 \in DOMAIN box /\ Head(box) = box[1]
           /\ Tail(box) \in Boxes(A) /\ DOMAIN Tail(box) = 1..(Len(box) - 1)
           /\ \A i \in DOMAIN Tail(box) : i + 1 \in DOMAIN box /\ Tail(box)[i] = box[i + 1]
<1> DEFINE S == [key : A, n : Nat]
<1>1. box \in Seq(S)
  BY DEF Boxes
<1> HIDE DEF S
<1>2. /\ Len(box) \in Nat \ {0} /\ 1 \in DOMAIN box /\ Head(box) = box[1]
      /\ Tail(box) \in Seq(S) /\ DOMAIN Tail(box) = 1..(Len(box) - 1)
      /\ \A i \in DOMAIN Tail(box) : i + 1 \in DOMAIN box /\ Tail(box)[i] = box[i + 1]
  BY <1>1, TailPositions
<1> QED
  BY <1>2 DEF Boxes, S

LEMMA BoxAppend ==
    ASSUME NEW A, NEW box \in Boxes(A), NEW e \in [key : A, n : Nat]
    PROVE  /\ Append(box, e) \in Boxes(A)
           /\ DOMAIN Append(box, e) = 1..(Len(box) + 1) /\ Append(box, e)[Len(box) + 1] = e
           /\ \A i \in DOMAIN box : i \in DOMAIN Append(box, e) /\ Append(box, e)[i] = box[i]
<1> DEFINE S == [key : A, n : Nat]
<1>1. box \in Seq(S) /\ e \in S
  BY DEF Boxes
<1> HIDE DEF S
<1> QED
  BY <1>1, AppendPositions DEF Boxes, S

LEMMA ChannelPositions ==
    ASSUME NEW B, NEW q \in Channels(B)
    PROVE  /\ Len(q) \in Nat /\ DOMAIN q = 1..Len(q)
           /\ \A i \in DOMAIN q : q[i] \in [topic : B, n : Nat] /\ q[i].n \in Nat
<1> DEFINE S == [topic : B, n : Nat]
<1>1. q \in Seq(S) /\ \A x \in S : x.n \in Nat
  BY DEF Channels
<1> HIDE DEF S
<1>2. Len(q) \in Nat /\ DOMAIN q = 1..Len(q) /\ \A i \in DOMAIN q : q[i] \in S
  BY <1>1, Positions
<1> QED
  BY <1>1, <1>2 DEF S

LEMMA ChannelTail ==
    ASSUME NEW B, NEW q \in Channels(B), q # <<>>
    PROVE  /\ Len(q) \in Nat \ {0} /\ 1 \in DOMAIN q /\ Head(q) = q[1]
           /\ Tail(q) \in Channels(B) /\ DOMAIN Tail(q) = 1..(Len(q) - 1)
           /\ \A i \in DOMAIN Tail(q) : i + 1 \in DOMAIN q /\ Tail(q)[i] = q[i + 1]
<1> DEFINE S == [topic : B, n : Nat]
<1>1. q \in Seq(S)
  BY DEF Channels
<1> HIDE DEF S
<1>2. /\ Len(q) \in Nat \ {0} /\ 1 \in DOMAIN q /\ Head(q) = q[1]
      /\ Tail(q) \in Seq(S) /\ DOMAIN Tail(q) = 1..(Len(q) - 1)
      /\ \A i \in DOMAIN Tail(q) : i + 1 \in DOMAIN q /\ Tail(q)[i] = q[i + 1]
  BY <1>1, TailPositions
<1> QED
  BY <1>2 DEF Channels, S

LEMMA ChannelAppend ==
    ASSUME NEW B, NEW q \in Channels(B), NEW e \in [topic : B, n : Nat]
    PROVE  /\ Append(q, e) \in Channels(B)
           /\ DOMAIN Append(q, e) = 1..(Len(q) + 1) /\ Append(q, e)[Len(q) + 1] = e
           /\ \A i \in DOMAIN q : i \in DOMAIN Append(q, e) /\ Append(q, e)[i] = q[i]
<1> DEFINE S == [topic : B, n : Nat]
<1>1. q \in Seq(S) /\ e \in S
  BY DEF Channels
<1> HIDE DEF S
<1> QED
  BY <1>1, AppendPositions DEF Channels, S

\* What is behind in the pipe is older.
InOrder(t, box, q, last, top) ==
    /\ \A i, j \in DOMAIN box : i < j => box[i].n < box[j].n
    /\ \A i, j \in DOMAIN q : q[i].topic = t /\ q[j].topic = t /\ i < j => q[i].n < q[j].n
    /\ \A i \in DOMAIN q, j \in DOMAIN box : q[i].topic = t => q[i].n < box[j].n
    /\ \A i \in DOMAIN box : last < box[i].n /\ box[i].n <= top
    /\ \A i \in DOMAIN q : q[i].topic = t => last < q[i].n /\ q[i].n <= top
    /\ last <= top

\* The last publication is somewhere in the pipe.
Current(t, box, q, last, top) ==
    \/ last = top
    \/ \E i \in DOMAIN q : q[i].topic = t /\ q[i].n = top
    \/ \E i \in DOMAIN box : box[i].n = top

LEMMA PipePublish ==
    ASSUME NEW A, NEW B, NEW box \in Boxes(A), NEW q \in Channels(B), NEW t,
           NEW last \in Nat, NEW top \in Nat, NEW key \in A,
           InOrder(t, box, q, last, top)
    PROVE  LET new == Append(box, [key |-> key, n |-> top + 1])
           IN  InOrder(t, new, q, last, top + 1) /\ Current(t, new, q, last, top + 1)
<1> DEFINE e == [key |-> key, n |-> top + 1]
<1> DEFINE new == Append(box, e)
<1>1. e \in [key : A, n : Nat] /\ e.n = top + 1
  OBVIOUS
<1> HIDE DEF e
<1>2. /\ Len(box) \in Nat /\ DOMAIN box = 1..Len(box)
      /\ DOMAIN new = 1..(Len(box) + 1) /\ new[Len(box) + 1] = e
      /\ \A i \in 1..Len(box) : new[i] = box[i] /\ box[i].n \in Nat
  BY <1>1, BoxAppend, BoxPositions
<1>3. \A i \in DOMAIN q : q[i].n \in Nat
  BY ChannelPositions
<1> HIDE DEF new
<1>4. InOrder(t, new, q, last, top + 1)
  BY <1>1, <1>2, <1>3 DEF InOrder
<1>5. Current(t, new, q, last, top + 1)
  BY <1>1, <1>2 DEF Current
<1> QED
  BY <1>4, <1>5 DEF new, e

\* The task takes its next sample and sends it, or drops it.
LEMMA PipeForward ==
    ASSUME NEW A, NEW B, NEW box \in Boxes(A), NEW q \in Channels(B), NEW t \in B,
           NEW last \in Nat, NEW top \in Nat, box # <<>>,
           InOrder(t, box, q, last, top)
    PROVE  LET sent == Append(q, [topic |-> t, n |-> Head(box).n])
           IN  /\ InOrder(t, Tail(box), q, last, top)
               /\ InOrder(t, Tail(box), sent, last, top)
               /\ Current(t, box, q, last, top) => Current(t, Tail(box), sent, last, top)
<1> DEFINE e == [topic |-> t, n |-> Head(box).n]
<1> DEFINE sent == Append(q, e)
<1> DEFINE rest == Tail(box)
<1>1. /\ Len(box) \in Nat \ {0} /\ DOMAIN box = 1..Len(box) /\ Head(box) = box[1]
      /\ \A i \in DOMAIN box : box[i].n \in Nat
      /\ DOMAIN rest = 1..(Len(box) - 1)
      /\ \A i \in DOMAIN rest : rest[i] = box[i + 1]
  BY BoxTail, BoxPositions
<1>2. e \in [topic : B, n : Nat] /\ e.topic = t /\ e.n = box[1].n
  BY <1>1
<1> HIDE DEF e, rest
<1>3. /\ Len(q) \in Nat /\ DOMAIN q = 1..Len(q)
      /\ \A i \in DOMAIN q : q[i].n \in Nat /\ sent[i] = q[i]
      /\ DOMAIN sent = 1..(Len(q) + 1) /\ sent[Len(q) + 1] = e
  BY <1>2, ChannelAppend, ChannelPositions
<1> HIDE DEF sent
<1>4. \A i \in DOMAIN rest : i + 1 \in DOMAIN box /\ rest[i] = box[i + 1]
  BY <1>1
<1>5. InOrder(t, rest, q, last, top)
  BY <1>1, <1>3, <1>4 DEF InOrder
<1>6. InOrder(t, rest, sent, last, top)
  <2>1. \A i \in DOMAIN sent : \/ i \in DOMAIN q /\ sent[i] = q[i]
                               \/ i = Len(q) + 1 /\ sent[i].n = box[1].n
    BY <1>2, <1>3
  <2>2. ASSUME NEW i \in DOMAIN sent, NEW j \in DOMAIN sent,
               sent[i].topic = t /\ sent[j].topic = t /\ i < j
        PROVE  sent[i].n < sent[j].n
    <3>1. i \in DOMAIN q /\ sent[i] = q[i]
      BY <1>3, <2>1, <2>2
    <3>2. CASE j \in DOMAIN q /\ sent[j] = q[j]
      BY <2>2, <3>1, <3>2 DEF InOrder
    <3>3. CASE sent[j].n = box[1].n
      BY <1>1, <2>2, <3>1, <3>3 DEF InOrder
    <3> QED
      BY <2>1, <3>2, <3>3
  <2>3. ASSUME NEW i \in DOMAIN sent, NEW j \in DOMAIN rest, sent[i].topic = t
        PROVE  sent[i].n < rest[j].n
    <3>1. CASE i \in DOMAIN q /\ sent[i] = q[i]
      BY <1>5, <2>3, <3>1 DEF InOrder
    <3>2. CASE sent[i].n = box[1].n
      <4>1. 1 < j + 1 /\ j + 1 \in DOMAIN box /\ rest[j] = box[j + 1]
        BY <1>1, <1>4
      <4> QED
        BY <1>1, <3>2, <4>1 DEF InOrder
    <3> QED
      BY <2>1, <3>1, <3>2
  <2>4. \A i \in DOMAIN sent : sent[i].topic = t => last < sent[i].n /\ sent[i].n <= top
    BY <1>1, <2>1 DEF InOrder
  <2> QED
    BY <1>5, <2>2, <2>3, <2>4 DEF InOrder
<1>7. ASSUME Current(t, box, q, last, top) PROVE Current(t, rest, sent, last, top)
  <2>1. CASE last = top
    BY <2>1 DEF Current
  <2>2. ASSUME NEW i \in DOMAIN q, q[i].topic = t /\ q[i].n = top
        PROVE  Current(t, rest, sent, last, top)
    BY <1>3, <2>2 DEF Current
  <2>3. ASSUME NEW i \in DOMAIN box, box[i].n = top
        PROVE  Current(t, rest, sent, last, top)
    <3>1. CASE i = 1
      BY <1>2, <1>3, <2>3, <3>1 DEF Current
    <3>2. CASE i # 1
      <4>1. i - 1 \in DOMAIN rest /\ rest[i - 1] = box[i]
        BY <1>1, <3>2
      <4> QED
        BY <2>3, <4>1 DEF Current
    <3> QED
      BY <3>1, <3>2
  <2> QED
    BY <1>7, <2>1, <2>2, <2>3 DEF Current
<1> QED
  BY <1>5, <1>6, <1>7 DEF rest, sent, e

\* A sample of another topic goes into the channel.
LEMMA PipeOther ==
    ASSUME NEW B, NEW box, NEW q \in Channels(B), NEW t,
           NEW last \in Nat, NEW top \in Nat, NEW e \in [topic : B, n : Nat], e.topic # t,
           InOrder(t, box, q, last, top)
    PROVE  /\ InOrder(t, box, Append(q, e), last, top)
           /\ Current(t, box, q, last, top) => Current(t, box, Append(q, e), last, top)
<1> DEFINE sent == Append(q, e)
<1>1. /\ Len(q) \in Nat /\ DOMAIN q = 1..Len(q)
      /\ \A i \in DOMAIN q : sent[i] = q[i]
      /\ DOMAIN sent = 1..(Len(q) + 1) /\ sent[Len(q) + 1] = e
  BY ChannelAppend, ChannelPositions
<1> HIDE DEF sent
<1>2. /\ \A i \in DOMAIN sent : sent[i].topic = t => i \in DOMAIN q /\ sent[i] = q[i]
      /\ \A i \in DOMAIN q : i \in DOMAIN sent /\ sent[i] = q[i]
  BY <1>1
<1>3. InOrder(t, box, sent, last, top)
  BY <1>2 DEF InOrder
<1>4. Current(t, box, q, last, top) => Current(t, box, sent, last, top)
  BY <1>2 DEF Current
<1> QED
  BY <1>3, <1>4 DEF sent

\* The loop takes the next sample of the channel.
LEMMA PipeIngest ==
    ASSUME NEW A, NEW B, NEW box \in Boxes(A), NEW q \in Channels(B), NEW t,
           NEW last \in Nat, NEW top \in Nat, q # <<>>,
           InOrder(t, box, q, last, top)
    PROVE  LET new == IF Head(q).topic = t THEN Head(q).n ELSE last
           IN  /\ new >= last /\ new \in Nat
               /\ InOrder(t, box, Tail(q), new, top)
               /\ Current(t, box, q, last, top) => Current(t, box, Tail(q), new, top)
<1> DEFINE new == IF Head(q).topic = t THEN Head(q).n ELSE last
<1> DEFINE rest == Tail(q)
<1>1. /\ Len(q) \in Nat \ {0} /\ DOMAIN q = 1..Len(q) /\ Head(q) = q[1]
      /\ \A i \in DOMAIN q : q[i].n \in Nat
      /\ DOMAIN rest = 1..(Len(q) - 1)
      /\ \A i \in DOMAIN rest : rest[i] = q[i + 1]
  BY ChannelTail, ChannelPositions
<1>2. \A i \in DOMAIN box : box[i].n \in Nat
  BY BoxPositions
<1> HIDE DEF rest
<1>3. \A i \in DOMAIN rest : i + 1 \in DOMAIN q /\ rest[i] = q[i + 1]
  BY <1>1
<1>4. new \in Nat /\ new >= last /\ new <= top
  BY <1>1 DEF InOrder
<1>5. \A i \in DOMAIN rest : rest[i].topic = t => new < rest[i].n
  BY <1>1, <1>3 DEF InOrder
<1>6. \A i \in DOMAIN box : new < box[i].n
  BY <1>1, <1>2 DEF InOrder
<1>7. InOrder(t, box, rest, new, top)
  <2> HIDE DEF new
  <2>1. \A i, j \in DOMAIN rest :
           rest[i].topic = t /\ rest[j].topic = t /\ i < j => rest[i].n < rest[j].n
    BY <1>1, <1>3 DEF InOrder
  <2> QED
    BY <1>3, <1>4, <1>5, <1>6, <2>1 DEF InOrder
<1>8. ASSUME Current(t, box, q, last, top) PROVE Current(t, box, rest, new, top)
  <2>1. CASE last = top
    BY <1>4, <2>1 DEF Current
  <2>2. ASSUME NEW i \in DOMAIN q, q[i].topic = t /\ q[i].n = top
        PROVE  Current(t, box, rest, new, top)
    <3>1. CASE i = 1
      BY <1>1, <2>2, <3>1 DEF Current
    <3>2. CASE i # 1
      <4>1. i - 1 \in DOMAIN rest /\ rest[i - 1] = q[i]
        BY <1>1, <3>2
      <4> QED
        BY <2>2, <4>1 DEF Current
    <3> QED
      BY <3>1, <3>2
  <2>3. CASE \E i \in DOMAIN box : box[i].n = top
    BY <2>3 DEF Current
  <2> QED
    BY <1>8, <2>1, <2>2, <2>3 DEF Current
<1> QED
  BY <1>4, <1>7, <1>8 DEF rest

-----------------------------------------------------------------------------
(* Which subscription hears what, and under which name it passes it on.    *)

\* The strings that occur in topics (the provers do not know that a string constant
\* is in STRING).
Segments == STRING \cup Verbs \cup {"zone"}

ZoneKey(verb) == zone_event(ZonePath, verb)
PubKeys == Keys \cup {ZoneKey(verb) : verb \in Verbs}
NameOf(s, key) == IF s.name = <<>> THEN key ELSE s.name

LEMMA NoLegacyRoot == "zone" \notin DOMAIN Hyphened
<1>1. <<"zone", "_", "entered">> \in Table /\ <<"zone", "_", "entered">>[1] = "zone"
  BY DEF Table
<1> QED
  BY <1>1, HyphenedConstants

LEMMA ZonePatternIs ==
    ASSUME NEW verb \in Verbs
    PROVE  zone_pattern(verb) = <<"zone", "*", verb>>
<1> DEFINE p == <<"zone", "*", verb>>
<1>1. canonicalize(p) = p
  BY NoLegacyRoot DEF canonicalize
<1>2. p \in WildTable
  BY DEF WildTable, Verbs
<1>3. Fits(p, p)
  BY DEF Fits
<1>4. is_valid_pattern(p)
  BY <1>2, <1>3 DEF is_valid_pattern
<1>5. \A i \in 2..(Len(p) - 1) : p[i] # ""
  <2>1. Len(p) = 3 /\ p[2] = "*"
    OBVIOUS
  <2> HIDE DEF p
  <2>2. \A i \in 2..(Len(p) - 1) : i = 2
    BY <2>1
  <2>3. "*" # ""
    OBVIOUS
  <2> QED
    BY <2>1, <2>2, <2>3
<1> QED
  BY <1>1, <1>4, <1>5 DEF zone_pattern, Pattern_try_new

LEMMA InSegments == \A s \in Seq(STRING) : s \in Seq(Segments)
<1>1. STRING \subseteq Segments
  BY DEF Segments
<1> QED
  BY <1>1, SeqMonotonic

LEMMA ZoneKeyIs ==
    ASSUME NEW verb \in Verbs
    PROVE  /\ ZoneKey(verb) \in Seq(Segments) /\ Len(ZoneKey(verb)) = Len(ZonePath) + 2
           /\ ZoneKey(verb)[1] = "zone" /\ ZoneKey(verb)[Len(ZoneKey(verb))] = verb
           /\ IsZone(ZoneKey(verb))
           /\ \A i \in 1..Len(ZonePath) : ZoneKey(verb)[i + 1] = ZonePath[i]
<1> DEFINE front == <<"zone">> \o ZonePath
<1> DEFINE key == front \o <<verb>>
<1>0. ZonePath \in Seq(Segments) /\ Len(ZonePath) \in Nat
      /\ <<"zone">> \in Seq(Segments) /\ <<verb>> \in Seq(Segments)
  <2>1. ZonePath \in Seq(Segments)
    BY InSegments, FlowConstants
  <2>2. "zone" \in Segments /\ verb \in Segments
    BY DEF Segments
  <2> QED
    BY <2>1, <2>2, LenProperties
<1>1. /\ front \in Seq(Segments) /\ Len(front) = Len(ZonePath) + 1 /\ front[1] = "zone"
      /\ \A i \in 1..Len(ZonePath) : front[i + 1] = ZonePath[i]
  <2> DEFINE root == <<"zone">>
  <2>1. root \in Seq(Segments) /\ Len(root) = 1 /\ root[1] = "zone"
    BY <1>0
  <2> HIDE DEF root
  <2>2. /\ root \o ZonePath \in Seq(Segments) /\ Len(root \o ZonePath) = Len(root) + Len(ZonePath)
        /\ \A i \in 1..(Len(root) + Len(ZonePath)) : (root \o ZonePath)[i] =
              IF i <= Len(root) THEN root[i] ELSE ZonePath[i - Len(root)]
    BY <1>0, <2>1, ConcatProperties
  <2>3. front = root \o ZonePath
    BY DEF root
  <2> QED
    BY <1>0, <2>1, <2>2, <2>3
<1> HIDE DEF front
<1>2. /\ key \in Seq(Segments) /\ Len(key) = Len(ZonePath) + 2
      /\ \A i \in 1..(Len(ZonePath) + 2) :
            key[i] = IF i <= Len(front) THEN front[i] ELSE <<verb>>[i - Len(front)]
  BY <1>0, <1>1, ConcatProperties
<1> HIDE DEF key
<1>3. key[1] = "zone" /\ key[Len(key)] = verb
  BY <1>0, <1>1, <1>2
<1>4. \A i \in 1..Len(ZonePath) : key[i + 1] = ZonePath[i]
  BY <1>0, <1>1, <1>2
<1>5. canonicalize(key) = key
  BY <1>3, NoLegacyRoot DEF canonicalize
<1>6. ZoneKey(verb) = key
  <2>1. zone_event(ZonePath, verb) = Topic_try_new(key)
    BY DEF zone_event, key, front
  <2>2. Topic_try_new(key) # TopicErr
    BY <2>1, FlowConstants
  <2> QED
    BY <1>5, <2>1, <2>2 DEF ZoneKey, Topic_try_new
<1> QED
  BY <1>2, <1>3, <1>4, <1>6 DEF IsZone

LEMMA TriggerSubIs ==
    ASSUME NEW t \in Triggers
    PROVE  LET s == TriggerSub(t)
           IN  /\ s \in Subs /\ s.name = t /\ t # <<>> /\ t \in Seq(Segments)
               /\ s.pattern = canonicalize(t) /\ is_valid_pattern(canonicalize(t))
<1>1. TriggerSub(t).pattern # TopicErr /\ t \in Seq(Segments) \ {<<>>}
  BY FlowConstants, InSegments
<1>2. TriggerSub(t).pattern = Pattern_try_new(t) /\ TriggerSub(t).name = t
  BY DEF TriggerSub
<1> QED
  BY <1>1, <1>2 DEF Pattern_try_new, Subs

LEMMA SubsAre ==
    ASSUME NEW s \in Subs
    PROVE  \/ \E verb \in Verbs : s.pattern = <<"zone", "*", verb>> /\ s.name = <<>>
           \/ \E t \in Triggers : s = TriggerSub(t) /\ s.name = t /\ t # <<>>
BY ZonePatternIs, TriggerSubIs DEF Subs, ZoneSubs

LEMMA PubKeysAre ==
    ASSUME NEW key \in PubKeys
    PROVE  key \in Seq(Segments) /\ key # <<>> /\ (IsZone(key) <=> key \notin Keys)
<1>1. CASE key \in Keys
  BY <1>1, FlowConstants, InSegments
<1>2. ASSUME NEW verb \in Verbs, key = ZoneKey(verb)
      PROVE  key \in Seq(Segments) /\ key # <<>> /\ IsZone(key)
  <2>1. Len(ZonePath) \in Nat
    BY FlowConstants, LenProperties
  <2> QED
    BY <1>2, <2>1, ZoneKeyIs, EmptySeq
<1> QED
  BY <1>1, <1>2, FlowConstants DEF PubKeys

\* What a subscription to zone events hears is one.
LEMMA ZoneSubHears ==
    ASSUME NEW verb \in Verbs, NEW key, Hears(<<"zone", "*", verb>>, key)
    PROVE  Len(key) = 3 /\ IsZone(key) /\ key[1] = "zone" /\ key[3] = verb
<1> DEFINE p == <<"zone", "*", verb>>
<1>1. Len(p) = 3 /\ p[1] = "zone" /\ p[2] = "*" /\ p[3] = verb /\ verb # "**" /\ verb # "*"
  BY DEF Verbs
<1> HIDE DEF p
<1>2. Hears(p, key)
  BY DEF p
<1>3. Len(key) = 3 /\ \A i \in 1..3 : p[i] \in {"*", key[i]}
  BY <1>1, <1>2 DEF Hears
<1> QED
  BY <1>1, <1>3 DEF IsZone

\* The task of a sensor's topic hears its key and nothing else.
LEMMA SensorHears ==
    ASSUME NEW t \in SensorTriggers, NEW key \in PubKeys
    PROVE  /\ t \in Triggers /\ canonicalize(t) \in Keys
           /\ Hears(TriggerSub(t).pattern, key) <=> key = canonicalize(t)
<1> DEFINE k == canonicalize(t)
<1>1. t \in Triggers /\ k \in Keys
  BY DEF SensorTriggers
<1>2. TriggerSub(t).pattern = k
  BY <1>1, TriggerSubIs
<1>3. k \in Seq(Segments) /\ k # <<>> /\ \A i \in DOMAIN k : k[i] \notin Wild
  BY <1>1, FlowConstants, InSegments
<1> HIDE DEF k
<1>4. Len(k) \in Nat \ {0} /\ DOMAIN k = 1..Len(k) /\ \A i \in 1..Len(k) : k[i] # "*" /\ k[i] # "**"
  BY <1>3, EmptySeq, LenProperties DEF Wild
<1>5. Hears(k, key) <=> Len(key) = Len(k) /\ \A i \in 1..Len(k) : k[i] = key[i]
  BY <1>4 DEF Hears
<1>6. Hears(k, key) <=> key = k
  <2>1. key \in Seq(Segments)
    BY PubKeysAre
  <2>2. Len(key) = Len(k) /\ (\A i \in 1..Len(k) : k[i] = key[i]) => k = key
    BY <1>3, <2>1, SeqEqual
  <2> QED
    BY <1>5, <2>2
<1> QED
  BY <1>1, <1>2, <1>6 DEF k

\* Nobody but the tasks of a sensor's topic forwards under its name.
LEMMA OwnName ==
    ASSUME NEW t \in SensorTriggers, NEW s \in Subs, NEW key \in PubKeys,
           Hears(s.pattern, key), NameOf(s, key) = t
    PROVE  s = TriggerSub(t)
<1>1. ~IsZone(t)
  BY DEF SensorTriggers
<1>2. ASSUME NEW verb \in Verbs, s.pattern = <<"zone", "*", verb>>, s.name = <<>> PROVE FALSE
  BY <1>1, <1>2, ZoneSubHears DEF NameOf
<1> QED
  BY <1>2, SubsAre DEF NameOf

-----------------------------------------------------------------------------
(* The pipes of the sensors' topics.                                       *)

Names == PubKeys \cup Triggers

FlowTyped ==
    /\ pub \in [Keys -> Nat]
    /\ crossings \in Nat
    /\ tasks \in [Subs -> Nat \ {0}]
    /\ inbox \in [Subs -> [1..MaxTasks -> Boxes(PubKeys)]]
    /\ queue \in Channels(Names)
    /\ latest \in [Triggers -> Nat]

\* A task holds what its subscription hears.
BoxesHear ==
    \A s \in Subs, k \in 1..MaxTasks : \A i \in DOMAIN inbox[s][k] :
        Hears(s.pattern, inbox[s][k][i].key)

\* What no task runs for is empty.
BoxesRun == \A s \in Subs, k \in 1..MaxTasks : k > tasks[s] => inbox[s][k] = <<>>

Pipe(t) ==
    LET s == TriggerSub(t)
        top == pub[canonicalize(t)]
    IN  /\ InOrder(t, inbox[s][1], queue, latest[t], top)
        /\ s \notin lost => Current(t, inbox[s][1], queue, latest[t], top)

FInv ==
    /\ FlowTyped /\ BoxesHear /\ BoxesRun
    /\ \A t \in SensorTriggers : tasks[TriggerSub(t)] = 1 => Pipe(t)

LEMMA FirstTask == 1 \in 1..MaxTasks
BY FlowConstants

LEMMA SensorIs ==
    ASSUME NEW t \in SensorTriggers
    PROVE  t \in Triggers /\ t \in Names /\ canonicalize(t) \in Keys /\ TriggerSub(t) \in Subs
           /\ ~IsZone(t)
BY TriggerSubIs DEF SensorTriggers, Names

LEMMA FlowInit == Init => FInv
<1> SUFFICES ASSUME Init PROVE FInv
  OBVIOUS
<1>1. <<>> \in Boxes(PubKeys) /\ <<>> \in Channels(Names) /\ DOMAIN <<>> = {}
  BY EmptySeq, LenProperties DEF Boxes, Channels
<1>2. /\ pub = [k \in Keys |-> 0] /\ crossings = 0 /\ tasks = [s \in Subs |-> 1]
      /\ inbox = [s \in Subs |-> [k \in 1..MaxTasks |-> <<>>]]
      /\ queue = <<>> /\ latest = [t \in Triggers |-> 0]
  BY DEF Init
<1>3. FlowTyped
  BY <1>1, <1>2 DEF FlowTyped
<1>4. \A s \in Subs, k \in 1..MaxTasks : inbox[s][k] = <<>>
  BY <1>2
<1>5. BoxesHear /\ BoxesRun
  BY <1>1, <1>4 DEF BoxesHear, BoxesRun
<1>6. ASSUME NEW t \in SensorTriggers PROVE Pipe(t)
  <2>1. inbox[TriggerSub(t)][1] = <<>> /\ latest[t] = 0 /\ pub[canonicalize(t)] = 0
    BY <1>2, <1>4, SensorIs, FirstTask
  <2>2. InOrder(t, <<>>, <<>>, 0, 0) /\ Current(t, <<>>, <<>>, 0, 0)
    BY <1>1 DEF InOrder, Current
  <2> QED
    BY <1>2, <2>1, <2>2 DEF Pipe
<1> QED
  BY <1>3, <1>5, <1>6 DEF FInv

\* What the bus delivers fits the boxes.
LEMMA Delivered ==
    ASSUME FInv, NEW key \in PubKeys, NEW n \in Nat, Deliver(key, n), tasks' = tasks
    PROVE  /\ inbox' \in [Subs -> [1..MaxTasks -> Boxes(PubKeys)]]
           /\ BoxesHear' /\ BoxesRun'
           /\ \A s \in Subs, k \in 1..MaxTasks :
                 inbox'[s][k] = IF Hears(s.pattern, key) /\ k <= tasks[s]
                                THEN Append(inbox[s][k], [key |-> key, n |-> n]) ELSE inbox[s][k]
<1> DEFINE e == [key |-> key, n |-> n]
<1>1. e \in [key : PubKeys, n : Nat] /\ e.key = key
  OBVIOUS
<1>2. inbox' = [s \in Subs |-> [k \in 1..MaxTasks |->
                  IF Hears(s.pattern, key) /\ k <= tasks[s]
                  THEN Append(inbox[s][k], e) ELSE inbox[s][k]]]
  BY DEF Deliver
<1> HIDE DEF e
<1>3. \A s \in Subs, k \in 1..MaxTasks :
         /\ inbox'[s][k] = IF Hears(s.pattern, key) /\ k <= tasks[s]
                           THEN Append(inbox[s][k], e) ELSE inbox[s][k]
         /\ inbox[s][k] \in Boxes(PubKeys)
  BY <1>2 DEF FInv, FlowTyped
<1>4. \A s \in Subs, k \in 1..MaxTasks : Append(inbox[s][k], e) \in Boxes(PubKeys)
  BY <1>1, <1>3, BoxAppend
<1>5. inbox' \in [Subs -> [1..MaxTasks -> Boxes(PubKeys)]]
  BY <1>2, <1>3, <1>4
<1>6. BoxesHear'
  <2> SUFFICES ASSUME NEW s \in Subs, NEW k \in 1..MaxTasks, NEW i \in DOMAIN inbox'[s][k]
               PROVE  Hears(s.pattern, inbox'[s][k][i].key)
    BY DEF BoxesHear
  <2>1. CASE inbox'[s][k] = inbox[s][k]
    BY <2>1 DEF FInv, BoxesHear
  <2>2. CASE Hears(s.pattern, key) /\ inbox'[s][k] = Append(inbox[s][k], e)
    <3>1. \/ i \in DOMAIN inbox[s][k] /\ inbox'[s][k][i] = inbox[s][k][i]
          \/ inbox'[s][k][i] = e
      BY <1>1, <1>3, <2>2, BoxAppend, BoxPositions
    <3> QED
      BY <1>1, <2>2, <3>1 DEF FInv, BoxesHear
  <2> QED
    BY <1>3, <2>1, <2>2
<1>7. BoxesRun'
  <2> SUFFICES ASSUME NEW s \in Subs, NEW k \in 1..MaxTasks, k > tasks[s]
               PROVE  inbox'[s][k] = <<>>
    BY DEF BoxesRun
  <2>1. ~(k <= tasks[s])
    BY DEF FInv, FlowTyped
  <2> QED
    BY <1>3, <2>1 DEF FInv, BoxesRun
<1> QED
  BY <1>3, <1>5, <1>6, <1>7 DEF e

LEMMA PublishKeeps ==
    ASSUME FInv, NEW key \in Keys, Publish(key)
    PROVE  FInv'
<1>1. /\ pub' = [pub EXCEPT ![key] = @ + 1] /\ Deliver(key, pub'[key])
      /\ UNCHANGED <<crossings, tasks, queue, latest, lost>>
  BY DEF Publish
<1>2. pub' \in [Keys -> Nat] /\ pub'[key] = pub[key] + 1
      /\ pub[key] \in Nat /\ key \in PubKeys
      /\ \A k \in Keys : k # key => pub'[k] = pub[k]
  BY <1>1 DEF FInv, FlowTyped, PubKeys
<1>3. /\ inbox' \in [Subs -> [1..MaxTasks -> Boxes(PubKeys)]] /\ BoxesHear' /\ BoxesRun'
      /\ \A s \in Subs, k \in 1..MaxTasks :
            inbox'[s][k] = IF Hears(s.pattern, key) /\ k <= tasks[s]
                           THEN Append(inbox[s][k], [key |-> key, n |-> pub'[key]])
                           ELSE inbox[s][k]
  BY <1>1, <1>2, Delivered
<1>4. FlowTyped'
  BY <1>1, <1>2, <1>3 DEF FInv, FlowTyped
<1>5. ASSUME NEW t \in SensorTriggers, tasks'[TriggerSub(t)] = 1 PROVE Pipe(t)'
  <2> DEFINE s == TriggerSub(t)
  <2> DEFINE box == inbox[s][1]
  <2>1. Pipe(t) /\ s \in Subs /\ t \in Triggers
    BY <1>1, <1>5, SensorIs DEF FInv
  <2>2. /\ box \in Boxes(PubKeys) /\ queue \in Channels(Names) /\ latest[t] \in Nat
        /\ tasks[s] = 1
    BY <1>1, <1>5, <2>1, FirstTask DEF FInv, FlowTyped
  <2>3. CASE canonicalize(t) = key
    <3>1. inbox'[s][1] = Append(box, [key |-> key, n |-> pub[key] + 1])
      <4>1. Hears(s.pattern, key)
        BY <1>2, <2>3, SensorHears
      <4>2. 1 <= tasks[s] /\ 1 \in 1..MaxTasks
        BY <2>2, FirstTask
      <4> QED
        BY <1>2, <1>3, <2>1, <4>1, <4>2
    <3>2. InOrder(t, box, queue, latest[t], pub[key])
      BY <2>1, <2>3 DEF Pipe
    <3> HIDE DEF box, s
    <3>3. /\ InOrder(t, inbox'[s][1], queue, latest[t], pub[key] + 1)
          /\ Current(t, inbox'[s][1], queue, latest[t], pub[key] + 1)
      BY <1>2, <2>2, <3>1, <3>2, PipePublish
    <3> QED
      BY <1>1, <1>2, <2>3, <3>3 DEF Pipe, s
  <2>4. CASE canonicalize(t) # key
    <3>1. inbox'[s][1] = box /\ pub'[canonicalize(t)] = pub[canonicalize(t)]
      BY <1>2, <1>3, <2>1, <2>4, SensorHears, FirstTask, SensorIs
    <3> QED
      BY <1>1, <2>1, <3>1 DEF Pipe
  <2> QED
    BY <2>3, <2>4
<1> QED
  BY <1>3, <1>4, <1>5 DEF FInv

LEMMA CrossKeeps ==
    ASSUME FInv, Cross
    PROVE  FInv'
<1> DEFINE key == ZoneKey(IF Inside(crossings) THEN "cleared" ELSE "entered")
<1>1. /\ crossings' = crossings + 1 /\ Deliver(key, crossings')
      /\ UNCHANGED <<pub, tasks, queue, latest, lost>>
  BY DEF Cross, ZoneKey
<1>2. crossings' \in Nat /\ key \in PubKeys /\ key \notin Keys
  <2>1. key \in PubKeys /\ IsZone(key)
    BY ZoneKeyIs DEF PubKeys, Verbs
  <2> QED
    BY <1>1, <2>1, PubKeysAre DEF FInv, FlowTyped
<1> HIDE DEF key
<1>3. /\ inbox' \in [Subs -> [1..MaxTasks -> Boxes(PubKeys)]] /\ BoxesHear' /\ BoxesRun'
      /\ \A s \in Subs, k \in 1..MaxTasks :
            inbox'[s][k] = IF Hears(s.pattern, key) /\ k <= tasks[s]
                           THEN Append(inbox[s][k], [key |-> key, n |-> crossings'])
                           ELSE inbox[s][k]
  BY <1>1, <1>2, Delivered
<1>4. FlowTyped'
  BY <1>1, <1>2, <1>3 DEF FInv, FlowTyped
<1>5. ASSUME NEW t \in SensorTriggers, tasks'[TriggerSub(t)] = 1 PROVE Pipe(t)'
  <2>1. Pipe(t) /\ TriggerSub(t) \in Subs
    BY <1>1, <1>5, SensorIs DEF FInv
  <2>2. inbox'[TriggerSub(t)][1] = inbox[TriggerSub(t)][1]
    BY <1>2, <1>3, <2>1, SensorHears, FirstTask
  <2> QED
    BY <1>1, <2>1, <2>2 DEF Pipe
<1> QED
  BY <1>3, <1>4, <1>5 DEF FInv

\* What a task forwards, and as what.
Forwarded(s, k) == [topic |-> NameOf(s, Head(inbox[s][k]).key), n |-> Head(inbox[s][k]).n]

LEMMA ForwardFacts ==
    ASSUME FInv, NEW s \in Subs, NEW k \in 1..MaxTasks, Forward(s, k)
    PROVE  LET x == Head(inbox[s][k])
               e == Forwarded(s, k)
           IN  /\ inbox[s][k] \in Boxes(PubKeys) /\ inbox[s][k] # <<>>
               /\ x \in [key : PubKeys, n : Nat] /\ x = inbox[s][k][1] /\ Hears(s.pattern, x.key)
               /\ e \in [topic : Names, n : Nat] /\ e.topic = NameOf(s, x.key) /\ e.n = x.n
               /\ \/ queue' = Append(queue, e) /\ lost' = lost
                  \/ queue' = queue /\ lost' = lost \cup {s}
               /\ inbox' = [inbox EXCEPT ![s][k] = Tail(inbox[s][k])]
               /\ UNCHANGED <<pub, crossings, tasks, latest, zones>>
<1> DEFINE x == Head(inbox[s][k])
<1> DEFINE e == Forwarded(s, k)
<1>1. inbox[s][k] \in Boxes(PubKeys) /\ inbox[s][k] # <<>>
  BY DEF FInv, FlowTyped, Forward
<1>2. x \in [key : PubKeys, n : Nat] /\ x = inbox[s][k][1] /\ 1 \in DOMAIN inbox[s][k]
  BY <1>1, BoxTail, BoxPositions
<1>3. Hears(s.pattern, x.key)
  BY <1>2 DEF FInv, BoxesHear
<1>4. NameOf(s, x.key) \in Names
  <2>1. x.key \in PubKeys
    BY <1>2
  <2>2. s.name = <<>> \/ s.name \in Triggers
    BY SubsAre
  <2> QED
    BY <2>1, <2>2 DEF NameOf, Names
<1>5. e \in [topic : Names, n : Nat] /\ e.topic = NameOf(s, x.key) /\ e.n = x.n
  BY <1>2, <1>4 DEF Forwarded
<1>6. /\ \/ queue' = Append(queue, e) /\ lost' = lost
         \/ queue' = queue /\ lost' = lost \cup {s}
      /\ inbox' = [inbox EXCEPT ![s][k] = Tail(inbox[s][k])]
      /\ UNCHANGED <<pub, crossings, tasks, latest, zones>>
  BY DEF Forward, Forwarded, NameOf
<1> QED
  BY <1>1, <1>2, <1>3, <1>5, <1>6

\* The boxes after a task has taken a sample.
LEMMA ForwardBoxes ==
    ASSUME FInv, NEW s \in Subs, NEW k \in 1..MaxTasks, Forward(s, k)
    PROVE  /\ inbox' \in [Subs -> [1..MaxTasks -> Boxes(PubKeys)]]
           /\ inbox'[s][k] = Tail(inbox[s][k])
           /\ \A r \in Subs, j \in 1..MaxTasks :
                 <<r, j>> # <<s, k>> => inbox'[r][j] = inbox[r][j]
           /\ BoxesHear' /\ BoxesRun'
<1>1. /\ inbox[s][k] \in Boxes(PubKeys) /\ inbox[s][k] # <<>>
      /\ inbox' = [inbox EXCEPT ![s][k] = Tail(inbox[s][k])] /\ tasks' = tasks
  BY ForwardFacts
<1>2. /\ Tail(inbox[s][k]) \in Boxes(PubKeys)
      /\ \A i \in DOMAIN Tail(inbox[s][k]) :
            i + 1 \in DOMAIN inbox[s][k] /\ Tail(inbox[s][k])[i] = inbox[s][k][i + 1]
  BY <1>1, BoxTail
<1>3. inbox \in [Subs -> [1..MaxTasks -> Boxes(PubKeys)]]
  BY DEF FInv, FlowTyped
<1>4. /\ inbox' \in [Subs -> [1..MaxTasks -> Boxes(PubKeys)]]
      /\ inbox'[s][k] = Tail(inbox[s][k])
      /\ \A r \in Subs, j \in 1..MaxTasks : r # s \/ j # k => inbox'[r][j] = inbox[r][j]
  BY <1>1, <1>2, <1>3
<1>5. BoxesHear'
  <2> SUFFICES ASSUME NEW r \in Subs, NEW j \in 1..MaxTasks, NEW i \in DOMAIN inbox'[r][j]
               PROVE  Hears(r.pattern, inbox'[r][j][i].key)
    BY DEF BoxesHear
  <2>1. CASE r = s /\ j = k
    <3>1. i + 1 \in DOMAIN inbox[s][k] /\ inbox'[r][j][i] = inbox[s][k][i + 1]
      BY <1>2, <1>4, <2>1
    <3>2. Hears(s.pattern, inbox[s][k][i + 1].key)
      BY <3>1 DEF FInv, BoxesHear
    <3> QED
      BY <2>1, <3>1, <3>2
  <2>2. CASE r # s \/ j # k
    BY <1>4, <2>2 DEF FInv, BoxesHear
  <2> QED
    BY <2>1, <2>2
<1>6. BoxesRun'
  <2> SUFFICES ASSUME NEW r \in Subs, NEW j \in 1..MaxTasks, j > tasks[r]
               PROVE  inbox'[r][j] = <<>>
    BY <1>1 DEF BoxesRun
  <2>1. inbox[r][j] = <<>>
    BY DEF FInv, BoxesRun
  <2> QED
    BY <1>1, <1>4, <2>1
<1> QED
  BY <1>4, <1>5, <1>6

LEMMA ForwardKeeps ==
    ASSUME FInv, NEW s \in Subs, NEW k \in 1..MaxTasks, Forward(s, k)
    PROVE  FInv'
<1> DEFINE x == Head(inbox[s][k])
<1> DEFINE e == Forwarded(s, k)
<1>1. /\ inbox[s][k] \in Boxes(PubKeys) /\ inbox[s][k] # <<>>
      /\ x \in [key : PubKeys, n : Nat] /\ x = inbox[s][k][1] /\ Hears(s.pattern, x.key)
      /\ e \in [topic : Names, n : Nat] /\ e.topic = NameOf(s, x.key) /\ e.n = x.n
      /\ \/ queue' = Append(queue, e) /\ lost' = lost
         \/ queue' = queue /\ lost' = lost \cup {s}
      /\ UNCHANGED <<pub, crossings, tasks, latest, zones>>
  BY ForwardFacts
<1>2. /\ inbox' \in [Subs -> [1..MaxTasks -> Boxes(PubKeys)]] /\ BoxesHear' /\ BoxesRun'
      /\ inbox'[s][k] = Tail(inbox[s][k])
      /\ \A r \in Subs, j \in 1..MaxTasks : <<r, j>> # <<s, k>> => inbox'[r][j] = inbox[r][j]
  BY ForwardBoxes
<1>0. e = [topic |-> NameOf(s, x.key), n |-> x.n]
  BY DEF Forwarded
<1> HIDE DEF e
<1>3. FlowTyped'
  <2>1. queue \in Channels(Names)
    BY DEF FInv, FlowTyped
  <2>2. Append(queue, e) \in Channels(Names)
    BY <1>1, <2>1, ChannelAppend
  <2> QED
    BY <1>1, <1>2, <2>1, <2>2 DEF FInv, FlowTyped
<1>4. ASSUME NEW t \in SensorTriggers, tasks'[TriggerSub(t)] = 1 PROVE Pipe(t)'
  <2> DEFINE S == TriggerSub(t)
  <2> DEFINE box == inbox[S][1]
  <2> DEFINE top == pub[canonicalize(t)]
  <2>1. Pipe(t) /\ S \in Subs /\ t \in Triggers /\ t \in Names /\ tasks[S] = 1
    BY <1>1, <1>4, SensorIs DEF FInv
  <2>2. /\ box \in Boxes(PubKeys) /\ queue \in Channels(Names)
        /\ latest[t] \in Nat /\ top \in Nat
    BY <2>1, FirstTask, SensorIs DEF FInv, FlowTyped
  <2>3. /\ InOrder(t, box, queue, latest[t], top)
        /\ S \notin lost => Current(t, box, queue, latest[t], top)
    BY <2>1 DEF Pipe
  <2>4. CASE s = S
    <3>1. k = 1
      <4>1. ~(k > tasks[S])
        BY <1>1, <2>4 DEF FInv, BoxesRun
      <4> QED
        BY <2>1, <4>1
    <3>2. e = [topic |-> t, n |-> Head(box).n]
      BY <1>0, <2>1, <2>4, <3>1, TriggerSubIs DEF NameOf
    <3>3. box # <<>> /\ inbox'[S][1] = Tail(box)
      BY <1>1, <1>2, <2>4, <3>1
    <3> HIDE DEF box, top, S
    <3>4. /\ InOrder(t, Tail(box), queue, latest[t], top)
          /\ InOrder(t, Tail(box), Append(queue, e), latest[t], top)
          /\ Current(t, box, queue, latest[t], top)
               => Current(t, Tail(box), Append(queue, e), latest[t], top)
      BY <2>1, <2>2, <2>3, <3>2, <3>3, PipeForward
    <3>5. /\ InOrder(t, inbox'[S][1], queue', latest[t], top)
          /\ S \notin lost' => Current(t, inbox'[S][1], queue', latest[t], top)
      BY <1>1, <2>3, <2>4, <3>3, <3>4
    <3> QED
      BY <1>1, <3>5 DEF Pipe, S, top
  <2>5. CASE s # S
    <3>1. e.topic # t
      BY <1>1, <2>5, OwnName
    <3>2. inbox'[S][1] = box
      <4>1. <<S, 1>> # <<s, k>>
        BY <2>5
      <4> QED
        BY <1>2, <2>1, <4>1, FirstTask
    <3> HIDE DEF box, top, S
    <3>3. /\ InOrder(t, box, Append(queue, e), latest[t], top)
          /\ Current(t, box, queue, latest[t], top)
               => Current(t, box, Append(queue, e), latest[t], top)
      BY <1>1, <2>2, <2>3, <3>1, PipeOther
    <3>4. /\ InOrder(t, inbox'[S][1], queue', latest[t], top)
          /\ S \notin lost' => Current(t, inbox'[S][1], queue', latest[t], top)
      BY <1>1, <2>3, <3>2, <3>3
    <3> QED
      BY <1>1, <3>4 DEF Pipe, S, top
  <2> QED
    BY <2>4, <2>5
<1> QED
  BY <1>2, <1>3, <1>4 DEF FInv

LEMMA IngestKeeps ==
    ASSUME FInv, Ingest
    PROVE  /\ FInv'
           /\ \A t \in SensorTriggers : tasks[TriggerSub(t)] = 1 => latest'[t] >= latest[t]
<1> DEFINE e == Head(queue)
<1>1. /\ queue # <<>> /\ queue' = Tail(queue)
      /\ UNCHANGED <<pub, crossings, tasks, inbox, lost, overtaken>>
      /\ latest' = IF IsZone(e.topic) THEN latest ELSE [latest EXCEPT ![e.topic] = e.n]
  BY DEF Ingest, ingest
<1>2. queue \in Channels(Names) /\ latest \in [Triggers -> Nat]
  BY DEF FInv, FlowTyped
<1>3. Tail(queue) \in Channels(Names) /\ e \in [topic : Names, n : Nat]
  BY <1>1, <1>2, ChannelTail, ChannelPositions
<1> HIDE DEF e
<1>4. latest' \in [Triggers -> Nat]
  BY <1>1, <1>2, <1>3
<1>5. FlowTyped' /\ BoxesHear' /\ BoxesRun'
  BY <1>1, <1>3, <1>4 DEF FInv, FlowTyped, BoxesHear, BoxesRun
<1>6. ASSUME NEW t \in SensorTriggers, tasks[TriggerSub(t)] = 1
      PROVE  Pipe(t)' /\ latest'[t] >= latest[t]
  <2> DEFINE box == inbox[TriggerSub(t)][1]
  <2> DEFINE top == pub[canonicalize(t)]
  <2> DEFINE new == IF Head(queue).topic = t THEN Head(queue).n ELSE latest[t]
  <2>1. Pipe(t) /\ t \in Triggers /\ ~IsZone(t)
    BY <1>6, SensorIs DEF FInv
  <2>2. /\ box \in Boxes(PubKeys) /\ latest[t] \in Nat /\ top \in Nat
    BY FirstTask, SensorIs DEF FInv, FlowTyped
  <2>3. /\ InOrder(t, box, queue, latest[t], top)
        /\ TriggerSub(t) \notin lost => Current(t, box, queue, latest[t], top)
    BY <2>1 DEF Pipe
  <2>4. latest'[t] = new
    BY <1>1, <1>2, <2>1 DEF e
  <2> HIDE DEF box, top
  <2>5. /\ new >= latest[t] /\ InOrder(t, box, Tail(queue), new, top)
        /\ Current(t, box, queue, latest[t], top) => Current(t, box, Tail(queue), new, top)
    BY <1>1, <1>2, <2>2, <2>3, PipeIngest
  <2> HIDE DEF new
  <2>6. /\ InOrder(t, box, queue', latest'[t], top)
        /\ TriggerSub(t) \notin lost' => Current(t, box, queue', latest'[t], top)
    BY <1>1, <2>3, <2>4, <2>5
  <2> QED
    BY <1>1, <2>4, <2>5, <2>6 DEF Pipe, box, top
<1> QED
  BY <1>1, <1>5, <1>6 DEF FInv

LEMMA ResubscribeKeeps ==
    ASSUME FInv, NEW t \in Triggers, Resubscribe(t)
    PROVE  FInv'
<1>1. /\ tasks' = [tasks EXCEPT ![TriggerSub(t)] = @ + 1] /\ TriggerSub(t) \in Subs
      /\ UNCHANGED <<pub, crossings, inbox, queue, latest, lost>>
  BY TriggerSubIs DEF Resubscribe
<1>2. tasks' \in [Subs -> Nat \ {0}] /\ \A s \in Subs : tasks'[s] >= tasks[s]
  BY <1>1 DEF FInv, FlowTyped
<1>3. FlowTyped'
  BY <1>1, <1>2 DEF FInv, FlowTyped
<1>4. BoxesHear'
  BY <1>1 DEF FInv, BoxesHear
<1>5. BoxesRun'
  <2> SUFFICES ASSUME NEW s \in Subs, NEW k \in 1..MaxTasks, k > tasks'[s]
               PROVE  inbox[s][k] = <<>>
    BY <1>1 DEF BoxesRun
  <2>1. k > tasks[s]
    BY <1>2 DEF FInv, FlowTyped
  <2> QED
    BY <2>1 DEF FInv, BoxesRun
<1>6. ASSUME NEW u \in SensorTriggers, tasks'[TriggerSub(u)] = 1 PROVE Pipe(u)'
  <2>1. tasks[TriggerSub(u)] = 1
    BY <1>2, <1>6, SensorIs DEF FInv, FlowTyped
  <2> QED
    BY <1>1, <2>1 DEF FInv, Pipe
<1> QED
  BY <1>3, <1>4, <1>5, <1>6 DEF FInv

LEMMA FlowStep == FInv /\ [Next]_vars => FInv'
<1> SUFFICES ASSUME FInv, [Next]_vars PROVE FInv'
  OBVIOUS
<1>1. CASE UNCHANGED vars
  BY <1>1 DEF vars, FInv, FlowTyped, BoxesHear, BoxesRun, Pipe
<1> QED
  BY <1>1, PublishKeeps, CrossKeeps, ForwardKeeps, IngestKeeps, ResubscribeKeeps DEF Next

-----------------------------------------------------------------------------
\* A topic with one subscriber task is ingested in publication order (engine.rs,
\* subscribe_to_topics and the sample arm): `latest` never goes back, whatever other
\* tasks send into the same channel and whatever it drops.
THEOREM LoneTaskOrder == Spec => LoneTaskKeepsOrder
<1>1. ASSUME FInv, [Next]_vars
      PROVE  [\A t \in SensorTriggers :
                tasks[TriggerSub(t)] = 1 => latest'[t] >= latest[t]]_vars
  <2>1. CASE latest' = latest
    <3>1. \A t \in SensorTriggers : latest[t] \in Nat
      BY <1>1, SensorIs DEF FInv, FlowTyped
    <3> QED
      BY <2>1, <3>1
  <2>2. CASE Ingest
    BY <1>1, <2>2, IngestKeeps
  <2> QED
    BY <1>1, <2>1, <2>2 DEF Next, vars, Publish, Cross, Forward, Resubscribe
<1> QED
  BY <1>1, FlowInit, FlowStep, PTL DEF Spec, LoneTaskKeepsOrder

\* Once its samples are drained, such a topic has its last publication in `latest`,
\* unless the full channel dropped one of them.
THEOREM DrainedTopicsAreCurrent == Spec => []DrainedIsCurrent
<1>1. FInv => DrainedIsCurrent
  <2> SUFFICES ASSUME FInv, NEW t \in SensorTriggers, ~InFlight(t), TriggerSub(t) \notin lost,
                      tasks[TriggerSub(t)] = 1
               PROVE  latest[t] = pub[canonicalize(t)]
    BY DEF DrainedIsCurrent
  <2>1. inbox[TriggerSub(t)][1] = <<>> /\ \A i \in DOMAIN queue : queue[i].topic # t
    BY FirstTask DEF InFlight, Waiting
  <2>2. Current(t, <<>>, queue, latest[t], pub[canonicalize(t)])
    BY <2>1 DEF FInv, Pipe
  <2>3. DOMAIN <<>> = {}
    BY EmptySeq, LenProperties
  <2> QED
    BY <2>1, <2>2, <2>3 DEF Current
<1> QED
  BY <1>1, FlowInit, FlowStep, PTL DEF Spec

-----------------------------------------------------------------------------
(* Zone events.                                                            *)

\* The rules that are triggered by zone events name their zone.
ZonesAreNamed == Len(ZonePath) = 1 /\ \A t \in Triggers : IsZone(t) => t[2] # "*"

GoodShape(s) ==
    /\ Len(s) \in Nat /\ Len(s) >= 2 /\ 1 \in DOMAIN s /\ Len(s) \in DOMAIN s
    /\ s[1] \notin {"_", "*"}
    /\ s[1] = "zone" => s[Len(s)] \in Verbs

LEMMA Shapes == \A shape \in WildTable \cup Table : GoodShape(shape)
<1>1. ASSUME NEW a, NEW b, a \notin {"_", "*", "zone"} PROVE GoodShape(<<a, b>>)
  <2> DEFINE s == <<a, b>>
  <2>1. Len(s) = 2 /\ 1 \in DOMAIN s /\ 2 \in DOMAIN s
    OBVIOUS
  <2>2. s[1] = a /\ s[2] = b
    OBVIOUS
  <2> HIDE DEF s
  <2>3. Len(s) \in Nat /\ Len(s) >= 2
    BY <2>1
  <2>4. Len(s) \in DOMAIN s
    BY <2>1
  <2>5. s[1] \notin {"_", "*"} /\ (s[1] = "zone" => s[Len(s)] \in Verbs)
    BY <1>1, <2>1, <2>2
  <2>6. GoodShape(s)
    BY <2>1, <2>3, <2>4, <2>5, Zenon DEF GoodShape
  <2> QED
    BY <2>6 DEF s
<1>2. ASSUME NEW a, NEW b, NEW c, a \notin {"_", "*"}, a = "zone" => c \in Verbs
      PROVE  GoodShape(<<a, b, c>>)
  <2> DEFINE s == <<a, b, c>>
  <2>1. Len(s) = 3 /\ 1 \in DOMAIN s /\ 3 \in DOMAIN s
    OBVIOUS
  <2>2. s[1] = a /\ s[3] = c
    OBVIOUS
  <2> HIDE DEF s
  <2>3. Len(s) \in Nat /\ Len(s) >= 2
    BY <2>1
  <2>4. Len(s) \in DOMAIN s
    BY <2>1
  <2>5. s[1] \notin {"_", "*"} /\ (s[1] = "zone" => s[Len(s)] \in Verbs)
    BY <1>2, <2>1, <2>2
  <2>6. GoodShape(s)
    BY <2>1, <2>3, <2>4, <2>5, Zenon DEF GoodShape
  <2> QED
    BY <2>6 DEF s
<1>3. ASSUME NEW a, NEW b, NEW c, NEW d, a \notin {"_", "*", "zone"}
      PROVE  GoodShape(<<a, b, c, d>>)
  <2> DEFINE s == <<a, b, c, d>>
  <2>1. Len(s) = 4 /\ 1 \in DOMAIN s /\ 4 \in DOMAIN s
    OBVIOUS
  <2>2. s[1] = a /\ s[4] = d
    OBVIOUS
  <2> HIDE DEF s
  <2>3. Len(s) \in Nat /\ Len(s) >= 2
    BY <2>1
  <2>4. Len(s) \in DOMAIN s
    BY <2>1
  <2>5. s[1] \notin {"_", "*"} /\ (s[1] = "zone" => s[Len(s)] \in Verbs)
    BY <1>3, <2>1, <2>2
  <2>6. GoodShape(s)
    BY <2>1, <2>3, <2>4, <2>5, Zenon DEF GoodShape
  <2> QED
    BY <2>6 DEF s
<1>4. ASSUME NEW a, NEW b, NEW c, NEW d, NEW e, a \notin {"_", "*"}, a = "zone" => e \in Verbs
      PROVE  GoodShape(<<a, b, c, d, e>>)
  <2> DEFINE s == <<a, b, c, d, e>>
  <2>1. Len(s) = 5 /\ 1 \in DOMAIN s /\ 5 \in DOMAIN s
    OBVIOUS
  <2>2. s[1] = a /\ s[5] = e
    OBVIOUS
  <2> HIDE DEF s
  <2>3. Len(s) \in Nat /\ Len(s) >= 2
    BY <2>1
  <2>4. Len(s) \in DOMAIN s
    BY <2>1
  <2>5. s[1] \notin {"_", "*"} /\ (s[1] = "zone" => s[Len(s)] \in Verbs)
    BY <1>4, <2>1, <2>2
  <2>6. GoodShape(s)
    BY <2>1, <2>3, <2>4, <2>5, Zenon DEF GoodShape
  <2> QED
    BY <2>6 DEF s
<1>5. "entered" \in Verbs /\ "cleared" \in Verbs
  BY DEF Verbs
<1>6. /\ GoodShape(<<"robot", "_", "local", "_">>)
      /\ GoodShape(<<"robot", "_", "location", "_">>)
      /\ GoodShape(<<"robot", "_", "signal", "presence">>)
      /\ GoodShape(<<"robot", "_", "client", "liveliness">>)
      /\ GoodShape(<<"fleet", "registration", "response", "_">>)
      /\ GoodShape(<<"fleet", "deregistration", "response", "_">>)
      /\ GoodShape(<<"fleet", "alerts", "heartbeat", "_">>)
      /\ GoodShape(<<"fleet", "_", "ruleset", "_">>)
      /\ GoodShape(<<"robot", "*", "client", "liveliness">>)
      /\ GoodShape(<<"robot", "*", "signal", "presence">>)
      /\ GoodShape(<<"fleet", "*", "ruleset", "**">>)
  BY <1>3
<1>7. /\ GoodShape(<<"robot", "_", "signal", "_", "_">>)
      /\ GoodShape(<<"robot", "*", "signal", "_", "offer">>)
      /\ GoodShape(<<"robot", "*", "signal", "_", "answer">>)
      /\ GoodShape(<<"robot", "*", "signal", "_", "ice">>)
      /\ GoodShape(<<"zone", "_", "_", "_", "entered">>)
      /\ GoodShape(<<"zone", "_", "_", "_", "cleared">>)
      /\ GoodShape(<<"zone", "*", "*", "*", "entered">>)
      /\ GoodShape(<<"zone", "*", "*", "*", "cleared">>)
  BY <1>4, <1>5
<1>8. /\ GoodShape(<<"robot", "_", "zone">>)
      /\ GoodShape(<<"robot", "_", "site">>)
      /\ GoodShape(<<"stop", "_", "cmd">>)
      /\ GoodShape(<<"lidar", "_", "scan">>)
      /\ GoodShape(<<"zone", "_", "entered">>)
      /\ GoodShape(<<"zone", "_", "cleared">>)
      /\ GoodShape(<<"zone", "*", "entered">>)
      /\ GoodShape(<<"zone", "*", "cleared">>)
  BY <1>2, <1>5
<1>9. /\ GoodShape(<<"fleet", "registration">>)
      /\ GoodShape(<<"fleet", "deregistration">>)
      /\ GoodShape(<<"sensor", "_">>)
      /\ GoodShape(<<"actuator", "_">>)
  BY <1>1
<1>10. \A shape \in WildTable : GoodShape(shape)
  BY <1>6, <1>7, <1>8, Zenon DEF WildTable
<1>11. \A shape \in Table : GoodShape(shape)
  BY <1>6, <1>7, <1>8, <1>9, Zenon DEF Table
<1> QED
  BY <1>10, <1>11

\* A trigger topic of the table: where a pattern may start and end.
LEMMA PatternShape ==
    ASSUME NEW t \in Triggers
    PROVE  LET c == canonicalize(t)
           IN  /\ Len(c) >= 2 /\ Len(c) \in Nat /\ c[1] # "*"
               /\ c[1] = "zone" => c[Len(c)] \in Verbs
               /\ c[1] = "zone" \/ t[1] = "zone" => t = c
<1> DEFINE c == canonicalize(t)
<1>0. is_valid_pattern(c) /\ t \in Seq(Segments) /\ t # <<>>
  BY TriggerSubIs
<1>1. CASE t[1] \in DOMAIN Hyphened
  <2> DEFINE S == Segments \cup {"robot", Hyphened[t[1]]}
  <2> DEFINE front == <<"robot", Hyphened[t[1]]>>
  <2>1. Tail(t) \in Seq(S)
    <3>1. Tail(t) \in Seq(Segments)
      BY <1>0, HeadTailProperties
    <3>2. Segments \subseteq S
      OBVIOUS
    <3> QED
      BY <3>1, <3>2, SeqMonotonic
  <2>2. front \in Seq(S) /\ Len(front) = 2 /\ front[1] = "robot"
    OBVIOUS
  <2> HIDE DEF S
  <2>3. c = front \o Tail(t)
    BY <1>1 DEF canonicalize
  <2> HIDE DEF front, c
  <2>4. Len(c) = 2 + Len(Tail(t)) /\ Len(Tail(t)) \in Nat
    <3>1. Len(front \o Tail(t)) = Len(front) + Len(Tail(t))
      BY <2>1, <2>2, ConcatProperties
    <3> QED
      BY <2>1, <2>2, <2>3, <3>1, LenProperties
  <2>5. c[1] = "robot"
    <3>1. 1 \in 1..(Len(front) + Len(Tail(t))) /\ 1 <= Len(front)
      BY <2>2, <2>4
    <3> QED
      BY <2>1, <2>2, <2>3, <3>1, ConcatProperties
  <2>6. t[1] # "zone"
    BY <1>1, NoLegacyRoot
  <2> QED
    BY <2>4, <2>5, <2>6 DEF c
<1>2. CASE t[1] \notin DOMAIN Hyphened
  <2>1. c = t
    BY <1>2 DEF canonicalize
  <2>2. Len(t) \in Nat /\ DOMAIN t = 1..Len(t)
    BY <1>0, LenProperties
  <2>3. PICK shape \in WildTable \cup Table : Fits(shape, t) /\ t[1] # "*"
    <3>1. CASE \E shape \in WildTable : Fits(shape, t)
      <4>1. PICK shape \in WildTable : Fits(shape, t)
        BY <3>1
      <4>2. shape[1] \notin {"_", "*"} /\ 1 \in DOMAIN shape
        <5>1. GoodShape(shape)
          BY Shapes
        <5> QED
          BY <5>1 DEF GoodShape
      <4> QED
        BY <4>1, <4>2 DEF Fits
    <3>2. CASE (\A i \in DOMAIN t : t[i] \notin Wild) /\ matches_one_of(t)
      <4>1. 1 \in DOMAIN t
        BY <1>0, <2>2, EmptySeq
      <4> QED
        BY <3>2, <4>1 DEF Wild, matches_one_of
    <3> QED
      BY <1>0, <2>1, <3>1, <3>2 DEF is_valid_pattern
  <2>4. /\ Len(shape) \in Nat /\ Len(shape) >= 2
        /\ 1 \in DOMAIN shape /\ Len(shape) \in DOMAIN shape
        /\ shape[1] # "_"
        /\ shape[1] = "zone" => shape[Len(shape)] \in Verbs
    BY Shapes DEF GoodShape
  <2>5. "_" \notin Verbs
    BY DEF Verbs
  <2>6. Len(t) = Len(shape) /\ t[1] = shape[1] /\ shape[Len(shape)] \in {"_", t[Len(t)]}
    <3>2. Len(t) = Len(shape) /\ shape[1] \in {"_", t[1]}
          /\ shape[Len(shape)] \in {"_", t[Len(shape)]}
      BY <2>3, <2>4 DEF Fits
    <3> QED
      BY <2>4, <3>2
  <2> QED
    BY <2>1, <2>2, <2>3, <2>4, <2>5, <2>6
<1> QED
  BY <1>1, <1>2

\* A zone event keeps its topic, and nothing else is taken for one.
LEMMA ZoneNames ==
    ASSUME NEW s \in Subs, NEW key \in PubKeys, Hears(s.pattern, key)
    PROVE  /\ ~IsZone(key) => ~IsZone(NameOf(s, key))
           /\ ZonesAreNamed /\ IsZone(key) => NameOf(s, key) = key
<1>1. ASSUME NEW verb \in Verbs, s.pattern = <<"zone", "*", verb>>, s.name = <<>>
      PROVE  IsZone(key) /\ NameOf(s, key) = key
  BY <1>1, ZoneSubHears DEF NameOf
<1>2. ASSUME NEW t \in Triggers, s = TriggerSub(t), s.name = t, t # <<>>
      PROVE  /\ ~IsZone(key) => ~IsZone(t)
             /\ ZonesAreNamed /\ IsZone(key) => t = key
  <2> DEFINE c == canonicalize(t)
  <2>1. s.pattern = c /\ t \in Seq(Segments)
    BY <1>2, TriggerSubIs
  <2>2. /\ Len(c) >= 2 /\ Len(c) \in Nat /\ c[1] # "*"
        /\ c[1] = "zone" => c[Len(c)] \in Verbs
        /\ c[1] = "zone" \/ t[1] = "zone" => t = c
    BY PatternShape
  <2>3. Hears(c, key)
    BY <2>1
  <2> HIDE DEF c
  <2>4. "**" \notin Verbs /\ "*" \notin Verbs
    BY DEF Verbs
  <2>5. ASSUME c[1] = "zone"
        PROVE  /\ Len(key) = Len(c) /\ \A i \in 1..Len(c) : c[i] \in {"*", key[i]}
               /\ IsZone(key) /\ t = c
    <3>1. c[Len(c)] # "**" /\ c[Len(c)] # "*" /\ c[Len(c)] \in Verbs /\ t = c
      BY <2>2, <2>4, <2>5
    <3>2. Len(key) = Len(c) /\ \A i \in 1..Len(c) : c[i] \in {"*", key[i]}
      BY <2>3, <3>1 DEF Hears
    <3>3. key[1] = c[1] /\ key[Len(key)] = c[Len(c)]
      BY <2>2, <3>1, <3>2
    <3> QED
      BY <2>5, <3>1, <3>2, <3>3 DEF IsZone
  <2>6. ASSUME IsZone(t) PROVE IsZone(key)
    BY <2>2, <2>5, <2>6 DEF IsZone
  <2>7. ASSUME ZonesAreNamed, IsZone(key) PROVE t = key
    <3>1. PICK verb \in Verbs : key = ZoneKey(verb)
      BY <2>7, PubKeysAre DEF PubKeys
    <3>2. Len(key) = 3 /\ key \in Seq(Segments)
      BY <2>7, <3>1, ZoneKeyIs DEF ZonesAreNamed
    <3>3. c[1] = "zone"
      <4>1. c[1] \in {"*", key[1]}
        BY <2>2, <2>3 DEF Hears
      <4> QED
        BY <2>2, <2>7, <4>1 DEF IsZone
    <3>4. /\ Len(t) = 3 /\ t = c /\ \A i \in 1..3 : t[i] \in {"*", key[i]}
          /\ t[1] = "zone" /\ t[3] \in Verbs
      BY <2>2, <2>5, <3>2, <3>3
    <3>5. t[2] # "*"
      BY <2>7, <3>4 DEF ZonesAreNamed, IsZone
    <3>6. \A i \in 1..3 : t[i] = key[i]
      BY <2>4, <3>4, <3>5
    <3> QED
      BY <2>1, <3>2, <3>4, <3>6, SeqEqual
  <2> QED
    BY <2>6, <2>7
<1>3. s.name = <<>> => NameOf(s, key) = key
  BY DEF NameOf
<1>4. s.name # <<>> => NameOf(s, key) = s.name
  BY DEF NameOf
<1> QED
  BY <1>1, <1>2, <1>4, SubsAre

\* The n-th crossing, and where its events are.
VerbOf(n) == IF Inside(n) THEN "entered" ELSE "cleared"
Boxed(n) ==
    \E s \in Subs, k \in 1..MaxTasks : \E i \in DOMAIN inbox[s][k] :
        IsZone(inbox[s][k][i].key) /\ inbox[s][k][i].n = n
Queued(n) == \E i \in DOMAIN queue : IsZone(queue[i].topic) /\ queue[i].n = n

BoxNumbers ==
    \A s \in Subs, k \in 1..MaxTasks : \A i \in DOMAIN inbox[s][k] :
        IsZone(inbox[s][k][i].key)
            => /\ inbox[s][k][i].n <= crossings
               /\ inbox[s][k][i].key = ZoneKey(VerbOf(inbox[s][k][i].n))
QueueNumbers ==
    \A i \in DOMAIN queue :
        IsZone(queue[i].topic)
            => /\ queue[i].n <= crossings
               /\ queue[i].topic = ZoneKey(VerbOf(queue[i].n))

QueueSorted ==
    \A i, j \in DOMAIN queue :
        IsZone(queue[i].topic) /\ IsZone(queue[j].topic) /\ i < j => queue[i].n <= queue[j].n

\* The zone map is that of the L-th crossing; what waits is as new, in order, and the
\* last crossing is among it.
ZonesOf(L) == IF Inside(L) THEN {ZonePath[1]} ELSE {}
ZoneAt(L) ==
    /\ zones = ZonesOf(L)
    /\ \A n \in Nat : Boxed(n) \/ Queued(n) => L <= n
    /\ \A m, n \in Nat : Queued(m) /\ Boxed(n) => m <= n
    /\ QueueSorted
    /\ L = crossings \/ Queued(crossings) \/ Boxed(crossings)

ZInv ==
    /\ BoxNumbers /\ QueueNumbers
    /\ lost = {} /\ ~overtaken => \E L \in 0..crossings : ZoneAt(L)

LEMMA VerbAlternates ==
    ASSUME NEW n \in Nat
    PROVE  VerbOf(n + 1) = IF Inside(n) THEN "cleared" ELSE "entered"
<1>1. (n + 1) % 2 = 1 <=> n % 2 # 1
  OBVIOUS
<1> QED
  BY <1>1 DEF VerbOf, Inside

LEMMA ZoneInit == Init => ZInv
<1> SUFFICES ASSUME Init PROVE ZInv
  OBVIOUS
<1>1. /\ crossings = 0 /\ queue = <<>> /\ zones = {}
      /\ \A s \in Subs, k \in 1..MaxTasks : inbox[s][k] = <<>>
  BY DEF Init
<1>2. DOMAIN <<>> = {}
  BY EmptySeq, LenProperties
<1>3. BoxNumbers /\ QueueNumbers /\ QueueSorted
  BY <1>1, <1>2 DEF BoxNumbers, QueueNumbers, QueueSorted
<1>4. \A n \in Nat : ~Boxed(n) /\ ~Queued(n)
  BY <1>1, <1>2 DEF Boxed, Queued
<1>5. ~Inside(0)
  BY DEF Inside
<1>6. ZoneAt(0)
  BY <1>1, <1>3, <1>4, <1>5 DEF ZoneAt, ZonesOf
<1> QED
  BY <1>1, <1>3, <1>6 DEF ZInv

\* A sensor's publication brings no zone event.
LEMMA ZonePublish ==
    ASSUME FInv, ZInv, NEW key \in Keys, Publish(key)
    PROVE  ZInv'
<1>1. /\ Deliver(key, pub'[key]) /\ pub' = [pub EXCEPT ![key] = @ + 1]
      /\ UNCHANGED <<crossings, tasks, queue, latest, zones, lost, overtaken>>
  BY DEF Publish
<1>2. key \in PubKeys /\ ~IsZone(key) /\ pub'[key] \in Nat
  BY <1>1, FlowConstants DEF PubKeys, FInv, FlowTyped
<1> DEFINE e == [key |-> key, n |-> pub'[key]]
<1>3. /\ e \in [key : PubKeys, n : Nat] /\ ~IsZone(e.key)
      /\ \A s \in Subs, k \in 1..MaxTasks :
            inbox'[s][k] \in {inbox[s][k], Append(inbox[s][k], e)}
  BY <1>1, <1>2, Delivered
<1> HIDE DEF e
<1>4. ASSUME NEW s \in Subs, NEW k \in 1..MaxTasks
      PROVE  /\ \A i \in DOMAIN inbox'[s][k] :
                   IsZone(inbox'[s][k][i].key)
                      => i \in DOMAIN inbox[s][k] /\ inbox'[s][k][i] = inbox[s][k][i]
             /\ \A i \in DOMAIN inbox[s][k] :
                   i \in DOMAIN inbox'[s][k] /\ inbox'[s][k][i] = inbox[s][k][i]
  <2>1. inbox[s][k] \in Boxes(PubKeys)
    BY DEF FInv, FlowTyped
  <2>2. CASE inbox'[s][k] = inbox[s][k]
    BY <2>2
  <2>3. CASE inbox'[s][k] = Append(inbox[s][k], e)
    <3>1. /\ \A i \in DOMAIN inbox'[s][k] :
                \/ i \in DOMAIN inbox[s][k] /\ inbox'[s][k][i] = inbox[s][k][i]
                \/ inbox'[s][k][i] = e
          /\ \A i \in DOMAIN inbox[s][k] :
                i \in DOMAIN inbox'[s][k] /\ inbox'[s][k][i] = inbox[s][k][i]
      BY <1>3, <2>1, <2>3, BoxAppend, BoxPositions
    <3> QED
      BY <1>3, <3>1
  <2> QED
    BY <1>3, <2>2, <2>3
<1>5. BoxNumbers'
  BY <1>1, <1>4 DEF ZInv, BoxNumbers
<1>6. \A n \in Nat : Boxed(n)' <=> Boxed(n)
  BY <1>4 DEF Boxed
<1>7. QueueNumbers' /\ (\A n \in Nat : Queued(n)' <=> Queued(n)) /\ (QueueSorted' <=> QueueSorted)
  BY <1>1 DEF ZInv, QueueNumbers, Queued, QueueSorted
<1>8. ASSUME NEW L \in 0..crossings, ZoneAt(L) PROVE ZoneAt(L)'
  <2>1. crossings \in Nat
    BY DEF FInv, FlowTyped
  <2> QED
    BY <1>1, <1>6, <1>7, <1>8, <2>1 DEF ZoneAt
<1> QED
  BY <1>1, <1>5, <1>7, <1>8 DEF ZInv

\* A crossing reaches at least the subscription to its verb.
LEMMA ZoneCross ==
    ASSUME ZonesAreNamed, FInv, ZInv, Cross
    PROVE  ZInv'
<1> DEFINE key == ZoneKey(VerbOf(crossings + 1))
<1> DEFINE e == [key |-> key, n |-> crossings + 1]
<1>0. crossings \in Nat
  BY DEF FInv, FlowTyped
<1>1. /\ crossings' = crossings + 1 /\ Deliver(key, crossings + 1)
      /\ UNCHANGED <<pub, tasks, queue, latest, zones, lost, overtaken>>
  BY <1>0, VerbAlternates DEF Cross, ZoneKey
<1>2. VerbOf(crossings + 1) \in Verbs
  BY DEF VerbOf, Verbs
<1>3. key \in PubKeys /\ IsZone(key)
  BY <1>2, ZoneKeyIs DEF PubKeys
<1>4. Hears(zone_pattern(VerbOf(crossings + 1)), key)
  <2> DEFINE verb == VerbOf(crossings + 1)
  <2> DEFINE p == <<"zone", "*", verb>>
  <2>1. Len(key) = 3 /\ key[1] = "zone" /\ key[3] = verb
    BY <1>2, ZoneKeyIs DEF ZonesAreNamed
  <2>2. Len(p) = 3 /\ p[1] = "zone" /\ p[2] = "*" /\ p[3] = verb /\ verb # "**"
    BY <1>2 DEF Verbs
  <2> HIDE DEF p, key, verb
  <2>3. \A i \in 1..3 : i = 1 \/ i = 2 \/ i = 3
    OBVIOUS
  <2>4. Hears(p, key)
    BY <2>1, <2>2, <2>3 DEF Hears
  <2> QED
    BY <1>2, <2>4, ZonePatternIs DEF p, verb
<1>5. /\ e \in [key : PubKeys, n : Nat] /\ e.key = key /\ e.n = crossings + 1
      /\ \A s \in Subs, k \in 1..MaxTasks :
            inbox'[s][k] = IF Hears(s.pattern, key) /\ k <= tasks[s]
                           THEN Append(inbox[s][k], e) ELSE inbox[s][k]
  BY <1>0, <1>1, <1>3, Delivered
<1> HIDE DEF e
<1>6. ASSUME NEW s \in Subs, NEW k \in 1..MaxTasks
      PROVE  /\ \A i \in DOMAIN inbox'[s][k] :
                   \/ i \in DOMAIN inbox[s][k] /\ inbox'[s][k][i] = inbox[s][k][i]
                   \/ inbox'[s][k][i] = e
             /\ \A i \in DOMAIN inbox[s][k] :
                   i \in DOMAIN inbox'[s][k] /\ inbox'[s][k][i] = inbox[s][k][i]
  <2>1. inbox[s][k] \in Boxes(PubKeys)
    BY DEF FInv, FlowTyped
  <2>2. CASE inbox'[s][k] = inbox[s][k]
    BY <2>2
  <2>3. CASE inbox'[s][k] = Append(inbox[s][k], e)
    BY <1>5, <2>1, <2>3, BoxAppend, BoxPositions
  <2> QED
    BY <1>5, <2>2, <2>3
<1>7. BoxNumbers'
  <2> SUFFICES ASSUME NEW s \in Subs, NEW k \in 1..MaxTasks, NEW i \in DOMAIN inbox'[s][k],
                      IsZone(inbox'[s][k][i].key)
               PROVE  /\ inbox'[s][k][i].n <= crossings'
                      /\ inbox'[s][k][i].key = ZoneKey(VerbOf(inbox'[s][k][i].n))
    BY DEF BoxNumbers
  <2>1. CASE i \in DOMAIN inbox[s][k] /\ inbox'[s][k][i] = inbox[s][k][i]
    <3>1. inbox[s][k] \in Boxes(PubKeys)
      BY DEF FInv, FlowTyped
    <3>2. inbox[s][k][i].n \in Nat
      BY <2>1, <3>1, BoxPositions
    <3>3. inbox[s][k][i].n <= crossings /\ inbox[s][k][i].key = ZoneKey(VerbOf(inbox[s][k][i].n))
      BY <2>1 DEF ZInv, BoxNumbers
    <3> QED
      BY <1>0, <1>1, <2>1, <3>2, <3>3
  <2>2. CASE inbox'[s][k][i] = e
    BY <1>0, <1>1, <1>5, <2>2
  <2> QED
    BY <1>6, <2>1, <2>2
<1>8. ASSUME NEW n \in Nat, n = crossings + 1 PROVE Boxed(n)'
  <2> DEFINE s == [pattern |-> zone_pattern(VerbOf(crossings + 1)), name |-> <<>>]
  <2>1. s \in Subs /\ s.pattern = zone_pattern(VerbOf(crossings + 1))
    BY <1>2 DEF Subs, ZoneSubs
  <2> HIDE DEF s
  <2>2. 1 <= tasks[s] /\ inbox[s][1] \in Boxes(PubKeys)
    <3>1. /\ tasks \in [Subs -> Nat \ {0}]
          /\ inbox \in [Subs -> [1..MaxTasks -> Boxes(PubKeys)]]
      BY DEF FInv, FlowTyped
    <3>2. tasks[s] \in Nat \ {0}
      BY <2>1, <3>1
    <3>3. 1 <= tasks[s]
      BY <3>2
    <3>4. inbox[s][1] \in Boxes(PubKeys)
      BY <2>1, <3>1, FirstTask
    <3> QED
      BY <3>3, <3>4
  <2>3. inbox'[s][1] = Append(inbox[s][1], e)
    BY <1>4, <1>5, <2>1, <2>2, FirstTask
  <2>4. Len(inbox[s][1]) + 1 \in DOMAIN inbox'[s][1] /\ inbox'[s][1][Len(inbox[s][1]) + 1] = e
    BY <1>5, <2>2, <2>3, BoxAppend, BoxPositions
  <2> QED
    BY <1>3, <1>5, <1>8, <2>1, <2>4, FirstTask DEF Boxed
<1>9. \A n \in Nat : Boxed(n)' => Boxed(n) \/ n = crossings + 1
  BY <1>5, <1>6 DEF Boxed
<1>10. \A n \in Nat : Queued(n) => n <= crossings
  BY DEF Queued, ZInv, QueueNumbers
<1>11. QueueNumbers' /\ (\A n \in Nat : Queued(n)' <=> Queued(n)) /\ (QueueSorted' <=> QueueSorted)
  <2>1. \A i \in DOMAIN queue : queue[i].n \in Nat
    BY ChannelPositions DEF FInv, FlowTyped
  <2>2. QueueNumbers'
    BY <1>0, <1>1, <2>1 DEF ZInv, QueueNumbers
  <2> QED
    BY <1>1, <2>2 DEF Queued, QueueSorted
<1>12. ASSUME NEW L \in 0..crossings, ZoneAt(L) PROVE L \in 0..crossings' /\ ZoneAt(L)'
  <2>1. L \in Nat /\ L <= crossings /\ L \in 0..crossings' /\ crossings' \in Nat
    BY <1>0, <1>1
  <2>2. Boxed(crossings)'
    BY <1>0, <1>1, <1>8, <2>1 DEF Boxed
  <2>3. \A n \in Nat : Boxed(n)' \/ Queued(n)' => L <= n
    BY <1>0, <1>9, <1>11, <1>12, <2>1 DEF ZoneAt
  <2>4. \A m, n \in Nat : Queued(m)' /\ Boxed(n)' => m <= n
    BY <1>0, <1>9, <1>10, <1>11, <1>12 DEF ZoneAt
  <2> QED
    BY <1>1, <1>11, <1>12, <2>1, <2>2, <2>3, <2>4 DEF ZoneAt, ZonesOf
<1> QED
  BY <1>1, <1>7, <1>11, <1>12 DEF ZInv

\* A forwarded crossing overtakes nothing, or the history variable says so.
LEMMA ZoneForward ==
    ASSUME ZonesAreNamed, FInv, ZInv, NEW s \in Subs, NEW k \in 1..MaxTasks, Forward(s, k)
    PROVE  ZInv'
<1> DEFINE x == Head(inbox[s][k])
<1> DEFINE e == Forwarded(s, k)
<1>1. /\ inbox[s][k] \in Boxes(PubKeys) /\ inbox[s][k] # <<>>
      /\ x \in [key : PubKeys, n : Nat] /\ x = inbox[s][k][1] /\ Hears(s.pattern, x.key)
      /\ e \in [topic : Names, n : Nat] /\ e.topic = NameOf(s, x.key) /\ e.n = x.n
      /\ \/ queue' = Append(queue, e) /\ lost' = lost
         \/ queue' = queue /\ lost' = lost \cup {s}
      /\ UNCHANGED <<pub, crossings, tasks, latest, zones>>
  BY ForwardFacts
<1>2. /\ inbox'[s][k] = Tail(inbox[s][k])
      /\ \A r \in Subs, j \in 1..MaxTasks : <<r, j>> # <<s, k>> => inbox'[r][j] = inbox[r][j]
  BY ForwardBoxes
<1>3. overtaken' = (overtaken \/ (IsZone(e.topic) /\ Overtakes(x.n)))
  <2>1. overtaken' = (overtaken \/ (IsZone(NameOf(s, x.key)) /\ Overtakes(x.n)))
    BY DEF Forward, NameOf
  <2> QED
    BY <1>1, <2>1
<1>4. /\ IsZone(e.topic) <=> IsZone(x.key)
      /\ IsZone(e.topic) => e.topic = x.key
  <2>1. x.key \in PubKeys
    BY <1>1
  <2>2. ~IsZone(x.key) => ~IsZone(NameOf(s, x.key))
    BY <1>1, <2>1, ZoneNames
  <2>3. IsZone(x.key) => NameOf(s, x.key) = x.key
    BY <1>1, <2>1, ZoneNames
  <2> QED
    BY <1>1, <2>2, <2>3
<1>5. /\ crossings \in Nat /\ queue \in Channels(Names)
      /\ \A r \in Subs, j \in 1..MaxTasks : inbox[r][j] \in Boxes(PubKeys)
  BY DEF FInv, FlowTyped
<1>6. /\ 1 \in DOMAIN inbox[s][k]
      /\ \A i \in DOMAIN inbox[s][k] : i = 1 \/ (i - 1 \in DOMAIN inbox'[s][k] /\ inbox'[s][k][i - 1] = inbox[s][k][i])
      /\ \A i \in DOMAIN inbox'[s][k] :
            i + 1 \in DOMAIN inbox[s][k] /\ inbox'[s][k][i] = inbox[s][k][i + 1]
  <2>1. /\ Len(inbox[s][k]) \in Nat \ {0} /\ 1 \in DOMAIN inbox[s][k]
        /\ DOMAIN inbox'[s][k] = 1..(Len(inbox[s][k]) - 1)
        /\ \A i \in DOMAIN inbox'[s][k] :
              i + 1 \in DOMAIN inbox[s][k] /\ inbox'[s][k][i] = inbox[s][k][i + 1]
    BY <1>1, <1>2, BoxTail
  <2>2. DOMAIN inbox[s][k] = 1..Len(inbox[s][k])
    BY <1>1, BoxPositions
  <2>3. ASSUME NEW i \in DOMAIN inbox[s][k], i # 1
        PROVE  i - 1 \in DOMAIN inbox'[s][k] /\ inbox'[s][k][i - 1] = inbox[s][k][i]
    <3>1. i \in Nat /\ i - 1 \in DOMAIN inbox'[s][k] /\ (i - 1) + 1 = i
      BY <2>1, <2>2, <2>3
    <3> QED
      BY <2>1, <3>1
  <2> QED
    BY <2>1, <2>3
<1>7. ASSUME NEW r \in Subs, NEW j \in 1..MaxTasks, NEW i \in DOMAIN inbox'[r][j]
      PROVE  \E h \in DOMAIN inbox[r][j] : inbox'[r][j][i] = inbox[r][j][h]
  <2>1. CASE r = s /\ j = k
    BY <1>6, <2>1
  <2>2. CASE <<r, j>> # <<s, k>>
    BY <1>2, <2>2
  <2> QED
    BY <2>1, <2>2
<1>8. ASSUME NEW r \in Subs, NEW j \in 1..MaxTasks, NEW i \in DOMAIN inbox[r][j]
      PROVE  \/ \E h \in DOMAIN inbox'[r][j] : inbox'[r][j][h] = inbox[r][j][i]
             \/ inbox[r][j][i] = x
  <2>1. CASE r = s /\ j = k
    BY <1>1, <1>6, <2>1
  <2>2. CASE <<r, j>> # <<s, k>>
    BY <1>2, <2>2
  <2> QED
    BY <2>1, <2>2
<1>9. BoxNumbers'
  <2>1. BoxNumbers /\ crossings' = crossings
    BY <1>1 DEF ZInv
  <2> QED
    BY <1>7, <2>1 DEF BoxNumbers
<1>10. \A n \in Nat : Boxed(n)' => Boxed(n)
  BY <1>7 DEF Boxed
<1>11. \A n \in Nat : Boxed(n) => Boxed(n)' \/ (IsZone(x.key) /\ n = x.n)
  BY <1>8 DEF Boxed
<1>12. IsZone(x.key) => Boxed(x.n) /\ x.n <= crossings /\ x.key = ZoneKey(VerbOf(x.n))
  <2>1. BoxNumbers
    BY DEF ZInv
  <2>2. IsZone(x.key) => Boxed(x.n)
    BY <1>1, <1>6 DEF Boxed
  <2>3. IsZone(x.key) => x.n <= crossings /\ x.key = ZoneKey(VerbOf(x.n))
    BY <1>1, <1>6, <2>1 DEF BoxNumbers
  <2> QED
    BY <2>2, <2>3
<1>13. x.n \in Nat
  BY <1>1
<1>14. CASE queue' = queue
  <2>1. QueueNumbers'
    BY <1>1, <1>14 DEF ZInv, QueueNumbers
  <2>2. lost' # {} \/ queue' = Append(queue, e)
    BY <1>1
  <2>3. queue' # Append(queue, e)
    <3>1. DOMAIN Append(queue, e) = 1..(Len(queue) + 1) /\ DOMAIN queue = 1..Len(queue)
          /\ Len(queue) \in Nat
      BY <1>1, <1>5, ChannelAppend, ChannelPositions
    <3> DEFINE more == Append(queue, e)
    <3>2. Len(queue) + 1 \in DOMAIN more /\ Len(queue) + 1 \notin DOMAIN queue
      BY <3>1
    <3> HIDE DEF more
    <3>3. queue # more
      BY <3>2
    <3> QED
      BY <1>14, <3>3 DEF more
  <2> QED
    BY <1>9, <2>1, <2>2, <2>3 DEF ZInv
<1>15. CASE queue' = Append(queue, e) /\ lost' = lost
  <2>1. /\ Len(queue) \in Nat /\ DOMAIN queue = 1..Len(queue)
        /\ DOMAIN queue' = 1..(Len(queue) + 1) /\ queue'[Len(queue) + 1] = e
        /\ \A i \in DOMAIN queue : i \in DOMAIN queue' /\ queue'[i] = queue[i] /\ queue[i].n \in Nat
    <3> HIDE DEF e
    <3> QED
      BY <1>1, <1>5, <1>15, ChannelAppend, ChannelPositions
  <2>2. \A i \in DOMAIN queue' : (i \in DOMAIN queue /\ queue'[i] = queue[i]) \/ (i = Len(queue) + 1 /\ queue'[i] = e)
    BY <2>1
  <2>3. Len(queue) + 1 \in DOMAIN queue'
    BY <2>1
  <2> HIDE DEF x, e
  <2>4. QueueNumbers'
    <3>1. QueueNumbers /\ crossings' = crossings
      BY <1>1 DEF ZInv
    <3> SUFFICES ASSUME NEW i \in DOMAIN queue', IsZone(queue'[i].topic)
                 PROVE  queue'[i].n <= crossings /\ queue'[i].topic = ZoneKey(VerbOf(queue'[i].n))
      BY <3>1 DEF QueueNumbers
    <3>2. CASE i \in DOMAIN queue /\ queue'[i] = queue[i]
      BY <3>1, <3>2 DEF QueueNumbers
    <3>3. CASE queue'[i] = e
      BY <1>1, <1>4, <1>12, <3>3
    <3> QED
      BY <2>2, <3>2, <3>3
  <2>5. \A n \in Nat : Queued(n)' <=> Queued(n) \/ (IsZone(x.key) /\ n = x.n)
    <3>1. IsZone(e.topic) <=> IsZone(x.key)
      BY <1>4
    <3>2. e.n = x.n
      BY <1>1
    <3>3. \A n \in Nat : Queued(n)' => Queued(n) \/ (IsZone(x.key) /\ n = x.n)
      BY <2>2, <3>1, <3>2 DEF Queued
    <3>4. \A n \in Nat : Queued(n) => Queued(n)'
      BY <2>1 DEF Queued
    <3>5. ASSUME NEW n \in Nat, IsZone(x.key) /\ n = x.n PROVE Queued(n)'
      BY <2>1, <2>3, <3>1, <3>2, <3>5 DEF Queued
    <3> QED
      BY <3>3, <3>4, <3>5
  <2>6. ASSUME lost' = {}, ~overtaken', NEW L \in 0..crossings, ZoneAt(L)
        PROVE  ZoneAt(L)'
    <3>1. ASSUME IsZone(x.key), NEW n \in Nat, Boxed(n) PROVE x.n <= n
      <4>1. ~Overtakes(x.n)
        BY <1>3, <1>4, <2>6, <3>1
      <4>2. ~(n < x.n)
        BY <3>1, <4>1 DEF Overtakes, Boxed
      <4> QED
        BY <1>13, <4>2
    <3>2. L \in Nat /\ L <= crossings /\ QueueSorted
      BY <1>5, <2>6 DEF ZoneAt
    <3>3. /\ \A n \in Nat : Boxed(n) \/ Queued(n) => L <= n
          /\ \A m, n \in Nat : Queued(m) /\ Boxed(n) => m <= n
          /\ L = crossings \/ Queued(crossings) \/ Boxed(crossings)
      BY <2>6 DEF ZoneAt
    <3>4. \A n \in Nat : Boxed(n)' \/ Queued(n)' => L <= n
      <4>1. IsZone(x.key) => L <= x.n
        BY <1>12, <1>13, <3>3
      <4>2. ASSUME NEW n \in Nat, Boxed(n)' PROVE L <= n
        BY <1>10, <3>3, <4>2
      <4>3. ASSUME NEW n \in Nat, Queued(n)' PROVE L <= n
        <5>1. Queued(n) \/ (IsZone(x.key) /\ n = x.n)
          BY <2>5, <4>3
        <5> QED
          BY <3>3, <4>1, <5>1
      <4> QED
        BY <4>2, <4>3
    <3>5. \A m, n \in Nat : Queued(m)' /\ Boxed(n)' => m <= n
      <4> SUFFICES ASSUME NEW m \in Nat, NEW n \in Nat, Queued(m)', Boxed(n)'
                   PROVE  m <= n
        OBVIOUS
      <4>1. Boxed(n)
        BY <1>10
      <4>2. Queued(m) \/ (IsZone(x.key) /\ m = x.n)
        BY <2>5
      <4> QED
        BY <3>1, <3>3, <4>1, <4>2
    <3>6. L = crossings' \/ Queued(crossings)' \/ Boxed(crossings)'
      <4>1. \A n \in Nat : n = crossings => (Boxed(n) => Boxed(n)' \/ Queued(n)') /\ (Queued(n) => Queued(n)')
        BY <1>11, <2>5
      <4>2. ASSUME NEW n \in Nat, n = crossings
            PROVE  L = n \/ Queued(n)' \/ Boxed(n)'
        BY <3>3, <4>1, <4>2
      <4>3. crossings' = crossings
        BY <1>1
      <4> QED
        BY <1>5, <4>2, <4>3 DEF Queued, Boxed
    <3>7. QueueSorted'
      <4> SUFFICES ASSUME NEW i \in DOMAIN queue', NEW j \in DOMAIN queue',
                          IsZone(queue'[i].topic) /\ IsZone(queue'[j].topic) /\ i < j
                   PROVE  queue'[i].n <= queue'[j].n
        BY DEF QueueSorted
      <4>1. i \in DOMAIN queue /\ queue'[i] = queue[i]
        BY <2>1, <2>2
      <4>2. CASE j \in DOMAIN queue /\ queue'[j] = queue[j]
        BY <3>2, <4>1, <4>2 DEF QueueSorted
      <4>3. CASE queue'[j] = e
        <5>1. Queued(queue[i].n) /\ queue[i].n \in Nat
          BY <2>1, <4>1 DEF Queued
        <5>2. IsZone(x.key) /\ e.n = x.n
          BY <1>1, <1>4, <4>3
        <5> QED
          BY <1>12, <1>13, <3>3, <4>1, <4>3, <5>1, <5>2
      <4> QED
        BY <2>2, <4>2, <4>3
    <3>8. zones' = ZonesOf(L)
      BY <1>1, <2>6 DEF ZoneAt
    <3> QED
      BY <3>4, <3>5, <3>6, <3>7, <3>8 DEF ZoneAt, ZonesOf
  <2>7. ~overtaken' => ~overtaken
    BY <1>3
  <2>8. crossings' = crossings
    BY <1>1
  <2> QED
    BY <1>9, <1>15, <2>4, <2>6, <2>7, <2>8 DEF ZInv
<1> QED
  BY <1>1, <1>14, <1>15

\* A crossing that is ingested puts the zone map where the crossing left the robot.
LEMMA ZoneIngest ==
    ASSUME ZonesAreNamed, FInv, ZInv, Ingest
    PROVE  ZInv'
<1> DEFINE e == Head(queue)
<1>1. /\ queue # <<>> /\ queue' = Tail(queue)
      /\ UNCHANGED <<pub, crossings, tasks, inbox, lost, overtaken>>
      /\ zones' = IF IsZone(e.topic)
                  THEN IF e.topic[Len(e.topic)] = "entered"
                       THEN zones \cup {e.topic[2]} ELSE zones \ {e.topic[2]}
                  ELSE zones
  BY DEF Ingest, ingest
<1>2. queue \in Channels(Names) /\ crossings \in Nat
  BY DEF FInv, FlowTyped
<1>3. /\ Len(queue) \in Nat \ {0} /\ 1 \in DOMAIN queue /\ e = queue[1]
      /\ DOMAIN queue = 1..Len(queue) /\ DOMAIN queue' = 1..(Len(queue) - 1)
      /\ \A i \in DOMAIN queue : queue[i].n \in Nat
      /\ \A i \in DOMAIN queue' : i + 1 \in DOMAIN queue /\ queue'[i] = queue[i + 1]
  BY <1>1, <1>2, ChannelTail, ChannelPositions
<1> HIDE DEF e
<1>4. \A i \in DOMAIN queue : i = 1 \/ (i - 1 \in DOMAIN queue' /\ queue'[i - 1] = queue[i])
  <2> SUFFICES ASSUME NEW i \in DOMAIN queue, i # 1
               PROVE  i - 1 \in DOMAIN queue' /\ queue'[i - 1] = queue[i]
    OBVIOUS
  <2>1. i \in Nat /\ i - 1 \in DOMAIN queue' /\ (i - 1) + 1 = i
    BY <1>3
  <2> QED
    BY <1>3, <2>1
<1>5. BoxNumbers' /\ (\A n \in Nat : Boxed(n)' <=> Boxed(n))
  BY <1>1 DEF ZInv, BoxNumbers, Boxed
<1>6. QueueNumbers /\ crossings' = crossings
  BY <1>1 DEF ZInv
<1>7. QueueNumbers'
  BY <1>3, <1>6 DEF QueueNumbers
<1>8. /\ \A n \in Nat : Queued(n)' => Queued(n)
      /\ \A n \in Nat : Queued(n) => Queued(n)' \/ (IsZone(e.topic) /\ n = e.n)
  <2>1. \A n \in Nat : Queued(n)' => Queued(n)
    BY <1>3 DEF Queued
  <2>2. ASSUME NEW n \in Nat, NEW i \in DOMAIN queue, IsZone(queue[i].topic), queue[i].n = n
        PROVE  Queued(n)' \/ (IsZone(e.topic) /\ n = e.n)
    BY <1>3, <1>4, <2>2 DEF Queued
  <2> QED
    BY <2>1, <2>2 DEF Queued
<1>9. QueueSorted => QueueSorted'
  <2> SUFFICES ASSUME QueueSorted, NEW i \in DOMAIN queue', NEW j \in DOMAIN queue',
                      IsZone(queue'[i].topic) /\ IsZone(queue'[j].topic) /\ i < j
               PROVE  queue'[i].n <= queue'[j].n
    BY DEF QueueSorted
  <2>1. /\ i + 1 \in DOMAIN queue /\ queue'[i] = queue[i + 1]
        /\ j + 1 \in DOMAIN queue /\ queue'[j] = queue[j + 1] /\ i + 1 < j + 1
    BY <1>3
  <2> QED
    BY <2>1 DEF QueueSorted
<1>10. ASSUME ~IsZone(e.topic), NEW L \in 0..crossings, ZoneAt(L) PROVE ZoneAt(L)'
  <2>1. \A n \in Nat : Queued(n)' <=> Queued(n)
    BY <1>8, <1>10
  <2>2. L = crossings' \/ Queued(crossings)' \/ Boxed(crossings)'
    <3>1. \A n \in Nat : n = crossings => L = n \/ Queued(n)' \/ Boxed(n)'
      BY <1>5, <1>10, <2>1 DEF ZoneAt
    <3> QED
      BY <1>2, <1>6, <3>1 DEF Queued, Boxed
  <2>3. /\ \A n \in Nat : Boxed(n)' \/ Queued(n)' => L <= n
        /\ \A m, n \in Nat : Queued(m)' /\ Boxed(n)' => m <= n
    BY <1>5, <1>10, <2>1 DEF ZoneAt
  <2>4. QueueSorted' /\ zones' = ZonesOf(L)
    BY <1>1, <1>9, <1>10 DEF ZoneAt
  <2> QED
    BY <2>2, <2>3, <2>4 DEF ZoneAt, ZonesOf
<1>11. ASSUME IsZone(e.topic), NEW L \in 0..crossings, ZoneAt(L)
       PROVE  \E M \in 0..crossings : ZoneAt(M)'
  <2>0. /\ e.n \in Nat /\ e.n <= crossings /\ e.topic = ZoneKey(VerbOf(e.n)) /\ Queued(e.n)
    BY <1>3, <1>6, <1>11 DEF QueueNumbers, Queued
  <2>1. PICK M \in Nat : M = e.n
    BY <2>0
  <2>2. /\ M <= crossings /\ M \in 0..crossings /\ e.topic = ZoneKey(VerbOf(M)) /\ Queued(M)
    BY <1>2, <2>0, <2>1
  <2>3. /\ \A n \in Nat : Boxed(n) \/ Queued(n) => L <= n
        /\ \A m, n \in Nat : Queued(m) /\ Boxed(n) => m <= n
        /\ L = crossings \/ Queued(crossings) \/ Boxed(crossings)
        /\ QueueSorted /\ zones = ZonesOf(L)
    BY <1>11 DEF ZoneAt
  <2>4. zones' = ZonesOf(M)
    <3>1. VerbOf(M) \in Verbs /\ (VerbOf(M) = "entered" <=> Inside(M))
      BY DEF VerbOf, Verbs
    <3>2. e.topic[Len(e.topic)] = VerbOf(M) /\ e.topic[2] = ZonePath[1]
      <4>1. /\ ZoneKey(VerbOf(M))[Len(ZoneKey(VerbOf(M)))] = VerbOf(M)
            /\ \A i \in 1..Len(ZonePath) : ZoneKey(VerbOf(M))[i + 1] = ZonePath[i]
        BY <3>1, ZoneKeyIs
      <4>2. 1 \in 1..Len(ZonePath) /\ 1 + 1 = 2
        BY DEF ZonesAreNamed
      <4> QED
        BY <2>2, <4>1, <4>2
    <3>3. zones \subseteq {ZonePath[1]}
      BY <2>3 DEF ZonesOf
    <3>4. CASE Inside(M)
      BY <1>1, <1>11, <3>1, <3>2, <3>3, <3>4 DEF ZonesOf
    <3>5. CASE ~Inside(M)
      BY <1>1, <1>11, <3>1, <3>2, <3>3, <3>5 DEF ZonesOf
    <3> QED
      BY <3>4, <3>5
  <2>5. \A n \in Nat : Boxed(n)' => M <= n
    BY <1>5, <2>2, <2>3
  <2>6. \A n \in Nat : Queued(n)' => M <= n
    <3> SUFFICES ASSUME NEW i \in DOMAIN queue', IsZone(queue'[i].topic)
                 PROVE  M <= queue'[i].n
      BY DEF Queued
    <3>1. i + 1 \in DOMAIN queue /\ queue'[i] = queue[i + 1] /\ 1 < i + 1
      BY <1>3
    <3> QED
      BY <1>3, <1>11, <2>1, <2>3, <3>1 DEF QueueSorted
  <2>7. \A m, n \in Nat : Queued(m)' /\ Boxed(n)' => m <= n
    BY <1>5, <1>8, <2>3
  <2>8. M = crossings' \/ Queued(crossings)' \/ Boxed(crossings)'
    <3>1. ASSUME NEW n \in Nat, n = crossings PROVE M = n \/ Queued(n)' \/ Boxed(n)'
      <4>1. L <= M /\ L \in Nat
        BY <2>2, <2>3
      <4>2. CASE L = n
        BY <2>2, <3>1, <4>1, <4>2
      <4>3. CASE Queued(n)
        BY <1>8, <2>1, <4>3
      <4>4. CASE Boxed(n)
        BY <1>5, <4>4
      <4> QED
        BY <2>3, <3>1, <4>2, <4>3, <4>4
    <3> QED
      BY <1>2, <1>6, <3>1 DEF Queued, Boxed
  <2>9. ZoneAt(M)'
    BY <1>9, <2>3, <2>4, <2>5, <2>6, <2>7, <2>8 DEF ZoneAt, ZonesOf
  <2> QED
    BY <2>2, <2>9
<1>12. lost' = lost /\ overtaken' = overtaken
  BY <1>1
<1> QED
  BY <1>5, <1>6, <1>7, <1>10, <1>11, <1>12 DEF ZInv

LEMMA ZoneResubscribe ==
    ASSUME ZInv, NEW t \in Triggers, Resubscribe(t)
    PROVE  ZInv'
BY DEF Resubscribe, ZInv, BoxNumbers, QueueNumbers, ZoneAt, Boxed, Queued, QueueSorted, ZonesOf

LEMMA ZoneStep == ZonesAreNamed /\ FInv /\ ZInv /\ [Next]_vars => ZInv'
<1> SUFFICES ASSUME ZonesAreNamed, FInv, ZInv, [Next]_vars PROVE ZInv'
  OBVIOUS
<1>1. CASE UNCHANGED vars
  BY <1>1 DEF vars, ZInv, BoxNumbers, QueueNumbers, ZoneAt, Boxed, Queued, QueueSorted, ZonesOf
<1> QED
  BY <1>1, ZonePublish, ZoneCross, ZoneForward, ZoneIngest, ZoneResubscribe DEF Next

\* Drained, the zone map is that of the last crossing, unless the channel dropped an
\* event or one was forwarded before an earlier one of another task (engine.rs, the two
\* zone subscriptions and EvalState::ingest).
THEOREM ZonesAreCurrent == Spec => []OnlyOvertakingMisplaces
<1>1. ASSUME ZonesAreNamed, FInv, ZInv PROVE OnlyOvertakingMisplaces
  <2> SUFFICES ASSUME lost = {}, ~overtaken, \A s \in Subs : ~Waiting(s),
                      \A i \in DOMAIN queue : ~IsZone(queue[i].topic)
               PROVE  zones = IF Inside(crossings) THEN {ZonePath[1]} ELSE {}
    BY DEF OnlyOvertakingMisplaces
  <2>1. PICK L \in 0..crossings : ZoneAt(L)
    BY <1>1 DEF ZInv
  <2>2. DOMAIN <<>> = {}
    BY EmptySeq, LenProperties
  <2>3. ~Boxed(crossings) /\ ~Queued(crossings)
    BY <2>2 DEF Boxed, Queued, Waiting
  <2> QED
    BY <2>1, <2>3 DEF ZoneAt, ZonesOf
<1>2. ~ZonesAreNamed => OnlyOvertakingMisplaces
  BY DEF ZonesAreNamed, OnlyOvertakingMisplaces
<1>3. CASE ZonesAreNamed
  <2>1. Spec => [](FInv /\ ZInv)
    <3>1. Init => FInv /\ ZInv
      BY FlowInit, ZoneInit
    <3>2. FInv /\ ZInv /\ [Next]_vars => FInv' /\ ZInv'
      BY <1>3, FlowStep, ZoneStep
    <3> QED
      BY <3>1, <3>2, PTL DEF Spec
  <2>2. FInv /\ ZInv => OnlyOvertakingMisplaces
    BY <1>1, <1>3
  <2> QED
    BY <2>1, <2>2, PTL
<1>4. CASE ~ZonesAreNamed
  <2>1. OnlyOvertakingMisplaces
    BY <1>2, <1>4
  <2> QED
    BY <2>1, PTL
<1> QED
  BY <1>3, <1>4
=============================================================================
