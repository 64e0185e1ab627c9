-------------------------- MODULE TransportProofs --------------------------
(***************************************************************************)
(* The transport delivers each message at most once and no frame fails to  *)
(* decrypt, for every number of senders, messages, permits, broken         *)
(* connections and session lifetimes; and a node judges its peers fairly   *)
(* by what reaches it, for all peers, limits, windows and relay plans.     *)
(***************************************************************************)
EXTENDS PeerSession, PeerBook, SequenceTheorems, FiniteSetTheorems, TLAPS

\* No message twice in a sequence; likewise for the frames of a wire.
Distinct(q) == \A i, j \in DOMAIN q : q[i] = q[j] => i = j
DistinctFrames(w) == \A i, j \in DOMAIN w : w[i].msg = w[j].msg => i = j

\* What a lane has queued, what its worker has in hand, what is on a stream's wire.
Queued(s)  == ToSet(queue[s])
InHand(s)  == IF lane[s].phase = "idle" THEN {} ELSE {lane[s].msg}
Frames(w)  == {f.msg : f \in ToSet(w)}
OnWire(id) == IF id \in DOMAIN streams THEN Frames(streams[id].wire) ELSE {}

-----------------------------------------------------------------------------
(* Sequences.                                                               *)

\* Removing the head of a sequence.
LEMMA TailAt ==
    ASSUME NEW S, NEW q \in Seq(S), q # <<>>
    PROVE  /\ Head(q) = q[1] /\ 1 \in DOMAIN q /\ Head(q) \in S /\ Tail(q) \in Seq(S)
           /\ Len(q) \in Nat /\ DOMAIN q = 1..Len(q) /\ DOMAIN Tail(q) = 1..(Len(q) - 1)
           /\ \A i \in DOMAIN Tail(q) : i + 1 \in DOMAIN q /\ Tail(q)[i] = q[i + 1]
<1>1. Tail(q) \in Seq(S) /\ Len(Tail(q)) = Len(q) - 1 /\ Head(q) \in S
  BY HeadTailProperties
<1> QED BY <1>1

\* The messages that are left when the first one is taken.
LEMMA TailOnce ==
    ASSUME NEW S, NEW q \in Seq(S), q # <<>>, Distinct(q)
    PROVE  Distinct(Tail(q)) /\ ToSet(Tail(q)) = ToSet(q) \ {Head(q)} /\ Head(q) \in ToSet(q)
<1> DEFINE t == Tail(q)
<1>1. /\ Head(q) = q[1] /\ 1 \in DOMAIN q /\ Len(q) \in Nat
      /\ DOMAIN q = 1..Len(q) /\ DOMAIN t = 1..(Len(q) - 1)
      /\ \A i \in DOMAIN t : i + 1 \in DOMAIN q /\ t[i] = q[i + 1]
  BY TailAt
<1> HIDE DEF t
<1>2. Distinct(t)
  BY <1>1 DEF Distinct
<1>3. ASSUME NEW x \in ToSet(q) \ {Head(q)} PROVE x \in ToSet(t)
  <2>1. PICK i \in DOMAIN q : q[i] = x
    BY DEF ToSet
  <2>2. i # 1 /\ i - 1 \in DOMAIN t /\ t[i - 1] = q[i]
    BY <1>1, <2>1
  <2> QED BY <2>1, <2>2 DEF ToSet
<1>4. ASSUME NEW x \in ToSet(t) PROVE x \in ToSet(q) \ {Head(q)}
  <2>1. PICK i \in DOMAIN t : t[i] = x
    BY DEF ToSet
  <2>2. i + 1 \in DOMAIN q /\ q[i + 1] = x /\ i + 1 # 1
    BY <1>1, <2>1
  <2>3. x # q[1]
    BY <1>1, <2>2 DEF Distinct
  <2> QED BY <1>1, <2>2, <2>3 DEF ToSet
<1>5. Head(q) \in ToSet(q)
  BY <1>1 DEF ToSet
<1> QED BY <1>2, <1>3, <1>4, <1>5 DEF t

\* The messages there are when one is added at the end.
LEMMA AppendAt ==
    ASSUME NEW S, NEW q \in Seq(S), NEW x \in S
    PROVE  /\ Append(q, x) \in Seq(S) /\ Len(q) \in Nat /\ DOMAIN q = 1..Len(q)
           /\ DOMAIN Append(q, x) = 1..(Len(q) + 1) /\ Append(q, x)[Len(q) + 1] = x
           /\ \A i \in DOMAIN q : Append(q, x)[i] = q[i]
OBVIOUS

\* ... and they are still distinct if it is new.
LEMMA AppendOnce ==
    ASSUME NEW S, NEW q \in Seq(S), NEW x \in S, Distinct(q), x \notin ToSet(q)
    PROVE  Distinct(Append(q, x)) /\ ToSet(Append(q, x)) = ToSet(q) \cup {x}
<1> DEFINE t == Append(q, x)
<1>1. /\ Len(q) \in Nat /\ DOMAIN q = 1..Len(q) /\ DOMAIN t = 1..(Len(q) + 1)
      /\ t[Len(q) + 1] = x /\ \A i \in DOMAIN q : t[i] = q[i]
  BY AppendAt
<1> HIDE DEF t
<1>2. \A i \in DOMAIN t : i \in DOMAIN q \/ i = Len(q) + 1
  BY <1>1
<1>3. \A i \in DOMAIN q : i \in DOMAIN t /\ q[i] # x
  BY <1>1 DEF ToSet
<1>4. Distinct(t)
  BY <1>1, <1>2, <1>3 DEF Distinct
<1>5. Len(q) + 1 \in DOMAIN t
  BY <1>1
<1>6. ToSet(t) = ToSet(q) \cup {x}
  BY <1>1, <1>2, <1>3, <1>5 DEF ToSet
<1> QED BY <1>4, <1>6 DEF t

\* The same for the frames of a wire.
LEMMA FrameTail ==
    ASSUME NEW S, NEW w \in Seq(S), w # <<>>, DistinctFrames(w)
    PROVE  /\ DistinctFrames(Tail(w)) /\ Frames(Tail(w)) = Frames(w) \ {Head(w).msg}
           /\ Head(w).msg \in Frames(w)
<1> DEFINE t == Tail(w)
<1>1. /\ Head(w) = w[1] /\ 1 \in DOMAIN w /\ Len(w) \in Nat
      /\ DOMAIN w = 1..Len(w) /\ DOMAIN t = 1..(Len(w) - 1)
      /\ \A i \in DOMAIN t : i + 1 \in DOMAIN w /\ t[i] = w[i + 1]
  BY TailAt
<1> HIDE DEF t
<1>2. DistinctFrames(t)
  BY <1>1 DEF DistinctFrames
<1>3. \A x : (x \in Frames(w) <=> \E i \in DOMAIN w : x = w[i].msg)
             /\ (x \in Frames(t) <=> \E i \in DOMAIN t : x = t[i].msg)
  BY DEF Frames, ToSet
<1>4. ASSUME NEW x \in Frames(w), x # Head(w).msg PROVE x \in Frames(t)
  <2>1. PICK i \in DOMAIN w : x = w[i].msg
    BY <1>3
  <2>2. i # 1 /\ i - 1 \in DOMAIN t /\ t[i - 1] = w[i]
    BY <1>1, <1>4, <2>1
  <2> QED BY <1>3, <2>1, <2>2
<1>5. ASSUME NEW x \in Frames(t) PROVE x \in Frames(w) /\ x # Head(w).msg
  <2>1. PICK i \in DOMAIN t : x = t[i].msg
    BY <1>3
  <2>2. i + 1 \in DOMAIN w /\ w[i + 1].msg = x /\ i + 1 # 1
    BY <1>1, <2>1
  <2>3. x # w[1].msg
    BY <1>1, <2>2 DEF DistinctFrames
  <2> QED BY <1>1, <1>3, <2>2, <2>3
<1>6. Head(w).msg \in Frames(w)
  BY <1>1, <1>3
<1> QED BY <1>2, <1>4, <1>5, <1>6 DEF t

\* ... and for a frame that is written.
LEMMA FrameAppend ==
    ASSUME NEW S, NEW w \in Seq(S), NEW f \in S, DistinctFrames(w), f.msg \notin Frames(w)
    PROVE  DistinctFrames(Append(w, f)) /\ Frames(Append(w, f)) = Frames(w) \cup {f.msg}
<1> DEFINE t == Append(w, f)
<1>1. /\ Len(w) \in Nat /\ DOMAIN w = 1..Len(w) /\ DOMAIN t = 1..(Len(w) + 1)
      /\ t[Len(w) + 1] = f /\ \A i \in DOMAIN w : t[i] = w[i]
  BY AppendAt
<1> HIDE DEF t
<1>2. \A i \in DOMAIN t : i \in DOMAIN w \/ i = Len(w) + 1
  BY <1>1
<1>3. \A i \in DOMAIN w : i \in DOMAIN t /\ w[i].msg # f.msg
  BY <1>1 DEF Frames, ToSet
<1>4. DistinctFrames(t)
  BY <1>1, <1>2, <1>3 DEF DistinctFrames
<1>5. Len(w) + 1 \in DOMAIN t
  BY <1>1
<1>6. \A x : (x \in Frames(w) <=> \E i \in DOMAIN w : x = w[i].msg)
             /\ (x \in Frames(t) <=> \E i \in DOMAIN t : x = t[i].msg)
  BY DEF Frames, ToSet
<1>7. Frames(t) = Frames(w) \cup {f.msg}
  BY <1>1, <1>2, <1>3, <1>5, <1>6
<1> QED BY <1>4, <1>7 DEF t

-----------------------------------------------------------------------------
(* Shape: the types of lanes and streams.                                   *)

Phases  == {"idle", "send", "handshake", "write"}
Servers == {"backlog", "accepted", "replied", "open", "closed"}
Lane    == [phase : Phases, msg : Message \cup {0}, retried : BOOLEAN, id : Nat,
            counter : Nat, established : Nat]
Frame   == [key : Nat, counter : Nat, msg : Message]
Stream  == [owner : Senders, client : BOOLEAN, server : Servers, wire : Seq(Frame),
            counter : Nat, established : Nat]

\* A worker that is not idle has a message, and one that talks to its peer a stream.
LaneShape(l) ==
    /\ l.phase # "idle" => l.msg \in Message
    /\ l.phase \in {"handshake", "write"} => l.id # 0

Shape ==
    /\ now \in 0..MaxTime
    /\ sent \subseteq Message
    /\ queue \in [Senders -> Seq(Message)]
    /\ lane \in [Senders -> Lane]
    /\ streams \in Seq(Stream)
    /\ \A s \in Senders : LaneShape(lane[s]) /\ lane[s].id <= Len(streams)

\* What a worker becomes is a worker.
LEMMA LaneTypes ==
    ASSUME Shape, PeerSessionAssumption, NEW l \in Lane
    PROVE  /\ Idle(l) \in Lane /\ Established(l) \in Lane /\ AfterWrite(l) \in Lane /\ AfterError(l) \in Lane
           /\ [Idle(l) EXCEPT !.id = 0] \in Lane
<1>1. now \in Nat
  BY DEF Shape, PeerSessionAssumption
<1>2. Idle(l) \in Lane
  BY DEF Idle, Lane, Phases
<1>3. \A k \in Lane : /\ [k EXCEPT !.id = 0] \in Lane
                      /\ k.counter \in Nat /\ \A c \in Nat : [k EXCEPT !.counter = c] \in Lane
  BY DEF Lane
<1>4. Established(l) \in Lane
  BY <1>1 DEF Established, Lane, Phases
<1>5. AfterWrite(l) \in Lane
  <2> DEFINE k == Idle(l)
             c == IF policy.encrypt THEN k.counter + 1 ELSE k.counter
  <2>0. k.counter \in Nat
    BY <1>2, <1>3
  <2>1. c \in Nat
    <3> HIDE DEF k
    <3> QED BY <2>0
  <2>2. AfterWrite(l) = [k EXCEPT !.counter = c]
    BY DEF AfterWrite
  <2> QED BY <1>2, <1>3, <2>1, <2>2
<1>6. AfterError(l) \in Lane
  BY <1>2, <1>3 DEF AfterError, Lane, Phases
<1> QED BY <1>2, <1>3, <1>4, <1>5, <1>6

\* Closing a lane's stream changes only its client end.
LEMMA ClosedTypes ==
    ASSUME NEW ss \in Seq(Stream), NEW l \in Lane, l.id <= Len(ss)
    PROVE  /\ Closed(l, ss) \in Seq(Stream) /\ Len(Closed(l, ss)) = Len(ss)
           /\ DOMAIN Closed(l, ss) = DOMAIN ss
           /\ \A i \in DOMAIN ss : Closed(l, ss)[i] = IF i = l.id THEN [ss[i] EXCEPT !.client = FALSE] ELSE ss[i]
<1>1. CASE l.id = 0
  BY <1>1 DEF Closed
<1>2. CASE l.id # 0
  <2>1. l.id \in 1..Len(ss) /\ ss[l.id] \in Stream
    BY <1>2 DEF Lane
  <2>2. [ss[l.id] EXCEPT !.client = FALSE] \in Stream
    BY <2>1 DEF Stream
  <2> DEFINE st == [ss[l.id] EXCEPT !.client = FALSE]
  <2>3. Closed(l, ss) = [ss EXCEPT ![l.id] = st]
    BY <1>2 DEF Closed
  <2>4. /\ [ss EXCEPT ![l.id] = st] \in Seq(Stream) /\ Len([ss EXCEPT ![l.id] = st]) = Len(ss)
        /\ \A i \in 1..Len(ss) : [ss EXCEPT ![l.id] = st][i] = IF i = l.id THEN st ELSE ss[i]
    BY <2>1, <2>2, ExceptSeq
  <2>5. DOMAIN ss = 1..Len(ss) /\ DOMAIN [ss EXCEPT ![l.id] = st] = DOMAIN ss
    OBVIOUS
  <2> QED BY <2>3, <2>4, <2>5
<1> QED BY <1>1, <1>2

\* Replacing one stream.
LEMMA StreamExcept ==
    ASSUME NEW ss \in Seq(Stream), NEW id \in DOMAIN ss, NEW st \in Stream
    PROVE  /\ [ss EXCEPT ![id] = st] \in Seq(Stream) /\ Len([ss EXCEPT ![id] = st]) = Len(ss)
           /\ DOMAIN [ss EXCEPT ![id] = st] = DOMAIN ss
           /\ \A i \in DOMAIN ss : [ss EXCEPT ![id] = st][i] = IF i = id THEN st ELSE ss[i]
<1>1. DOMAIN ss = 1..Len(ss) /\ DOMAIN [ss EXCEPT ![id] = st] = DOMAIN ss
  OBVIOUS
<1> QED BY <1>1, ExceptSeq

\* What the receiver does to a stream: it admits or drops it, goes on with the
\* handshake, ends it, or delivers its first frame.
Serves(id, st) ==
    /\ st \in Stream
    /\ streams' = [streams EXCEPT ![id] = st]
    /\ st.client = streams[id].client /\ st.owner = streams[id].owner
    /\ streams[id].server # "closed"
    /\ \/ /\ streams[id].server = "backlog" /\ st.server \in {"accepted", "closed"}
          /\ st.server = "accepted" => HasPermit
          /\ st.wire = streams[id].wire /\ st.counter = streams[id].counter /\ UNCHANGED received
       \/ /\ streams[id].server \in {"accepted", "replied"} /\ st.server \in {"replied", "open"}
          /\ st.wire = streams[id].wire /\ st.counter = streams[id].counter /\ UNCHANGED received
       \/ st.server = "closed" /\ st.wire = <<>> /\ UNCHANGED received
       \/ /\ streams[id].server = "open" /\ st.server = "open" /\ streams[id].wire # <<>>
          /\ st.wire = Tail(streams[id].wire)
          /\ st.counter = IF policy.encrypt THEN streams[id].counter + 1 ELSE streams[id].counter
          /\ received' = received \cup {Head(streams[id].wire).msg}

\* ... and to nothing else.
LEMMA InboundMoves ==
    ASSUME Shape, PeerSessionAssumption, NEW id \in DOMAIN streams,
           \/ Accept(id) \/ DropInbound(id) \/ Reply(id) \/ Stamp(id)
           \/ ReadFrame(id) \/ ReadEnd(id) \/ Reset(id)
    PROVE  /\ UNCHANGED <<now, policy, sent, queue, lane, observed, failed>>
           /\ \E st : Serves(id, st)
<1> DEFINE st0 == streams[id]
<1>1. st0 \in Stream /\ st0.wire \in Seq(Frame) /\ st0.counter \in Nat /\ now \in Nat
  <2>1. st0 \in Stream
    BY DEF Shape
  <2>2. now \in Nat
    BY DEF Shape, PeerSessionAssumption
  <2> QED BY <2>1, <2>2 DEF Stream
<1>2. UNCHANGED <<now, policy, sent, queue, lane, observed, failed>>
  BY DEF Accept, DropInbound, Reply, Stamp, ReadFrame, ReadEnd, Reset, reports, Received
<1>3. \A v \in Servers : LET st == [st0 EXCEPT !.server = v]
                         IN  /\ st \in Stream /\ st.server = v /\ st.client = st0.client
                             /\ st.owner = st0.owner /\ st.wire = st0.wire /\ st.counter = st0.counter
  BY <1>1 DEF Stream
<1>4. "accepted" \in Servers /\ "replied" \in Servers /\ "open" \in Servers /\ "closed" \in Servers
  BY DEF Servers
<1>5. CASE Accept(id)
  <2> DEFINE st == [st0 EXCEPT !.server = "accepted"]
  <2>1. /\ streams' = [streams EXCEPT ![id] = st] /\ st0.server = "backlog" /\ HasPermit
        /\ UNCHANGED received
    BY <1>5 DEF Accept, reports
  <2>2. Serves(id, st)
    BY <1>3, <1>4, <2>1 DEF Serves
  <2> QED BY <1>2, <2>2
<1>6. CASE DropInbound(id)
  <2> DEFINE st == [st0 EXCEPT !.server = "closed"]
  <2>1. /\ streams' = [streams EXCEPT ![id] = st] /\ st0.server = "backlog"
        /\ UNCHANGED received
    BY <1>6 DEF DropInbound, reports
  <2>2. Serves(id, st)
    BY <1>3, <1>4, <2>1 DEF Serves
  <2> QED BY <1>2, <2>2
<1>7. CASE Reply(id)
  <2> DEFINE st == [st0 EXCEPT !.server = "replied"]
  <2>1. /\ streams' = [streams EXCEPT ![id] = st] /\ st0.server = "accepted"
        /\ UNCHANGED received
    BY <1>7 DEF Reply, reports
  <2>2. Serves(id, st)
    BY <1>3, <1>4, <2>1 DEF Serves
  <2> QED BY <1>2, <2>2
<1>8. CASE Stamp(id)
  <2> DEFINE st == [st0 EXCEPT !.server = "open", !.established = now]
  <2>1. /\ streams' = [streams EXCEPT ![id] = st] /\ st0.server = "replied"
        /\ UNCHANGED received
    BY <1>8 DEF Stamp, reports
  <2>2. /\ st \in Stream /\ st.server = "open" /\ st.client = st0.client
        /\ st.owner = st0.owner /\ st.wire = st0.wire /\ st.counter = st0.counter
    BY <1>1, <1>4 DEF Stream
  <2>3. Serves(id, st)
    BY <2>1, <2>2 DEF Serves
  <2> QED BY <1>2, <2>3
<1>9. CASE ReadEnd(id)
  <2> DEFINE st == [st0 EXCEPT !.server = "closed"]
  <2>1. /\ streams' = [streams EXCEPT ![id] = st] /\ st0.server = "open" /\ st0.wire = <<>>
        /\ UNCHANGED received
    BY <1>9 DEF ReadEnd, Ends, reports
  <2>2. Serves(id, st)
    BY <1>3, <1>4, <2>1 DEF Serves
  <2> QED BY <1>2, <2>2
<1> DEFINE ended == [st0 EXCEPT !.server = "closed", !.wire = <<>>]
<1>10. /\ ended \in Stream /\ ended.server = "closed" /\ ended.wire = <<>> /\ ended.client = st0.client
       /\ ended.owner = st0.owner
  <2>1. <<>> \in Seq(Frame)
    OBVIOUS
  <2> QED BY <1>1, <1>4, <2>1 DEF Stream
<1>11. CASE Reset(id)
  <2>1. streams' = [streams EXCEPT ![id] = ended] /\ UNCHANGED received /\ st0.server # "closed"
    BY <1>11 DEF Reset, Holds, reports
  <2>2. Serves(id, ended)
    BY <1>10, <2>1 DEF Serves
  <2> QED BY <1>2, <2>2
<1>12. CASE ReadFrame(id)
  <2> DEFINE c == IF policy.encrypt THEN st0.counter + 1 ELSE st0.counter
             read == [st0 EXCEPT !.wire = Tail(st0.wire), !.counter = c]
  <2>1. st0.server = "open" /\ st0.wire # <<>>
    BY <1>12 DEF ReadFrame
  <2>2. \/ streams' = [streams EXCEPT ![id] = ended] /\ UNCHANGED received
        \/ /\ streams' = [streams EXCEPT ![id] = read]
           /\ received' = received \cup {Head(st0.wire).msg}
    BY <1>12 DEF ReadFrame, Received, reports
  <2>3. Tail(st0.wire) \in Seq(Frame)
    BY <1>1, <2>1, TailAt
  <2>4. c \in Nat
    <3> HIDE DEF st0
    <3> QED BY <1>1
  <2> HIDE DEF c
  <2>5. /\ read \in Stream /\ read.server = st0.server /\ read.client = st0.client
        /\ read.owner = st0.owner /\ read.wire = Tail(st0.wire) /\ read.counter = c
    BY <1>1, <2>3, <2>4 DEF Stream
  <2>6. CASE streams' = [streams EXCEPT ![id] = ended] /\ UNCHANGED received
    <3>1. Serves(id, ended)
      BY <1>10, <2>1, <2>6 DEF Serves
    <3> QED BY <1>2, <3>1
  <2>7. CASE streams' = [streams EXCEPT ![id] = read] /\ received' = received \cup {Head(st0.wire).msg}
    <3>1. Serves(id, read)
      <4> HIDE DEF read
      <4> QED BY <2>1, <2>5, <2>7 DEF Serves, c
    <3> QED BY <1>2, <3>1
  <2> QED BY <2>2, <2>6, <2>7
<1> QED BY <1>5, <1>6, <1>7, <1>8, <1>9, <1>11, <1>12

\* The stream that Connect opens.
NewStream(s) == [owner |-> s, client |-> TRUE, server |-> "backlog",
                 wire |-> <<>>, counter |-> 0, established |-> 0]

\* What a worker does to become l: it takes a request, goes on with the one in hand,
\* gives it up, or writes it.
Takes(s, l) ==
    /\ lane[s].phase = "idle" /\ queue[s] # <<>>
    /\ queue' = [queue EXCEPT ![s] = Tail(@)]
    /\ l.id = lane[s].id /\ l.counter = lane[s].counter
    /\ \/ l.phase = "idle" /\ failed' = failed \cup {Head(queue[s])} /\ UNCHANGED observed
       \/ l.phase = "send" /\ l.msg = Head(queue[s]) /\ UNCHANGED <<observed, failed>>
    /\ UNCHANGED streams

GoesOn(s, l) ==
    /\ lane[s].phase # "idle" /\ l.phase # "idle" /\ l.msg = lane[s].msg
    /\ \/ /\ lane[s].phase = "send" /\ lane[s].id # 0 /\ l.phase = "write"
          /\ l.id = lane[s].id /\ l.counter = lane[s].counter /\ UNCHANGED streams
       \/ /\ l.phase = "handshake" /\ l.id = Len(streams) + 1
          /\ streams' = Append(Closed(lane[s], streams), NewStream(s))
       \/ /\ lane[s].phase = "handshake" /\ streams[lane[s].id].server \in {"replied", "open"}
          /\ l.phase = "write" /\ l.id = lane[s].id /\ l.counter = 0 /\ UNCHANGED streams
       \/ l.phase = "send" /\ l.id = 0 /\ streams' = Closed(lane[s], streams)
    /\ UNCHANGED <<queue, observed, failed>>

GivesUp(s, l) ==
    /\ lane[s].phase # "idle" /\ l.phase = "idle" /\ l.id = 0
    /\ streams' = Closed(lane[s], streams)
    /\ failed' = failed \cup {lane[s].msg}
    /\ UNCHANGED <<queue, observed>>

Writes(s, l) ==
    /\ lane[s].phase = "write" /\ l.phase = "idle" /\ l.id = lane[s].id
    /\ l.counter = IF policy.encrypt THEN lane[s].counter + 1 ELSE lane[s].counter
    /\ streams' = IF streams[l.id].server = "closed" THEN streams
                  ELSE [streams EXCEPT ![l.id].wire = Append(@, EncryptFrame(lane[s]))]
    /\ observed' = observed \cup {lane[s].msg}
    /\ UNCHANGED <<queue, failed>>

Works(s, l) ==
    /\ l \in Lane /\ lane' = [lane EXCEPT ![s] = l]
    /\ UNCHANGED <<now, policy, sent, received>>
    /\ Takes(s, l) \/ GoesOn(s, l) \/ GivesUp(s, l) \/ Writes(s, l)

\* ... and nothing else.
LEMMA WorkerMoves ==
    ASSUME Shape, PeerSessionAssumption, NEW s \in Senders, Worker(s)
    PROVE  \E l : Works(s, l)
<1> DEFINE l0 == lane[s]
<1>1. l0 \in Lane /\ LaneShape(l0) /\ queue[s] \in Seq(Message) /\ streams \in Seq(Stream)
  BY DEF Shape
<1>2. /\ Idle(l0) \in Lane /\ Established(l0) \in Lane /\ AfterWrite(l0) \in Lane /\ AfterError(l0) \in Lane
      /\ [Idle(l0) EXCEPT !.id = 0] \in Lane
  BY <1>1, LaneTypes
<1>3. CASE Take(s)
  <2> DEFINE m == Head(queue[s])
             l == [l0 EXCEPT !.phase = "send", !.msg = m]
  <2>1. queue[s] # <<>> /\ l0.phase = "idle"
    BY <1>3 DEF Take
  <2>2. m \in Message
    BY <1>1, <2>1, TailAt
  <2>3. CASE ShouldDrop(m)
    <3>1. lane' = [lane EXCEPT ![s] = l0]
      BY <1>3, <2>3 DEF Take, Shape
    <3>2. Works(s, l0)
      BY <1>1, <1>3, <2>1, <2>3, <3>1 DEF Works, Takes, Take, SessionFailed
    <3> QED BY <3>2
  <2>4. CASE ~ShouldDrop(m)
    <3>1. /\ l \in Lane /\ l.phase = "send" /\ l.msg = m /\ l.id = l0.id /\ l.counter = l0.counter
      BY <1>1, <2>2 DEF Lane, Phases
    <3>2. lane' = [lane EXCEPT ![s] = l] /\ UNCHANGED reports
      BY <1>3, <2>4 DEF Take
    <3> HIDE DEF l
    <3>3. Works(s, l)
      BY <1>3, <2>1, <3>1, <3>2 DEF Works, Takes, Take, reports
    <3> QED BY <3>3
  <2> QED BY <2>3, <2>4
<1>4. CASE Reuse(s)
  <2> DEFINE l == [l0 EXCEPT !.phase = "write"]
  <2>1. l \in Lane /\ l.phase = "write" /\ l.msg = l0.msg /\ l.id = l0.id /\ l.counter = l0.counter
    BY <1>1 DEF Lane, Phases
  <2>2. lane' = [lane EXCEPT ![s] = l]
    BY <1>4 DEF Reuse
  <2> HIDE DEF l
  <2>3. Works(s, l)
    BY <1>4, <2>1, <2>2 DEF Works, GoesOn, Reuse, reports
  <2> QED BY <2>3
<1>5. CASE Connect(s)
  <2> DEFINE k == Len(streams) + 1
             l == [l0 EXCEPT !.phase = "handshake", !.id = k]
  <2>1. k \in Nat
    BY <1>1
  <2> HIDE DEF k
  <2>2. l \in Lane /\ l.phase = "handshake" /\ l.msg = l0.msg /\ l.id = k
    BY <1>1, <2>1 DEF Lane, Phases
  <2>3. lane' = [lane EXCEPT ![s] = l]
    BY <1>5 DEF Connect, k
  <2> HIDE DEF l
  <2>4. Works(s, l)
    BY <1>5, <2>2, <2>3 DEF Works, GoesOn, Connect, reports, NewStream, k
  <2> QED BY <2>4
<1>6. CASE Finalize(s)
  <2> DEFINE l == Established(l0)
  <2>1. l.phase = "write" /\ l.msg = l0.msg /\ l.id = l0.id /\ l.counter = 0
    BY <1>1 DEF Lane, Established
  <2>2. lane' = [lane EXCEPT ![s] = l]
    BY <1>6 DEF Finalize
  <2> HIDE DEF l
  <2>3. l \in Lane
    BY <1>2 DEF l
  <2>4. Works(s, l)
    BY <1>6, <2>1, <2>2, <2>3 DEF Works, GoesOn, Finalize, reports
  <2> QED BY <2>4
<1> DEFINE quit == [Idle(l0) EXCEPT !.id = 0]
<1>7. quit.phase = "idle" /\ quit.id = 0
  BY <1>1 DEF Idle, Lane
<1>8. CASE ConnectFails(s) \/ HandshakeFails(s)
  <2>1. lane' = [lane EXCEPT ![s] = quit]
    BY <1>8 DEF ConnectFails, HandshakeFails
  <2>2. quit \in Lane
    BY <1>2
  <2> HIDE DEF quit
  <2>3. Works(s, quit)
    BY <1>7, <1>8, <2>1, <2>2 DEF Works, GivesUp, ConnectFails, HandshakeFails, SessionFailed
  <2> QED BY <2>3
<1>9. CASE WriteOk(s)
  <2> DEFINE l == AfterWrite(l0)
  <2>1. /\ l.phase = "idle" /\ l.id = l0.id
        /\ l.counter = IF policy.encrypt THEN l0.counter + 1 ELSE l0.counter
    BY <1>1 DEF Lane, AfterWrite, Idle
  <2>2. lane' = [lane EXCEPT ![s] = l] /\ l \in Lane
    BY <1>2, <1>9 DEF WriteOk
  <2> HIDE DEF l
  <2>3. Works(s, l)
    BY <1>9, <2>1, <2>2 DEF Works, Writes, WriteOk, SessionObserved
  <2> QED BY <2>3
<1>10. CASE WriteFails(s)
  <2> DEFINE l == AfterError(l0)
  <2>1. lane' = [lane EXCEPT ![s] = l] /\ l \in Lane
    BY <1>2, <1>10 DEF WriteFails
  <2>2. CASE l0.retried
    <3>1. l = quit
      BY <2>2 DEF AfterError
    <3> HIDE DEF l, quit
    <3>2. failed' = failed \cup {l0.msg} /\ UNCHANGED <<received, observed>>
      BY <1>7, <1>10, <3>1 DEF WriteFails, SessionFailed, l
    <3>3. Works(s, l)
      BY <1>7, <1>10, <2>1, <3>1, <3>2 DEF Works, GivesUp, WriteFails
    <3> QED BY <3>3
  <2>3. CASE ~l0.retried
    <3>1. l.phase = "send" /\ l.id = 0 /\ l.msg = l0.msg
      BY <1>1, <2>3 DEF AfterError, Lane
    <3> HIDE DEF l
    <3>2. UNCHANGED reports
      BY <1>10, <3>1 DEF WriteFails, l
    <3>3. Works(s, l)
      BY <1>10, <2>1, <3>1, <3>2 DEF Works, GoesOn, WriteFails, reports
    <3> QED BY <3>3
  <2> QED BY <2>2, <2>3
<1> QED BY <1>3, <1>4, <1>5, <1>6, <1>8, <1>9, <1>10 DEF Worker

\* What the worker's step leaves of the streams: its own loses the client end or
\* gets a frame, and a new one may be there.
LEMMA WorkStreams ==
    ASSUME Shape, NEW s \in Senders, NEW l, Works(s, l)
    PROVE  /\ streams' \in Seq(Stream)
           /\ DOMAIN streams = 1..Len(streams) /\ DOMAIN streams' = 1..Len(streams')
           /\ Len(streams) \in Nat /\ Len(streams') \in {Len(streams), Len(streams) + 1}
           /\ Len(streams') = Len(streams) + 1 <=> l.phase = "handshake"
           /\ l.phase = "handshake" => streams'[Len(streams) + 1] = NewStream(s) /\ l.id = Len(streams) + 1
           /\ l.phase # "handshake" => l.id \in {0, lane[s].id}
           /\ \A i \in DOMAIN streams :
                /\ i # lane[s].id => streams'[i] = streams[i]
                /\ l.id = i => streams'[i].client = streams[i].client
                /\ streams'[i].owner = streams[i].owner /\ streams'[i].server = streams[i].server
                /\ streams'[i].counter = streams[i].counter
                /\ streams'[i].wire = IF Writes(s, l) /\ i = l.id /\ streams[i].server # "closed"
                                      THEN Append(streams[i].wire, EncryptFrame(lane[s]))
                                      ELSE streams[i].wire
<1> DEFINE l0 == lane[s]
           ss == Closed(l0, streams)
<1>1. /\ l0 \in Lane /\ LaneShape(l0) /\ l0.id <= Len(streams) /\ streams \in Seq(Stream)
      /\ Len(streams) \in Nat /\ DOMAIN streams = 1..Len(streams) /\ l0.id \in Nat
  BY DEF Shape, Lane
<1>2. /\ ss \in Seq(Stream) /\ Len(ss) = Len(streams) /\ DOMAIN ss = DOMAIN streams
      /\ \A i \in DOMAIN streams :
            /\ i # l0.id => ss[i] = streams[i]
            /\ ss[i].owner = streams[i].owner /\ ss[i].server = streams[i].server
            /\ ss[i].counter = streams[i].counter /\ ss[i].wire = streams[i].wire
  <2>1. /\ ss \in Seq(Stream) /\ Len(ss) = Len(streams) /\ DOMAIN ss = DOMAIN streams
        /\ \A i \in DOMAIN streams : ss[i] = IF i = l0.id THEN [streams[i] EXCEPT !.client = FALSE] ELSE streams[i]
    BY <1>1, ClosedTypes
  <2>2. \A i \in DOMAIN streams : streams[i] \in Stream
    BY <1>1
  <2>3. \A st \in Stream : LET c == [st EXCEPT !.client = FALSE]
                           IN  c.owner = st.owner /\ c.server = st.server /\ c.counter = st.counter /\ c.wire = st.wire
    BY DEF Stream
  <2> HIDE DEF ss
  <2> QED BY <2>1, <2>2, <2>3
<1>0. Len(streams) # Len(streams) + 1 /\ \A i \in DOMAIN streams : i # 0 /\ i # Len(streams) + 1
  <2>1. \A k \in Nat : k # k + 1 /\ \A i \in 1..k : i # 0 /\ i # k + 1
    OBVIOUS
  <2> QED BY <1>1, <2>1
<1>3. CASE streams' = streams /\ l.id = l0.id /\ l.phase # "handshake" /\ ~Writes(s, l)
  BY <1>0, <1>1, <1>3
<1>4. CASE streams' = ss /\ l.id = 0 /\ l.phase # "handshake" /\ ~Writes(s, l)
  <2> HIDE DEF ss
  <2>1. /\ streams' \in Seq(Stream) /\ DOMAIN streams' = 1..Len(streams')
        /\ Len(streams') = Len(streams)
    BY <1>1, <1>2, <1>4
  <2> QED BY <1>0, <1>1, <1>2, <1>4, <2>1
<1>5. CASE l.phase = "handshake" /\ l.id = Len(streams) + 1 /\ streams' = Append(ss, NewStream(s))
  <2>1. NewStream(s) \in Stream
    <3>1. <<>> \in Seq(Frame)
      OBVIOUS
    <3> QED BY <3>1 DEF NewStream, Stream, Servers
  <2>2. /\ streams' \in Seq(Stream) /\ DOMAIN streams' = 1..(Len(ss) + 1) /\ streams'[Len(ss) + 1] = NewStream(s)
        /\ \A i \in DOMAIN ss : streams'[i] = ss[i]
    <3> HIDE DEF ss
    <3> QED BY <1>2, <1>5, <2>1, AppendAt
  <2>3. Len(streams') = Len(streams) + 1
    BY <1>1, <1>2, <2>2
  <2>4. ~Writes(s, l)
    BY <1>5 DEF Writes
  <2> HIDE DEF ss
  <2>5. DOMAIN streams' = 1..Len(streams')
    BY <2>2
  <2> QED BY <1>0, <1>1, <1>2, <1>5, <2>2, <2>3, <2>4, <2>5
<1>6. CASE Writes(s, l)
  <2>1. l0.phase = "write" /\ l.id = l0.id /\ l.phase = "idle" /\ l.id \in DOMAIN streams
    BY <1>1, <1>6 DEF Writes, LaneShape
  <2>2. CASE streams[l.id].server = "closed"
    BY <1>0, <1>1, <1>6, <2>1, <2>2 DEF Writes
  <2>3. CASE streams[l.id].server # "closed"
    <3> DEFINE st0 == streams[l.id]
               f == EncryptFrame(l0)
               w == Append(st0.wire, f)
               st == [st0 EXCEPT !.wire = w]
    <3>1. f \in Frame
      BY <1>1, <2>1 DEF EncryptFrame, Frame, Lane, LaneShape
    <3>2. st0 \in Stream /\ st0.wire \in Seq(Frame)
      <4>1. st0 \in Stream
        BY <1>1, <2>1
      <4> QED BY <4>1 DEF Stream
    <3>3. w \in Seq(Frame)
      <4> HIDE DEF st0, f
      <4> QED BY <3>1, <3>2, AppendAt
    <3>4. streams' = [streams EXCEPT ![l.id] = st]
      BY <1>6, <2>3 DEF Writes
    <3> HIDE DEF w, st0
    <3>5. /\ st \in Stream /\ st.owner = st0.owner /\ st.server = st0.server /\ st.client = st0.client
          /\ st.counter = st0.counter /\ st.wire = w
      BY <3>2, <3>3 DEF Stream
    <3> HIDE DEF st
    <3>6. /\ streams' \in Seq(Stream) /\ Len(streams') = Len(streams) /\ DOMAIN streams' = DOMAIN streams
          /\ \A i \in DOMAIN streams : streams'[i] = IF i = l.id THEN st ELSE streams[i]
      BY <1>1, <2>1, <3>4, <3>5, StreamExcept
    <3>7. \A i \in DOMAIN streams :
                /\ i # l0.id => streams'[i] = streams[i]
                /\ l.id = i => streams'[i].client = streams[i].client
                /\ streams'[i].owner = streams[i].owner /\ streams'[i].server = streams[i].server
                /\ streams'[i].counter = streams[i].counter
                /\ streams'[i].wire = IF i = l.id THEN w ELSE streams[i].wire
      BY <2>1, <3>5, <3>6 DEF st0
    <3>8. \A i \in DOMAIN streams :
                streams'[i].wire = IF Writes(s, l) /\ i = l.id /\ streams[i].server # "closed"
                                   THEN Append(streams[i].wire, f) ELSE streams[i].wire
      BY <1>6, <2>3, <3>7 DEF w, st0
    <3> HIDE DEF f
    <3>9. Len(streams') # Len(streams) + 1
      BY <1>0, <3>6
    <3>10. DOMAIN streams' = 1..Len(streams')
      BY <3>6
    <3> QED BY <1>1, <2>1, <3>6, <3>7, <3>8, <3>9, <3>10 DEF f
  <2> QED BY <2>2, <2>3
<1>7. CASE Takes(s, l) /\ ~Writes(s, l)
  BY <1>3, <1>7 DEF Takes
<1>8. CASE (GoesOn(s, l) \/ GivesUp(s, l)) /\ ~Writes(s, l)
  BY <1>3, <1>4, <1>5, <1>8 DEF GoesOn, GivesUp
<1> QED BY <1>6, <1>7, <1>8 DEF Works

\* Every step is one of these, or one of Enqueue and Tick.
LEMMA StepMoves ==
    ASSUME Shape, PeerSessionAssumption, Next
    PROVE  \/ \E m \in Message : Enqueue(m)
           \/ \E s \in Senders, l \in Lane : Works(s, l)
           \/ \E id \in DOMAIN streams, st \in Stream :
                 Serves(id, st) /\ UNCHANGED <<now, policy, sent, queue, lane, observed, failed>>
           \/ Tick
<1>1. ASSUME NEW s \in Senders, Worker(s) PROVE \E l \in Lane : Works(s, l)
  BY <1>1, WorkerMoves DEF Works
<1>2. ASSUME NEW id \in DOMAIN streams,
             \/ Accept(id) \/ DropInbound(id) \/ Reply(id) \/ Stamp(id)
             \/ ReadFrame(id) \/ ReadEnd(id) \/ Reset(id)
      PROVE  \E st \in Stream :
                 Serves(id, st) /\ UNCHANGED <<now, policy, sent, queue, lane, observed, failed>>
  BY <1>2, InboundMoves DEF Serves
<1> QED BY <1>1, <1>2 DEF Next, Listener, Inbound

\* Every step keeps the shape.
LEMMA ShapeStep ==
    ASSUME Shape, PeerSessionAssumption, [Next]_vars
    PROVE  Shape'
<1>1. ASSUME NEW m \in Message, Enqueue(m) PROVE Shape'
  <2>1. From[m] \in Senders /\ Append(queue[From[m]], m) \in Seq(Message)
    BY AppendAt DEF Shape, PeerSessionAssumption
  <2>2. queue' \in [Senders -> Seq(Message)]
    BY <1>1, <2>1 DEF Shape, Enqueue
  <2> QED BY <1>1, <2>2 DEF Shape, Enqueue
<1>2. ASSUME NEW s \in Senders, NEW l \in Lane, Works(s, l) PROVE Shape'
  <2>1. /\ streams' \in Seq(Stream) /\ Len(streams) \in Nat
        /\ Len(streams') \in {Len(streams), Len(streams) + 1}
        /\ Len(streams') = Len(streams) + 1 <=> l.phase = "handshake"
        /\ l.phase = "handshake" => l.id = Len(streams) + 1
        /\ l.phase # "handshake" => l.id \in {0, lane[s].id}
    BY <1>2, WorkStreams
  <2>2. lane \in [Senders -> Lane] /\ \A t \in Senders : lane[t].id \in Nat /\ lane[t].id <= Len(streams)
    BY DEF Shape, Lane
  <2>3. lane' = [lane EXCEPT ![s] = l] /\ lane' \in [Senders -> Lane]
    BY <1>2, <2>2 DEF Works
  <2>4. l.id <= Len(streams') /\ \A t \in Senders : lane[t].id <= Len(streams')
    BY <2>1, <2>2
  <2>5. queue[s] # <<>> => Head(queue[s]) \in Message /\ Tail(queue[s]) \in Seq(Message)
    BY TailAt DEF Shape
  <2>6. LaneShape(l)
    <3>1. LaneShape(lane[s])
      BY DEF Shape
    <3>2. CASE Takes(s, l)
      BY <2>5, <3>2 DEF Takes, LaneShape
    <3>3. CASE GoesOn(s, l)
      <4>1. lane[s].id \in Nat /\ (l.id # 0 \/ l.phase = "send")
        BY <2>1, <2>2, <3>1, <3>3 DEF GoesOn, LaneShape
      <4> QED BY <3>1, <3>3, <4>1 DEF GoesOn, LaneShape
    <3>4. CASE GivesUp(s, l) \/ Writes(s, l)
      BY <3>4 DEF GivesUp, Writes, LaneShape
    <3> QED BY <1>2, <3>2, <3>3, <3>4 DEF Works
  <2>7. \A t \in Senders : LaneShape(lane'[t]) /\ lane'[t].id <= Len(streams')
    BY <2>2, <2>3, <2>4, <2>6 DEF Shape
  <2>8. queue' \in [Senders -> Seq(Message)]
    BY <1>2, <2>5 DEF Shape, Works, Takes, GoesOn, GivesUp, Writes
  <2> QED BY <1>2, <2>1, <2>3, <2>7, <2>8 DEF Shape, Works
<1>3. ASSUME NEW id \in DOMAIN streams, NEW st \in Stream, Serves(id, st),
             UNCHANGED <<now, policy, sent, queue, lane, observed, failed>>
      PROVE  Shape'
  <2>1. streams' \in Seq(Stream) /\ Len(streams') = Len(streams)
    BY <1>3, StreamExcept DEF Serves, Shape
  <2> QED BY <1>3, <2>1 DEF Shape
<1>4. CASE Tick
  BY <1>4 DEF Tick, Shape, PeerSessionAssumption
<1>5. CASE UNCHANGED vars
  BY <1>5 DEF vars, Shape
<1> QED BY <1>1, <1>2, <1>3, <1>4, <1>5, StepMoves

-----------------------------------------------------------------------------
(* One place for each message.                                              *)

\* The inductive invariant of the refinement: a message is in one queue, in one
\* worker's hand, on one wire, delivered or lost, and never in two of these.
OnePlace ==
    /\ received \subseteq sent
    /\ \A s \in Senders :
        /\ Distinct(queue[s])
        /\ Queued(s) \cup InHand(s) \subseteq sent \ received
        /\ Queued(s) \cap InHand(s) = {}
        /\ \A m \in Queued(s) \cup InHand(s) : From[m] = s
    /\ \A id \in DOMAIN streams :
        /\ DistinctFrames(streams[id].wire)
        /\ OnWire(id) \subseteq sent \ received
        /\ \A s \in Senders : OnWire(id) \cap (Queued(s) \cup InHand(s)) = {}
        /\ \A other \in DOMAIN streams : other # id => OnWire(other) \cap OnWire(id) = {}

\* How a worker's step moves messages: from the queue into its hand, from there
\* onto a wire, or out of sight.
LEMMA WorkPlaces ==
    ASSUME Shape, OnePlace, NEW s \in Senders, NEW l \in Lane, Works(s, l)
    PROVE  /\ DOMAIN streams \subseteq DOMAIN streams'
           /\ \A t \in Senders : /\ Distinct(queue'[t])
                                 /\ t # s => Queued(t)' = Queued(t) /\ InHand(t)' = InHand(t)
           /\ \A id \in DOMAIN streams' : DistinctFrames(streams'[id].wire)
           /\ \A id \in DOMAIN streams' \ DOMAIN streams : OnWire(id)' = {}
           /\ \/ /\ \E m \in Queued(s) : Queued(s)' = Queued(s) \ {m} /\ InHand(s)' \subseteq {m}
                 /\ \A id \in DOMAIN streams : OnWire(id)' = OnWire(id)
              \/ /\ Queued(s)' = Queued(s) /\ InHand(s)' \subseteq InHand(s)
                 /\ \A id \in DOMAIN streams : OnWire(id)' = OnWire(id)
              \/ /\ Queued(s)' = Queued(s) /\ InHand(s)' = {} /\ InHand(s) = {lane[s].msg}
                 /\ \E id \in DOMAIN streams :
                      /\ OnWire(id)' = OnWire(id) \cup {lane[s].msg}
                      /\ \A other \in DOMAIN streams : other # id => OnWire(other)' = OnWire(other)
<1>1. /\ lane \in [Senders -> Lane] /\ queue \in [Senders -> Seq(Message)] /\ streams \in Seq(Stream)
      /\ lane' = [lane EXCEPT ![s] = l]
  BY DEF Shape, Works
<1>2. /\ DOMAIN streams = 1..Len(streams) /\ DOMAIN streams' = 1..Len(streams') /\ Len(streams) \in Nat
      /\ Len(streams') \in {Len(streams), Len(streams) + 1}
      /\ Len(streams') = Len(streams) + 1 <=> l.phase = "handshake"
  BY WorkStreams
<1>0. /\ l.phase = "handshake" => streams'[Len(streams) + 1] = NewStream(s)
      /\ \A i \in DOMAIN streams :
            streams'[i].wire = IF Writes(s, l) /\ i = l.id /\ streams[i].server # "closed"
                               THEN Append(streams[i].wire, EncryptFrame(lane[s]))
                               ELSE streams[i].wire
  BY WorkStreams
<1>3. /\ DOMAIN streams \subseteq DOMAIN streams'
      /\ \A id \in DOMAIN streams' \ DOMAIN streams : id = Len(streams) + 1 /\ l.phase = "handshake"
  <2>1. \A k \in Nat : \A j \in {k, k + 1} :
          1..k \subseteq 1..j /\ \A i \in (1..j) \ (1..k) : i = k + 1 /\ j = k + 1
    OBVIOUS
  <2> QED BY <1>2, <2>1
<1>4. \A id \in DOMAIN streams' \ DOMAIN streams : streams'[id].wire = <<>>
  BY <1>0, <1>3 DEF NewStream
<1>5. \A id \in DOMAIN streams' \ DOMAIN streams : OnWire(id)' = {} /\ DistinctFrames(streams'[id].wire)
  BY <1>4 DEF OnWire, Frames, ToSet, DistinctFrames
<1>6. \A t \in Senders : t # s => InHand(t)' = InHand(t)
  BY <1>1 DEF InHand
<1>7. \A id \in DOMAIN streams : streams'[id].wire = streams[id].wire =>
            OnWire(id)' = OnWire(id) /\ DistinctFrames(streams'[id].wire)
  BY <1>3 DEF OnWire, OnePlace
<1>8. ASSUME UNCHANGED queue
      PROVE  \A t \in Senders : Distinct(queue'[t]) /\ Queued(t)' = Queued(t)
  BY <1>8 DEF Queued, OnePlace
<1>9. CASE Takes(s, l)
  <2> DEFINE m == Head(queue[s])
  <2>1. queue[s] # <<>> /\ queue' = [queue EXCEPT ![s] = Tail(queue[s])]
    BY <1>9 DEF Takes
  <2>2. Distinct(Tail(queue[s])) /\ ToSet(Tail(queue[s])) = ToSet(queue[s]) \ {m} /\ m \in ToSet(queue[s])
    BY <1>1, <2>1, TailOnce DEF OnePlace
  <2>3. \A t \in Senders : Distinct(queue'[t]) /\ (t # s => Queued(t)' = Queued(t))
    BY <1>1, <2>1, <2>2 DEF OnePlace, Queued
  <2>4. m \in Queued(s) /\ Queued(s)' = Queued(s) \ {m}
    BY <1>1, <2>1, <2>2 DEF Queued
  <2>5. InHand(s)' \subseteq {m}
    BY <1>1, <1>9 DEF InHand, Takes
  <2>6. \A id \in DOMAIN streams : streams'[id].wire = streams[id].wire
    BY <1>9 DEF Takes
  <2> QED BY <1>3, <1>5, <1>6, <1>7, <2>3, <2>4, <2>5, <2>6
<1>10. CASE GoesOn(s, l) \/ GivesUp(s, l)
  <2>1. UNCHANGED queue /\ ~Writes(s, l)
    BY <1>10 DEF GoesOn, GivesUp, Writes, Shape, LaneShape
  <2>2. InHand(s)' \subseteq InHand(s)
    BY <1>1, <1>10 DEF GoesOn, GivesUp, InHand
  <2>3. \A id \in DOMAIN streams : streams'[id].wire = streams[id].wire
    BY <1>0, <2>1
  <2> QED BY <1>3, <1>5, <1>6, <1>7, <1>8, <2>1, <2>2, <2>3
<1>11. CASE Writes(s, l)
  <2> DEFINE f == EncryptFrame(lane[s])
  <2>1. UNCHANGED queue /\ lane[s].phase = "write" /\ l.phase = "idle" /\ l.id = lane[s].id
    BY <1>11 DEF Writes
  <2>2. InHand(s)' = {} /\ InHand(s) = {lane[s].msg} /\ f.msg = lane[s].msg
    BY <1>1, <2>1 DEF InHand, EncryptFrame
  <2>3. l.id \in DOMAIN streams
    <3>1. lane[s].id \in Nat /\ lane[s].id # 0 /\ lane[s].id <= Len(streams)
      BY <2>1 DEF Shape, LaneShape, Lane
    <3>2. \A k, n \in Nat : k # 0 /\ k <= n => k \in 1..n
      OBVIOUS
    <3> QED BY <1>2, <2>1, <3>1, <3>2
  <2>4. CASE streams[l.id].server = "closed"
    <3>1. \A id \in DOMAIN streams : streams'[id].wire = streams[id].wire
      BY <1>0, <2>4
    <3> QED BY <1>3, <1>5, <1>6, <1>7, <1>8, <2>1, <2>2, <3>1
  <2>5. CASE streams[l.id].server # "closed"
    <3> DEFINE w == streams[l.id].wire
    <3>1. w \in Seq(Frame)
      <4>1. streams[l.id] \in Stream
        BY <1>1, <2>3
      <4> QED BY <4>1 DEF Stream
    <3>2. f \in Frame
      BY <1>1, <2>1 DEF EncryptFrame, Frame, Lane, LaneShape, Shape
    <3>3. DistinctFrames(w) /\ f.msg \notin Frames(w)
      <4>1. OnWire(l.id) = Frames(w) /\ OnWire(l.id) \cap InHand(s) = {} /\ DistinctFrames(w)
        BY <2>3 DEF OnePlace, OnWire
      <4> QED BY <2>2, <4>1
    <3>4. streams'[l.id].wire = Append(w, f)
      BY <1>0, <1>11, <2>3, <2>5
    <3> HIDE DEF w, f
    <3>5. DistinctFrames(Append(w, f)) /\ Frames(Append(w, f)) = Frames(w) \cup {f.msg}
      BY <3>1, <3>2, <3>3, FrameAppend
    <3>6. OnWire(l.id)' = OnWire(l.id) \cup {lane[s].msg} /\ DistinctFrames(streams'[l.id].wire)
      <4>1. l.id \in DOMAIN streams'
        BY <1>3, <2>3
      <4>2. OnWire(l.id)' = Frames(streams'[l.id].wire) /\ OnWire(l.id) = Frames(w)
        BY <2>3, <4>1 DEF OnWire, w
      <4> QED BY <2>2, <3>4, <3>5, <4>2
    <3>7. \A id \in DOMAIN streams : id # l.id => streams'[id].wire = streams[id].wire
      BY <1>0
    <3>8. \A id \in DOMAIN streams : id # l.id => OnWire(id)' = OnWire(id)
      BY <1>7, <3>7
    <3>9. \A id \in DOMAIN streams' : DistinctFrames(streams'[id].wire)
      BY <1>5, <1>7, <3>6, <3>7
    <3> QED BY <1>3, <1>5, <1>6, <1>8, <2>1, <2>2, <2>3, <3>6, <3>8, <3>9
  <2> QED BY <2>4, <2>5
<1> QED BY <1>9, <1>10, <1>11 DEF Works

\* How the receiver moves messages: it delivers one or loses what a wire held.
LEMMA ServePlaces ==
    ASSUME Shape, OnePlace, NEW id \in DOMAIN streams, NEW st \in Stream, Serves(id, st)
    PROVE  /\ DOMAIN streams' = DOMAIN streams
           /\ \A i \in DOMAIN streams : /\ DistinctFrames(streams'[i].wire)
                                        /\ i # id => OnWire(i)' = OnWire(i)
           /\ \/ OnWire(id)' \subseteq OnWire(id) /\ UNCHANGED received
              \/ \E m \in OnWire(id) : OnWire(id)' = OnWire(id) \ {m} /\ received' = received \cup {m}
<1>1. /\ DOMAIN streams' = DOMAIN streams
      /\ \A i \in DOMAIN streams : streams'[i] = IF i = id THEN st ELSE streams[i]
  BY StreamExcept DEF Serves, Shape
<1>2. \A i \in DOMAIN streams : OnWire(i)' = Frames(streams'[i].wire) /\ OnWire(i) = Frames(streams[i].wire)
  BY <1>1 DEF OnWire
<1>3. \A i \in DOMAIN streams : DistinctFrames(streams[i].wire)
  BY DEF OnePlace
<1>4. \A i \in DOMAIN streams : i # id => OnWire(i)' = OnWire(i)
  BY <1>1, <1>2
<1>5. streams'[id].wire = st.wire
  BY <1>1
<1>6. CASE st.wire = streams[id].wire /\ UNCHANGED received
  BY <1>1, <1>2, <1>3, <1>4, <1>5, <1>6
<1>7. CASE st.wire = <<>> /\ UNCHANGED received
  <2>1. Frames(<<>>) = {} /\ DistinctFrames(<<>>)
    BY DEF Frames, ToSet, DistinctFrames
  <2> QED BY <1>1, <1>2, <1>3, <1>4, <1>5, <1>7, <2>1
<1>8. CASE /\ streams[id].wire # <<>> /\ st.wire = Tail(streams[id].wire)
           /\ received' = received \cup {Head(streams[id].wire).msg}
  <2> DEFINE w == streams[id].wire
  <2>1. w \in Seq(Frame)
    <3>1. streams[id] \in Stream
      BY DEF Shape
    <3> QED BY <3>1 DEF Stream
  <2>2. /\ DistinctFrames(Tail(w)) /\ Frames(Tail(w)) = Frames(w) \ {Head(w).msg}
        /\ Head(w).msg \in Frames(w)
    BY <1>3, <1>8, <2>1, FrameTail
  <2>3. \A i \in DOMAIN streams : DistinctFrames(streams'[i].wire)
    BY <1>1, <1>3, <1>8, <2>2
  <2>4. OnWire(id)' = OnWire(id) \ {Head(w).msg} /\ Head(w).msg \in OnWire(id)
    BY <1>2, <1>5, <1>8, <2>2
  <2> QED BY <1>1, <1>4, <1>8, <2>3, <2>4
<1> QED BY <1>6, <1>7, <1>8 DEF Serves

\* The messages in flight are those in one of the places.
InFlight ==
    \A m : m \in Pending <=> \/ \E s \in Senders : m \in Queued(s) \cup InHand(s)
                             \/ \E id \in DOMAIN streams : m \in OnWire(id)

\* ... in every state.
LEMMA PendingPlaces == InFlight
<1> DEFINE A == UNION {ToSet(queue[s]) : s \in Senders}
           B == {lane[s].msg : s \in {t \in Senders : lane[t].phase # "idle"}}
           C == UNION {{f.msg : f \in ToSet(streams[id].wire)} : id \in DOMAIN streams}
<1>1. \A m : m \in A <=> \E s \in Senders : m \in Queued(s)
  BY DEF Queued
<1>2. \A m : m \in B <=> \E s \in Senders : m \in InHand(s)
  BY DEF InHand
<1>3. \A m : m \in C <=> \E id \in DOMAIN streams : m \in OnWire(id)
  BY DEF OnWire, Frames
<1>4. Pending = A \cup B \cup C
  BY DEF Pending
<1> HIDE DEF A, B, C
<1> QED BY <1>1, <1>2, <1>3, <1>4 DEF InFlight

\* Every step keeps each message in one place and is a step of the lossy channel.
LEMMA OnceStep ==
    ASSUME Shape, OnePlace, PeerSessionAssumption, [Next]_vars
    PROVE  OnePlace' /\ [Channel!Next]_Channel!vars
<1>1. InFlight /\ InFlight'
  BY PendingPlaces, PTL
<1>2. ASSUME NEW m \in Message, Enqueue(m) PROVE OnePlace' /\ Channel!Send(m)
  <2> DEFINE s == From[m]
  <2>1. /\ m \notin sent /\ sent' = sent \cup {m} /\ queue' = [queue EXCEPT ![s] = Append(queue[s], m)]
        /\ UNCHANGED <<lane, streams, received>>
    BY <1>2 DEF Enqueue, reports
  <2>2. s \in Senders /\ queue \in [Senders -> Seq(Message)]
    BY DEF PeerSessionAssumption, Shape
  <2>3. m \notin ToSet(queue[s]) /\ Distinct(queue[s]) /\ queue[s] \in Seq(Message)
    BY <2>1, <2>2 DEF OnePlace, Queued
  <2>4. Distinct(Append(queue[s], m)) /\ ToSet(Append(queue[s], m)) = ToSet(queue[s]) \cup {m}
    BY <2>3, AppendOnce
  <2> HIDE DEF s
  <2>5. \A t \in Senders : /\ Distinct(queue'[t])
                           /\ Queued(t)' = IF t = s THEN Queued(t) \cup {m} ELSE Queued(t)
    BY <2>1, <2>2, <2>4 DEF OnePlace, Queued
  <2>6. /\ \A t \in Senders : InHand(t)' = InHand(t)
        /\ \A id \in DOMAIN streams : OnWire(id)' = OnWire(id)
    BY <2>1 DEF InHand, OnWire
  <2>7. OnePlace'
    <3>1. \A t \in Senders :
            /\ Distinct(queue'[t])
            /\ Queued(t)' \cup InHand(t)' \subseteq sent' \ received'
            /\ Queued(t)' \cap InHand(t)' = {}
            /\ \A k \in Queued(t)' \cup InHand(t)' : From[k] = t
      BY <2>1, <2>5, <2>6 DEF OnePlace, s
    <3>2. \A id \in DOMAIN streams' :
            /\ DistinctFrames(streams'[id].wire)
            /\ OnWire(id)' \subseteq sent' \ received'
            /\ \A t \in Senders : OnWire(id)' \cap (Queued(t)' \cup InHand(t)') = {}
            /\ \A other \in DOMAIN streams' : other # id => OnWire(other)' \cap OnWire(id)' = {}
      BY <2>1, <2>5, <2>6 DEF OnePlace
    <3>3. received' \subseteq sent'
      BY <2>1 DEF OnePlace
    <3> QED BY <3>1, <3>2, <3>3 DEF OnePlace
  <2>8. Pending' = Pending \cup {m}
    BY <1>1, <2>1, <2>2, <2>5, <2>6 DEF InFlight
  <2> QED BY <2>1, <2>7, <2>8 DEF Channel!Send
<1>3. ASSUME NEW s \in Senders, NEW l \in Lane, Works(s, l) PROVE OnePlace' /\ Channel!Lose
  <2>1. UNCHANGED <<sent, received>>
    BY <1>3 DEF Works
  <2>2. /\ DOMAIN streams \subseteq DOMAIN streams'
        /\ \A t \in Senders : /\ Distinct(queue'[t])
                              /\ t # s => Queued(t)' = Queued(t) /\ InHand(t)' = InHand(t)
        /\ \A id \in DOMAIN streams' : DistinctFrames(streams'[id].wire)
        /\ \A id \in DOMAIN streams' \ DOMAIN streams : OnWire(id)' = {}
    BY <1>3, WorkPlaces
  <2>3. \/ /\ \E m \in Queued(s) : Queued(s)' = Queued(s) \ {m} /\ InHand(s)' \subseteq {m}
           /\ \A id \in DOMAIN streams : OnWire(id)' = OnWire(id)
        \/ /\ Queued(s)' = Queued(s) /\ InHand(s)' \subseteq InHand(s)
           /\ \A id \in DOMAIN streams : OnWire(id)' = OnWire(id)
        \/ /\ Queued(s)' = Queued(s) /\ InHand(s)' = {} /\ InHand(s) = {lane[s].msg}
           /\ \E id \in DOMAIN streams :
                /\ OnWire(id)' = OnWire(id) \cup {lane[s].msg}
                /\ \A other \in DOMAIN streams : other # id => OnWire(other)' = OnWire(other)
    BY <1>3, WorkPlaces
  <2>4. \A t \in Senders :
          /\ Queued(t)' \subseteq Queued(t) /\ InHand(t)' \subseteq Queued(t) \cup InHand(t)
          /\ Queued(t)' \cap InHand(t)' = {}
    BY <2>2, <2>3 DEF OnePlace
  <2>5. \A id \in DOMAIN streams' : \A m \in OnWire(id)' :
          \/ id \in DOMAIN streams /\ m \in OnWire(id)
          \/ m = lane[s].msg /\ InHand(s) = {m} /\ InHand(s)' = {} /\ Queued(s)' = Queued(s)
    BY <2>2, <2>3
  <2>6. \A id, other \in DOMAIN streams' : other # id => OnWire(other)' \cap OnWire(id)' = {}
    BY <2>2, <2>3 DEF OnePlace
  <2>7. \A id \in DOMAIN streams' : \A t \in Senders : OnWire(id)' \cap (Queued(t)' \cup InHand(t)') = {}
    <3> SUFFICES ASSUME NEW id \in DOMAIN streams', NEW t \in Senders, NEW m,
                        m \in OnWire(id)', m \in Queued(t)' \cup InHand(t)'
                 PROVE  FALSE
      OBVIOUS
    <3>1. m \in Queued(t) \cup InHand(t)
      BY <2>4
    <3>2. m = lane[s].msg /\ InHand(s) = {m} /\ InHand(s)' = {} /\ Queued(s)' = Queued(s)
      BY <2>5, <3>1 DEF OnePlace
    <3>3. From[m] = s /\ From[m] = t
      BY <3>1, <3>2 DEF OnePlace
    <3> QED BY <3>2, <3>3 DEF OnePlace
  <2>8. OnePlace'
    <3>1. \A t \in Senders :
            /\ Distinct(queue'[t])
            /\ Queued(t)' \cup InHand(t)' \subseteq sent' \ received'
            /\ Queued(t)' \cap InHand(t)' = {}
            /\ \A k \in Queued(t)' \cup InHand(t)' : From[k] = t
      BY <2>1, <2>2, <2>4 DEF OnePlace
    <3>2. \A id \in DOMAIN streams' : OnWire(id)' \subseteq sent' \ received'
      BY <2>1, <2>5 DEF OnePlace
    <3>3. received' \subseteq sent'
      BY <2>1 DEF OnePlace
    <3> QED BY <2>2, <2>6, <2>7, <3>1, <3>2, <3>3 DEF OnePlace
  <2>9. Pending' \subseteq Pending
    BY <1>1, <2>4, <2>5 DEF InFlight
  <2> QED BY <2>1, <2>8, <2>9 DEF Channel!Lose
<1>4. ASSUME NEW id \in DOMAIN streams, NEW st \in Stream, Serves(id, st),
             UNCHANGED <<now, policy, sent, queue, lane, observed, failed>>
      PROVE  OnePlace' /\ Channel!Next
  <2>1. /\ DOMAIN streams' = DOMAIN streams
        /\ \A i \in DOMAIN streams : /\ DistinctFrames(streams'[i].wire)
                                     /\ i # id => OnWire(i)' = OnWire(i)
    BY <1>4, ServePlaces
  <2>2. \A t \in Senders : Queued(t)' = Queued(t) /\ InHand(t)' = InHand(t) /\ queue'[t] = queue[t]
    BY <1>4 DEF Queued, InHand
  <2>3. CASE OnWire(id)' \subseteq OnWire(id) /\ UNCHANGED received
    <3>1. OnePlace'
      BY <1>4, <2>1, <2>2, <2>3 DEF OnePlace
    <3>2. Pending' \subseteq Pending
      BY <1>1, <2>1, <2>2, <2>3 DEF InFlight
    <3> QED BY <1>4, <2>3, <3>1, <3>2 DEF Channel!Next, Channel!Lose
  <2>4. ASSUME NEW m \in OnWire(id), OnWire(id)' = OnWire(id) \ {m}, received' = received \cup {m}
        PROVE  OnePlace' /\ Channel!Deliver(m) /\ m \in Message
    <3>1. \A t \in Senders : m \notin Queued(t) \cup InHand(t)
      BY DEF OnePlace
    <3>2. \A i \in DOMAIN streams : OnWire(i)' \subseteq OnWire(i) \ {m}
      BY <2>1, <2>4 DEF OnePlace
    <3>3. OnePlace'
      <4>1. received' \subseteq sent'
        BY <1>4, <2>4 DEF OnePlace
      <4>2. \A t \in Senders :
            /\ Distinct(queue'[t])
            /\ Queued(t)' \cup InHand(t)' \subseteq sent' \ received'
            /\ Queued(t)' \cap InHand(t)' = {}
            /\ \A k \in Queued(t)' \cup InHand(t)' : From[k] = t
        BY <1>4, <2>2, <2>4, <3>1 DEF OnePlace
      <4>3. \A i \in DOMAIN streams' :
            /\ DistinctFrames(streams'[i].wire)
            /\ OnWire(i)' \subseteq sent' \ received'
            /\ \A t \in Senders : OnWire(i)' \cap (Queued(t)' \cup InHand(t)') = {}
            /\ \A other \in DOMAIN streams' : other # i => OnWire(other)' \cap OnWire(i)' = {}
        BY <1>4, <2>1, <2>2, <2>4, <3>2 DEF OnePlace
      <4> QED BY <4>1, <4>2, <4>3 DEF OnePlace
    <3>4. Pending' = Pending \ {m} /\ m \in Pending
      BY <1>1, <2>1, <2>2, <2>4, <3>1, <3>2 DEF InFlight
    <3>5. m \in Message
      BY DEF OnePlace, Shape
    <3> QED BY <1>4, <2>4, <3>3, <3>4, <3>5 DEF Channel!Deliver
  <2> QED BY <1>4, <2>3, <2>4, ServePlaces DEF Channel!Next
<1>5. ASSUME UNCHANGED <<sent, queue, lane, streams, received>>
      PROVE  OnePlace' /\ UNCHANGED Channel!vars
  <2>1. /\ \A t \in Senders : Queued(t)' = Queued(t) /\ InHand(t)' = InHand(t)
        /\ \A i \in DOMAIN streams : OnWire(i)' = OnWire(i)
    BY <1>5 DEF Queued, InHand, OnWire
  <2>2. Pending' = Pending
    BY <1>1, <1>5, <2>1 DEF InFlight
  <2> QED BY <1>5, <2>1, <2>2 DEF OnePlace, Channel!vars
<1>6. CASE Tick \/ UNCHANGED vars
  BY <1>5, <1>6 DEF Tick, vars, reports
<1> QED BY <1>2, <1>3, <1>4, <1>6, StepMoves DEF Channel!Next

\* No message is anywhere in the initial states.
LEMMA TransportStarts ==
    ASSUME PeerSessionAssumption, Init
    PROVE  Shape /\ OnePlace /\ Channel!Init
<1>1. Shape
  <2>1. [phase |-> "idle", msg |-> 0, retried |-> FALSE, id |-> 0, counter |-> 0, established |-> 0] \in Lane
    BY DEF Lane, Phases
  <2>2. <<>> \in Seq(Stream) /\ Len(<<>>) = 0 /\ <<>> \in Seq(Message)
    OBVIOUS
  <2> QED BY <2>1, <2>2 DEF Init, Shape, PeerSessionAssumption, LaneShape
<1>2. /\ \A s \in Senders : Queued(s) = {} /\ InHand(s) = {} /\ Distinct(queue[s])
      /\ DOMAIN streams = {} /\ received = {} /\ sent = {}
  BY DEF Init, Queued, InHand, ToSet, Distinct
<1>3. OnePlace
  BY <1>2 DEF OnePlace
<1>4. Pending = {}
  BY <1>2, PendingPlaces DEF InFlight
<1> QED BY <1>1, <1>2, <1>3, <1>4 DEF Channel!Init

\* The transport implements the lossy channel: whatever streams expire, break or are
\* dropped and whatever writes are retried, a message is delivered at most once, and
\* only if it was sent (send_message, handle_inbound).
THEOREM TransportRefinesChannel ==
    ASSUME PeerSessionAssumption
    PROVE  Spec => DeliversAtMostOnce
<1>1. Init => Shape /\ OnePlace /\ Channel!Init
  BY TransportStarts
<1>2. Shape /\ OnePlace /\ [Next]_vars => Shape' /\ OnePlace' /\ [Channel!Next]_Channel!vars
  BY ShapeStep, OnceStep
<1> QED BY <1>1, <1>2, PTL DEF Spec, DeliversAtMostOnce, Channel!Spec

-----------------------------------------------------------------------------
(* Both ends of a stream count alike.                                       *)

\* The stream a worker keeps is its own, not dropped by it; until the server hello
\* nothing was written to it, and afterwards the worker's counter is the receiver's
\* plus the frames on the wire.
Session(s) ==
    LET l  == lane[s]
        st == streams[l.id]
    IN  l.id # 0 =>
        /\ st.owner = s /\ st.client
        /\ l.phase = "handshake" /\ st.server # "closed" => st.wire = <<>> /\ st.counter = 0
        /\ l.phase # "handshake" => st.server \in {"replied", "open", "closed"}
        /\ l.phase # "handshake" /\ st.server # "closed" /\ policy.encrypt =>
                l.counter = st.counter + Len(st.wire)

\* A stream that is not admitted or has ended has an empty wire.
Quiet(id) == streams[id].server \in {"backlog", "accepted", "closed"} => streams[id].wire = <<>>

\* The inductive invariant.
SessionInv ==
    /\ FramesDecrypt
    /\ \A s \in Senders : Session(s)
    /\ \A id \in DOMAIN streams : Quiet(id)
    /\ observed \cup failed \subseteq sent
    /\ Admitted <= Capacity

\* The frames of one wire decrypt in order, the first with the receiver's counter.
InOrder(id, st) ==
    \A i \in DOMAIN st.wire : policy.encrypt =>
        st.wire[i].key = id /\ st.wire[i].counter = st.counter + i - 1

\* Reading the first frame keeps the order ...
LEMMA ReadInOrder ==
    ASSUME NEW id, NEW st \in Stream, NEW new \in Stream, st.wire # <<>>, InOrder(id, st),
           new.wire = Tail(st.wire),
           new.counter = IF policy.encrypt THEN st.counter + 1 ELSE st.counter
    PROVE  /\ InOrder(id, new) /\ Len(st.wire) \in Nat
           /\ policy.encrypt => new.counter + Len(new.wire) = st.counter + Len(st.wire)
<1> DEFINE w == st.wire
           t == Tail(w)
<1>1. st.counter \in Nat /\ w \in Seq(Frame)
  BY DEF Stream
<1>2. /\ Len(w) \in Nat /\ Len(t) = Len(w) - 1
      /\ \A i \in DOMAIN t : i \in Nat /\ i + 1 \in DOMAIN w /\ t[i] = w[i + 1]
  <2> HIDE DEF w
  <2>1. t \in Seq(Frame) /\ Len(t) = Len(w) - 1
    BY <1>1, HeadTailProperties DEF w
  <2>2. /\ Len(w) \in Nat /\ DOMAIN t = 1..(Len(w) - 1)
        /\ \A i \in DOMAIN t : i + 1 \in DOMAIN w /\ t[i] = w[i + 1]
    BY <1>1, TailAt DEF w
  <2> QED BY <2>1, <2>2
<1> HIDE DEF w, t
<1>3. CASE policy.encrypt
  <2>1. new.counter = st.counter + 1 /\ new.wire = t
    BY <1>3 DEF t, w
  <2>2. \A i \in DOMAIN t : t[i].key = id /\ t[i].counter = st.counter + 1 + i - 1
    <3> SUFFICES ASSUME NEW i \in DOMAIN t PROVE t[i].key = id /\ t[i].counter = st.counter + 1 + i - 1
      OBVIOUS
    <3>1. w[i + 1].key = id /\ w[i + 1].counter = st.counter + (i + 1) - 1
      BY <1>2, <1>3 DEF InOrder, w
    <3> QED BY <1>1, <1>2, <3>1
  <2>3. InOrder(id, new)
    BY <2>1, <2>2 DEF InOrder
  <2> QED BY <1>1, <1>2, <2>1, <2>3 DEF w
<1>4. CASE ~policy.encrypt
  BY <1>2, <1>4 DEF InOrder, w
<1> QED BY <1>3, <1>4

\* ... and so does writing one with the worker's counter.
LEMMA WriteInOrder ==
    ASSUME NEW id, NEW st \in Stream, NEW new \in Stream, NEW f \in Frame, InOrder(id, st),
           new.wire = Append(st.wire, f), new.counter = st.counter,
           policy.encrypt => f.key = id /\ f.counter = st.counter + Len(st.wire)
    PROVE  /\ InOrder(id, new) /\ Len(st.wire) \in Nat
           /\ new.counter + Len(new.wire) = st.counter + Len(st.wire) + 1
<1> DEFINE w == st.wire
           t == Append(w, f)
<1>1. st.counter \in Nat /\ w \in Seq(Frame)
  BY DEF Stream
<1>2. /\ Len(w) \in Nat /\ DOMAIN w = 1..Len(w) /\ DOMAIN t = 1..(Len(w) + 1) /\ Len(t) = Len(w) + 1
      /\ t[Len(w) + 1] = f /\ \A i \in DOMAIN w : t[i] = w[i]
  <2> HIDE DEF w
  <2> QED BY <1>1, AppendAt
<1> HIDE DEF w, t
<1>3. \A i \in DOMAIN t : i \in DOMAIN w \/ i = Len(w) + 1
  BY <1>2
<1>4. \A i \in DOMAIN t : policy.encrypt => t[i].key = id /\ t[i].counter = st.counter + i - 1
  <2> SUFFICES ASSUME NEW i \in DOMAIN t, policy.encrypt
               PROVE  t[i].key = id /\ t[i].counter = st.counter + i - 1
    OBVIOUS
  <2>1. CASE i \in DOMAIN w
    BY <1>2, <2>1 DEF InOrder, w
  <2>2. CASE i = Len(w) + 1
    <3>1. f.key = id /\ f.counter = st.counter + Len(w)
      BY DEF w
    <3> QED BY <1>1, <1>2, <2>2, <3>1
  <2> QED BY <1>3, <2>1, <2>2
<1>5. new.wire = t /\ new.counter = st.counter
  BY DEF t, w
<1>6. InOrder(id, new)
  BY <1>4, <1>5 DEF InOrder
<1> QED BY <1>1, <1>2, <1>5, <1>6 DEF w

\* The permits given out stay within the capacity: a step that admits a stream admits
\* one, while a permit is left.
LEMMA PermitsKept ==
    ASSUME Shape, Shape', Capacity \in Nat, Admitted <= Capacity, NEW id,
           \A i \in DOMAIN streams' : Holds(i)' => Holds(i) \/ (i = id /\ HasPermit)
    PROVE  Admitted' <= Capacity
<1> DEFINE S == {i \in DOMAIN streams : Holds(i)}
           T == {i \in DOMAIN streams' : Holds(i)'}
<1>1. DOMAIN streams = 1..Len(streams) /\ Len(streams) \in Nat
  BY DEF Shape
<1>2. IsFiniteSet(1..Len(streams))
  BY <1>1, FS_Interval
<1>3. IsFiniteSet(S) /\ Cardinality(S) \in Nat
  BY <1>1, <1>2, FS_Subset, FS_CardinalityType
<1>4. Admitted = Cardinality(S) /\ Admitted' = Cardinality(T)
  BY DEF Admitted
<1>5. \A i : Holds(i) => i \in DOMAIN streams
  BY DEF Holds
<1>6. CASE T \subseteq S
  <2> HIDE DEF S, T
  <2>1. Cardinality(T) <= Cardinality(S) /\ Cardinality(T) \in Nat
    BY <1>3, <1>6, FS_Subset, FS_CardinalityType
  <2> QED BY <1>3, <1>4, <2>1
<1>7. CASE ~(T \subseteq S)
  <2>1. HasPermit /\ T \subseteq S \cup {id}
    BY <1>5, <1>7
  <2> HIDE DEF S, T
  <2>2. IsFiniteSet(S \cup {id}) /\ Cardinality(S \cup {id}) \in {Cardinality(S), Cardinality(S) + 1}
    BY <1>3, FS_AddElement
  <2>3. Cardinality(T) <= Cardinality(S \cup {id}) /\ Cardinality(T) \in Nat
    BY <2>1, <2>2, FS_Subset, FS_CardinalityType
  <2>4. Cardinality(S) < Capacity
    BY <1>4, <2>1 DEF HasPermit
  <2> QED BY <1>3, <1>4, <2>2, <2>3, <2>4
<1> QED BY <1>6, <1>7

\* The receiver's steps keep the invariant.
LEMMA ServeSession ==
    ASSUME Shape, Shape', SessionInv, PeerSessionAssumption,
           NEW id \in DOMAIN streams, NEW st \in Stream, Serves(id, st),
           UNCHANGED <<now, policy, sent, queue, lane, observed, failed>>
    PROVE  SessionInv'
<1> DEFINE old == streams[id]
<1>1. /\ DOMAIN streams' = DOMAIN streams
      /\ \A i \in DOMAIN streams : streams'[i] = IF i = id THEN st ELSE streams[i]
  BY StreamExcept DEF Serves, Shape
<1>2. old \in Stream /\ InOrder(id, old) /\ Quiet(id) /\ \A i \in DOMAIN streams : InOrder(i, streams[i])
  BY DEF SessionInv, FramesDecrypt, InOrder, Shape
<1>3. /\ st.client = old.client /\ st.owner = old.owner /\ old.server # "closed"
      /\ \/ /\ st.wire = old.wire /\ st.counter = old.counter
            /\ old.server = "backlog" /\ st.server \in {"accepted", "closed"}
         \/ /\ st.wire = old.wire /\ st.counter = old.counter
            /\ old.server \in {"accepted", "replied"} /\ st.server \in {"replied", "open"}
         \/ st.server = "closed" /\ st.wire = <<>>
         \/ /\ old.server = "open" /\ st.server = "open" /\ old.wire # <<>> /\ st.wire = Tail(old.wire)
            /\ st.counter = IF policy.encrypt THEN old.counter + 1 ELSE old.counter
  BY DEF Serves
<1>4. old.wire # <<>> /\ st.wire = Tail(old.wire)
      /\ st.counter = (IF policy.encrypt THEN old.counter + 1 ELSE old.counter) =>
        /\ InOrder(id, st)
        /\ policy.encrypt => st.counter + Len(st.wire) = old.counter + Len(old.wire)
  <2> HIDE DEF old
  <2> QED BY <1>2, ReadInOrder
<1>5. \A seq : seq = <<>> => DOMAIN seq = {} /\ Len(seq) = 0
  OBVIOUS
<1>6. InOrder(id, st)
  <2> HIDE DEF old
  <2>1. CASE st.wire = old.wire /\ st.counter = old.counter
    BY <1>2, <2>1 DEF InOrder
  <2>2. CASE st.wire = <<>>
    BY <1>5, <2>2 DEF InOrder
  <2> QED BY <1>3, <1>4, <2>1, <2>2
<1>7. FramesDecrypt'
  <2>1. \A i \in DOMAIN streams' : InOrder(i, streams'[i])
    BY <1>1, <1>2, <1>6
  <2> QED BY <2>1 DEF FramesDecrypt, InOrder
<1>8. \A i \in DOMAIN streams' : Quiet(i)'
  <2>1. st.server \in {"backlog", "accepted", "closed"} => st.wire = <<>>
    BY <1>2, <1>3 DEF Quiet
  <2> QED BY <1>1, <2>1 DEF Quiet, SessionInv
<1>9. ASSUME NEW s \in Senders PROVE Session(s)'
  <2> DEFINE l == lane[s]
  <2>1. l \in Lane /\ Session(s) /\ (l.id # 0 => l.id \in DOMAIN streams)
    BY DEF SessionInv, Shape, Lane
  <2>2. CASE l.id # id
    BY <1>1, <2>1, <2>2 DEF Session
  <2>3. CASE l.id = id
    <3>1. l.id # 0 => /\ old.owner = s /\ old.client
                      /\ l.phase = "handshake" => old.wire = <<>> /\ old.counter = 0
                      /\ l.phase # "handshake" => old.server \in {"replied", "open"}
                      /\ l.phase # "handshake" /\ policy.encrypt => l.counter = old.counter + Len(old.wire)
      BY <1>3, <2>1, <2>3 DEF Session
    <3> HIDE DEF old
    <3>2. l.id # 0 => /\ st.owner = s /\ st.client
                      /\ l.phase = "handshake" /\ st.server # "closed" => st.wire = <<>> /\ st.counter = 0
                      /\ l.phase # "handshake" => st.server \in {"replied", "open", "closed"}
                      /\ l.phase # "handshake" /\ st.server # "closed" /\ policy.encrypt =>
                            l.counter = st.counter + Len(st.wire)
      BY <1>3, <1>4, <3>1
    <3> QED BY <1>1, <2>3, <3>2 DEF Session
  <2> QED BY <2>2, <2>3
<1>10. Admitted' <= Capacity
  <2>1. st.server \in {"accepted", "replied", "open"} => Holds(id) \/ HasPermit
    BY DEF Serves, Holds
  <2>2. \A i \in DOMAIN streams' : Holds(i)' => Holds(i) \/ (i = id /\ HasPermit)
    BY <1>1, <2>1 DEF Holds
  <2> QED BY <2>2, PermitsKept DEF SessionInv, PeerSessionAssumption
<1> QED BY <1>7, <1>8, <1>9, <1>10 DEF SessionInv

\* The workers' steps keep it.
LEMMA WorkSession ==
    ASSUME Shape, Shape', OnePlace, SessionInv, PeerSessionAssumption,
           NEW s \in Senders, NEW l \in Lane, Works(s, l)
    PROVE  SessionInv'
<1> DEFINE k == lane[s]
           f == EncryptFrame(k)
<1>1. /\ lane \in [Senders -> Lane] /\ lane' = [lane EXCEPT ![s] = l] /\ UNCHANGED <<policy, sent, received>>
      /\ k \in Lane /\ LaneShape(k) /\ k.id \in Nat /\ k.id <= Len(streams) /\ k.counter \in Nat
  BY DEF Shape, Works, Lane
<1>2. /\ DOMAIN streams = 1..Len(streams) /\ DOMAIN streams' = 1..Len(streams') /\ Len(streams) \in Nat
      /\ Len(streams') \in {Len(streams), Len(streams) + 1}
      /\ Len(streams') = Len(streams) + 1 <=> l.phase = "handshake"
      /\ l.phase = "handshake" => streams'[Len(streams) + 1] = NewStream(s) /\ l.id = Len(streams) + 1
      /\ l.phase # "handshake" => l.id \in {0, k.id}
  BY WorkStreams
<1>3. \A i \in DOMAIN streams :
        /\ i # k.id => streams'[i] = streams[i]
        /\ l.id = i => streams'[i].client = streams[i].client
        /\ streams'[i].owner = streams[i].owner /\ streams'[i].server = streams[i].server
        /\ streams'[i].counter = streams[i].counter
        /\ streams'[i].wire = IF Writes(s, l) /\ i = l.id /\ streams[i].server # "closed"
                              THEN Append(streams[i].wire, f) ELSE streams[i].wire
  BY WorkStreams
<1>4. /\ \A i \in DOMAIN streams : i # Len(streams) + 1 /\ i # 0 /\ i \in DOMAIN streams'
      /\ \A i \in DOMAIN streams' : i \in DOMAIN streams \/ (i = Len(streams) + 1 /\ l.phase = "handshake")
      /\ k.id # 0 => k.id \in DOMAIN streams
      /\ \A j \in Nat : j # 0 /\ j <= Len(streams) => j \in DOMAIN streams
      /\ Len(streams) + 1 # 0
  <2>1. \A n \in Nat : /\ \A i \in 1..n : i # n + 1 /\ i # 0 /\ i \in 1..(n + 1)
                       /\ \A i \in 1..(n + 1) : i \in 1..n \/ i = n + 1
                       /\ \A i \in Nat : i <= n /\ i # 0 => i \in 1..n
                       /\ n # n + 1 /\ n + 1 # 0
    OBVIOUS
  <2> QED BY <1>1, <1>2, <2>1
<1>0. /\ NewStream(s).owner = s /\ NewStream(s).client /\ NewStream(s).wire = <<>>
      /\ NewStream(s).counter = 0 /\ NewStream(s).server = "backlog"
  BY DEF NewStream
<1>5. \A i \in DOMAIN streams : streams[i] \in Stream /\ streams'[i] \in Stream /\ InOrder(i, streams[i])
  BY <1>4 DEF SessionInv, FramesDecrypt, InOrder, Shape
<1>6. Session(s) /\ \A t \in Senders : Session(t)
  BY DEF SessionInv
\* A write: the counter of the frame is the next one of the stream.
<1>7. ASSUME Writes(s, l), streams[l.id].server # "closed"
      PROVE  /\ l.id = k.id /\ l.id \in DOMAIN streams /\ InOrder(l.id, streams'[l.id])
             /\ policy.encrypt => l.counter = streams'[l.id].counter + Len(streams'[l.id].wire)
             /\ streams[l.id].server \in {"replied", "open"}
  <2>1. /\ k.phase = "write" /\ l.phase = "idle" /\ l.id = k.id /\ k.id # 0 /\ k.msg \in Message
        /\ l.counter = IF policy.encrypt THEN k.counter + 1 ELSE k.counter
    BY <1>1, <1>7 DEF Writes, LaneShape
  <2> DEFINE id == l.id
             st == streams[id]
             new == streams'[id]
  <2>2. id \in DOMAIN streams
    BY <1>4, <2>1
  <2>3. /\ st.server \in {"replied", "open"}
        /\ policy.encrypt => k.counter = st.counter + Len(st.wire)
    BY <1>6, <1>7, <2>1 DEF Session
  <2>4. f \in Frame /\ f.key = id /\ f.counter = k.counter
    BY <1>1, <2>1 DEF EncryptFrame, Frame
  <2>5. new.wire = Append(st.wire, f) /\ new.counter = st.counter
    BY <1>3, <1>7, <2>2
  <2>6. st \in Stream /\ new \in Stream /\ InOrder(id, st)
    BY <1>5, <2>2
  <2> HIDE DEF st, new, f, id
  <2>7. /\ InOrder(id, new) /\ Len(st.wire) \in Nat
        /\ new.counter + Len(new.wire) = st.counter + Len(st.wire) + 1
    BY <2>3, <2>4, <2>5, <2>6, WriteInOrder
  <2>8. policy.encrypt => l.counter = new.counter + Len(new.wire)
    BY <2>1, <2>3, <2>7
  <2> QED BY <2>1, <2>2, <2>3, <2>7, <2>8 DEF id, new, st
<1>8. ASSUME NEW i \in DOMAIN streams, ~(Writes(s, l) /\ i = l.id /\ streams[i].server # "closed")
      PROVE  streams'[i].wire = streams[i].wire /\ InOrder(i, streams'[i])
  <2>1. streams'[i].wire = streams[i].wire /\ streams'[i].counter = streams[i].counter
    BY <1>3, <1>8
  <2> QED BY <1>5, <2>1 DEF InOrder
<1>9. FramesDecrypt'
  <2>1. l.phase = "handshake" => InOrder(Len(streams) + 1, streams'[Len(streams) + 1])
    <3>1. NewStream(s).wire = <<>> /\ DOMAIN (<<>>) = {}
      BY DEF NewStream
    <3> QED BY <1>2, <3>1 DEF InOrder
  <2>2. \A i \in DOMAIN streams' : InOrder(i, streams'[i])
    BY <1>4, <1>7, <1>8, <2>1
  <2> QED BY <1>1, <2>2 DEF FramesDecrypt, InOrder
<1>10. \A i \in DOMAIN streams' : Quiet(i)'
  <2>1. \A i : i = Len(streams) + 1 /\ l.phase = "handshake" => Quiet(i)'
    BY <1>0, <1>2 DEF Quiet
  <2>2. \A i \in DOMAIN streams : Quiet(i)'
    BY <1>3, <1>7, <1>8 DEF Quiet, SessionInv
  <2> QED BY <1>4, <2>1, <2>2
<1>11. ASSUME NEW t \in Senders, t # s PROVE Session(t)'
  <2>0. lane[t].id \in Nat /\ lane[t].id <= Len(streams)
    BY <1>1 DEF Shape, Lane
  <2>1. lane'[t] = lane[t] /\ (lane[t].id # 0 => lane[t].id \in DOMAIN streams) /\ Session(t)
    BY <1>1, <1>4, <1>6, <1>11, <2>0
  <2>2. lane[t].id # 0 => lane[t].id # k.id
    BY <1>6, <1>11, <2>1 DEF Session
  <2>3. lane[t].id # 0 => streams'[lane[t].id] = streams[lane[t].id]
    BY <1>3, <2>1, <2>2
  <2> QED BY <1>1, <2>1, <2>3 DEF Session
<1>12. Session(s)'
  <2>1. lane'[s] = l
    BY <1>1
  <2>2. CASE l.id = 0
    BY <2>1, <2>2 DEF Session
  <2>3. CASE l.phase = "handshake"
    <3>1. streams'[l.id] = NewStream(s) /\ l.id # 0
      BY <1>2, <1>4, <2>3
    <3> QED BY <1>0, <2>1, <2>3, <3>1 DEF Session
  <2>4. CASE l.id # 0 /\ l.phase # "handshake"
    <3> DEFINE st == streams[k.id]
               new == streams'[k.id]
    <3>1. l.id = k.id /\ k.id # 0 /\ k.id \in DOMAIN streams
      BY <1>2, <1>4, <2>4
    <3>2. new.owner = s /\ new.client /\ new.server = st.server /\ new.counter = st.counter
      BY <1>3, <1>6, <3>1 DEF Session
    <3>3. CASE Writes(s, l)
      <4>1. CASE st.server = "closed"
        BY <2>1, <2>4, <3>1, <3>2, <4>1 DEF Session
      <4>2. CASE st.server # "closed"
        BY <1>1, <1>7, <2>1, <2>4, <3>1, <3>2, <3>3, <4>2 DEF Session
      <4> QED BY <4>1, <4>2
    <3>4. CASE Takes(s, l)
      <4>1. ~Writes(s, l) /\ l.counter = k.counter /\ k.phase # "handshake"
        BY <3>4 DEF Takes, Writes
      <4>2. new.wire = st.wire
        BY <1>8, <3>1, <4>1
      <4> QED BY <1>1, <1>6, <2>1, <2>4, <3>1, <3>2, <4>1, <4>2 DEF Session
    <3>5. CASE GoesOn(s, l)
      <4>1. ~Writes(s, l) /\ l.phase = "write"
        BY <2>4, <3>5 DEF GoesOn, Writes
      <4>2. new.wire = st.wire
        BY <1>8, <3>1, <4>1
      <4>3. CASE k.phase = "send" /\ l.counter = k.counter
        BY <1>1, <1>6, <2>1, <2>4, <3>1, <3>2, <4>2, <4>3 DEF Session
      <4>4. CASE k.phase = "handshake" /\ st.server \in {"replied", "open"} /\ l.counter = 0
        <5>1. st.wire = <<>> /\ st.counter = 0
          BY <1>6, <3>1, <4>4 DEF Session
        <5>2. new.wire = <<>> /\ Len(new.wire) = 0 /\ new.counter = 0
          BY <3>2, <4>2, <5>1
        <5> QED BY <1>1, <2>1, <2>4, <3>1, <3>2, <4>4, <5>2 DEF Session
      <4> QED BY <3>5, <4>1, <4>3, <4>4 DEF GoesOn
    <3>6. ~GivesUp(s, l)
      BY <2>4 DEF GivesUp
    <3> QED BY <3>3, <3>4, <3>5, <3>6 DEF Works
  <2> QED BY <2>2, <2>3, <2>4
<1>13. observed' \cup failed' \subseteq sent'
  <2>1. queue[s] # <<>> => Head(queue[s]) \in sent
    <3>1. ASSUME queue[s] # <<>> PROVE Head(queue[s]) \in Queued(s)
      BY <3>1, TailOnce DEF Queued, OnePlace, Shape
    <3> QED BY <3>1 DEF OnePlace
  <2>2. k.phase # "idle" => k.msg \in sent
    BY DEF OnePlace, InHand
  <2> QED BY <1>1, <2>1, <2>2 DEF SessionInv, Works, Takes, GoesOn, GivesUp, Writes
<1>14. Admitted' <= Capacity
  <2>1. \A i : i = Len(streams) + 1 /\ l.phase = "handshake" => ~Holds(i)'
    BY <1>0, <1>2 DEF Holds
  <2>2. \A i \in DOMAIN streams' : Holds(i)' => Holds(i)
    BY <1>3, <1>4, <2>1 DEF Holds
  <2> QED BY <2>2, PermitsKept DEF SessionInv, PeerSessionAssumption
<1> QED BY <1>9, <1>10, <1>11, <1>12, <1>13, <1>14 DEF SessionInv

\* In every reachable state the transport is well typed, no more streams are admitted
\* than there are permits, reports are about messages that were sent, and both ends of
\* every stream count frames alike, so that no frame fails to decrypt, whatever sessions
\* are renewed and whatever writes are retried (write_application_frame,
\* read_application_frame).
THEOREM FramesAlwaysDecrypt ==
    ASSUME PeerSessionAssumption
    PROVE  Spec => [](TypeOK /\ FramesDecrypt)
<1> DEFINE Inv == Shape /\ OnePlace /\ SessionInv
<1>1. Init => Inv
  <2> SUFFICES ASSUME Init PROVE SessionInv
    BY TransportStarts
  <2>1. DOMAIN streams = {} /\ observed = {} /\ failed = {} /\ \A s \in Senders : lane[s].id = 0
    BY DEF Init
  <2>2. Admitted <= Capacity
    <3>1. {id \in DOMAIN streams : Holds(id)} = {}
      BY <2>1
    <3>2. Admitted = 0
      BY <3>1, FS_EmptySet DEF Admitted
    <3> QED BY <3>2 DEF PeerSessionAssumption
  <2> QED BY <2>1, <2>2 DEF SessionInv, FramesDecrypt, Session
<1>2. Inv /\ [Next]_vars => Inv'
  <2> SUFFICES ASSUME Inv, [Next]_vars PROVE SessionInv'
    BY ShapeStep, OnceStep
  <2>1. Shape'
    BY ShapeStep
  <2>2. ASSUME NEW m \in Message, Enqueue(m) PROVE SessionInv'
    <3>1. UNCHANGED <<policy, lane, streams, observed, failed>> /\ sent \subseteq sent'
      BY <2>2 DEF Enqueue, reports
    <3> QED BY <3>1 DEF SessionInv, FramesDecrypt, Session, Quiet, Admitted, Holds
  <2>3. CASE Tick \/ UNCHANGED vars
    <3>1. UNCHANGED <<policy, lane, streams, observed, failed, sent>>
      BY <2>3 DEF Tick, vars, reports
    <3> QED BY <3>1 DEF SessionInv, FramesDecrypt, Session, Quiet, Admitted, Holds
  <2> QED BY <2>1, <2>2, <2>3, StepMoves, WorkSession, ServeSession
<1>3. Inv => TypeOK /\ FramesDecrypt
  <2> SUFFICES ASSUME Inv PROVE TypeOK
    BY DEF SessionInv
  <2>1. \A s \in Senders : /\ lane[s].id \in 0..Len(streams)
                           /\ lane[s].phase \in {"handshake", "write"} =>
                                lane[s].id # 0 /\ streams[lane[s].id].client
    <3> SUFFICES ASSUME NEW s \in Senders
                 PROVE  /\ lane[s].id \in 0..Len(streams)
                        /\ lane[s].phase \in {"handshake", "write"} =>
                                lane[s].id # 0 /\ streams[lane[s].id].client
      OBVIOUS
    <3>1. lane[s].id \in Nat /\ lane[s].id <= Len(streams) /\ LaneShape(lane[s]) /\ Len(streams) \in Nat
      BY DEF Shape, Lane
    <3>2. Session(s)
      BY DEF SessionInv
    <3> QED BY <3>1, <3>2 DEF LaneShape, Session
  <2> QED BY <2>1 DEF TypeOK, Shape, OnePlace, SessionInv
<1> QED BY <1>1, <1>2, <1>3, PTL DEF Spec

-----------------------------------------------------------------------------
(* What a node keeps about its peers.                                       *)

\* One class of one peer at time t: the window started at b and counts n messages of
\* limit l, and s are the messages that passed within the last Window. They are of this
\* window or of the one before, each has its own place, and those of the window are all
\* there while it lasts.
Mark == [time : Nat, start : Nat, place : Nat]
Fair(t, b, n, s, l) ==
    /\ b \in Nat /\ n \in Nat /\ b <= t /\ n <= l
    /\ s \subseteq Mark
    /\ b = 0 => n = 0 /\ s = {}
    /\ \A x \in s :
        /\ 1 <= x.place /\ x.place <= l
        /\ x.start <= x.time /\ x.time <= t
        /\ x.time < x.start + Window /\ t < x.time + Window
        /\ x.start = b => x.place <= n
        /\ x.start # b => x.time < b
    /\ \A x, y \in s : x.start # b /\ y.start # b => x.start = y.start
    /\ \A x, y \in s : x.start = y.start /\ x.place = y.place => x = y
    /\ t < b + Window => \A k \in 1..n : \E x \in s : x.start = b /\ x.place = k

\* What is left at the next time.
Lasting(s, t) == {x \in s : x.time + Window > t}

\* Time passes: the messages that drop out are not of a window that goes on.
LEMMA ElapseFair ==
    ASSUME PeerBookAssumption, NEW t \in Nat, NEW b, NEW n, NEW s, NEW l \in Nat, Fair(t, b, n, s, l)
    PROVE  Fair(t + 1, b, n, Lasting(s, t + 1), l)
<1> DEFINE r == Lasting(s, t + 1)
<1>0. Window \in Nat /\ b \in Nat /\ n \in Nat /\ s \subseteq Mark
  BY DEF PeerBookAssumption, Fair
<1>1. r \subseteq s /\ \A x \in s : x \in r <=> x.time + Window > t + 1
  BY DEF Lasting
<1> HIDE DEF r
<1>2. \A x \in s : x.time \in Nat /\ x.start \in Nat /\ x.place \in Nat
  BY <1>0 DEF Mark
<1>3. t + 1 < b + Window => \A k \in 1..n : \E x \in r : x.start = b /\ x.place = k
  <2> SUFFICES ASSUME t + 1 < b + Window, NEW k \in 1..n PROVE \E x \in r : x.start = b /\ x.place = k
    OBVIOUS
  <2>1. PICK x \in s : x.start = b /\ x.place = k
    BY <1>0 DEF Fair
  <2>2. x.start <= x.time
    BY DEF Fair
  <2>3. x \in r
    BY <1>0, <1>1, <1>2, <2>1, <2>2
  <2> QED BY <2>1, <2>3
<1>4. \A x \in r :
        /\ 1 <= x.place /\ x.place <= l
        /\ x.start <= x.time /\ x.time <= t + 1
        /\ x.time < x.start + Window /\ t + 1 < x.time + Window
        /\ x.start = b => x.place <= n
        /\ x.start # b => x.time < b
  BY <1>0, <1>1, <1>2 DEF Fair
<1>5. b <= t + 1 /\ n <= l /\ (b = 0 => n = 0 /\ r = {})
  BY <1>0, <1>1 DEF Fair
<1>6. /\ \A x, y \in r : x.start # b /\ y.start # b => x.start = y.start
      /\ \A x, y \in r : x.start = y.start /\ x.place = y.place => x = y
  BY <1>1 DEF Fair
<1>7. Fair(t + 1, b, n, r, l)
  BY <1>0, <1>1, <1>3, <1>4, <1>5, <1>6 DEF Fair
<1> QED BY <1>7 DEF r

\* A message after the end of the window starts the next one.
LEMMA RestartFair ==
    ASSUME PeerBookAssumption, NEW t \in Nat, t # 0, NEW b, NEW n, NEW s, NEW l \in Nat,
           Fair(t, b, n, s, l), b = 0 \/ t - b >= Window
    PROVE  Fair(t, t, 0, s, l)
<1>0. Window \in Nat /\ Window # 0 /\ b \in Nat /\ n \in Nat /\ s \subseteq Mark
  BY DEF PeerBookAssumption, Fair
<1>2. \A x \in s : x.time \in Nat /\ x.start \in Nat /\ x.place \in Nat
  BY <1>0 DEF Mark
<1>3. \A x \in s : x.start = b /\ x.start < t /\ x.time < t
  BY <1>0, <1>2 DEF Fair
<1> QED BY <1>0, <1>2, <1>3 DEF Fair

\* A message of the window passes.
LEMMA PassFair ==
    ASSUME PeerBookAssumption, NEW t \in Nat, NEW b, NEW n, NEW s, NEW l \in Nat,
           Fair(t, b, n, s, l), b # 0, t - b < Window, n < l
    PROVE  Fair(t, b, n + 1, s \cup {[time |-> t, start |-> b, place |-> n + 1]}, l)
<1> DEFINE m == [time |-> t, start |-> b, place |-> n + 1]
           r == s \cup {m}
<1>0. Window \in Nat /\ Window # 0 /\ b \in Nat /\ n \in Nat /\ s \subseteq Mark /\ b <= t
  BY DEF PeerBookAssumption, Fair
<1>1. m \in Mark /\ m.time = t /\ m.start = b /\ m.place = n + 1
  BY <1>0 DEF Mark
<1>2. m \in r /\ \A x \in r : x \in s \/ x = m
  OBVIOUS
<1>3. s \subseteq r
  OBVIOUS
<1> HIDE DEF m, r
<1>4. \A x \in s : x.time \in Nat /\ x.start \in Nat /\ x.place \in Nat
  BY <1>0 DEF Mark
<1>5. r \subseteq Mark
  BY <1>0, <1>1, <1>2
<1>6. \A x \in r :
        /\ 1 <= x.place /\ x.place <= l
        /\ x.start <= x.time /\ x.time <= t
        /\ x.time < x.start + Window /\ t < x.time + Window
        /\ x.start = b => x.place <= n + 1
        /\ x.start # b => x.time < b
  BY <1>0, <1>1, <1>2, <1>4 DEF Fair
<1>7. \A x, y \in r : x.start # b /\ y.start # b => x.start = y.start
  BY <1>1, <1>2 DEF Fair
<1>8. \A x, y \in r : x.start = y.start /\ x.place = y.place => x = y
  <2>1. \A x \in s : x.start = b => x.place # n + 1
    BY <1>0, <1>4 DEF Fair
  <2> QED BY <1>1, <1>2, <2>1 DEF Fair
<1>9. \A k \in 1..(n + 1) : \E x \in r : x.start = b /\ x.place = k
  <2> SUFFICES ASSUME NEW k \in 1..(n + 1) PROVE \E x \in r : x.start = b /\ x.place = k
    OBVIOUS
  <2>1. CASE k = n + 1
    BY <1>1, <1>2, <2>1
  <2>2. CASE k # n + 1
    <3>1. k \in 1..n /\ t < b + Window
      BY <1>0, <2>2
    <3> QED BY <1>3, <3>1 DEF Fair
  <2> QED BY <2>1, <2>2
<1>10. Fair(t, b, n + 1, r, l)
  BY <1>0, <1>5, <1>6, <1>7, <1>8, <1>9 DEF Fair
<1> QED BY <1>10 DEF r, m

\* No more than twice the limit within a window length.
LEMMA FairBounded ==
    ASSUME NEW t \in Nat, NEW b, NEW n, NEW s, NEW l \in Nat, Fair(t, b, n, s, l)
    PROVE  IsFiniteSet(s) /\ Cardinality(s) \in Nat /\ Cardinality(s) <= 2 * l
<1> DEFINE f == [x \in s |-> IF x.start = b THEN x.place ELSE x.place + l]
<1>1. \A x \in s : x.place \in 1..l
  BY DEF Fair, Mark
<1>2. f \in [s -> 1..(2 * l)]
  BY <1>1
<1>3. ASSUME NEW x \in s, NEW y \in s, f[x] = f[y] PROVE x = y
  <2>1. x.place \in 1..l /\ y.place \in 1..l
    BY <1>1
  <2>2. x.place = y.place /\ (x.start = b <=> y.start = b)
    BY <1>3, <2>1
  <2> QED BY <2>2 DEF Fair
<1>4. f \in Injection(s, 1..(2 * l))
  BY <1>2, <1>3 DEF Injection, IsInjective
<1>5. IsFiniteSet(1..(2 * l)) /\ Cardinality(1..(2 * l)) = 2 * l
  BY FS_Interval
<1>6. IsFiniteSet(s) /\ Cardinality(s) <= Cardinality(1..(2 * l))
  BY <1>4, <1>5, FS_Injection
<1> QED BY <1>5, <1>6, FS_CardinalityType

\* A class whose counter is at its limit has used the limit up within the last window
\* length.
LEMMA FairHeard ==
    ASSUME PeerBookAssumption, NEW t \in Nat, NEW b, NEW n, NEW s, NEW l \in Nat,
           Fair(t, b, n, s, l), t - b < Window, ~(n < l)
    PROVE  Cardinality(s) >= l
<1>0. Window \in Nat /\ b \in Nat /\ n = l
  BY DEF PeerBookAssumption, Fair
<1>1. \A k \in 1..l : \E x \in s : x.start = b /\ x.place = k
  BY <1>0 DEF Fair
<1> DEFINE f == [k \in 1..l |-> CHOOSE x \in s : x.start = b /\ x.place = k]
<1>2. \A k \in 1..l : f[k] \in s /\ f[k].place = k
  BY <1>1
<1>3. f \in [1..l -> s]
  BY <1>2
<1>4. f \in Injection(1..l, s)
  BY <1>2, <1>3 DEF Injection, IsInjective
<1>5. IsFiniteSet(s) /\ Cardinality(s) \in Nat
  BY FairBounded
<1>6. Cardinality(1..l) <= Cardinality(s)
  BY <1>4, <1>5, FS_Injection
<1>7. Cardinality(1..l) = l
  BY FS_Interval
<1> QED BY <1>5, <1>6, <1>7
-----------------------------------------------------------------------------
\* The inductive invariant: every class of every peer is Fair, a dropped message's class
\* has used its limit up, and the sessions of an epoch are recorded as failed only for
\* relay targets that were not reached in it.
LimiterInv ==
    /\ clock \in 1..LastTime
    /\ window \in [Peers -> [start : Nat, count : [Classes -> Nat]]]
    /\ passed \in [Peers -> [Classes -> SUBSET Mark]]
    /\ \A p \in Peers : window[p].start <= clock
    /\ \A p \in Peers, c \in Classes :
        Fair(clock, window[p].start, window[p].count[c], passed[p][c], Limit[c])
    /\ silenced \subseteq Peers \X Classes
    /\ ModestPeersHeard

PenaltiesInv ==
    /\ epoch \in Epochs
    /\ failures \subseteq Epochs \X Peers /\ succeeded \subseteq Epochs \X Peers
    /\ \A e \in Epochs, p \in Peers : <<e, p>> \in failures => p \in Targets[e] /\ <<e, p>> \notin reached
    /\ \A r \in reached : r[1] \in Nat /\ r[1] <= epoch
    /\ \A p \in Targets[epoch] : <<epoch, p>> \in reached => <<epoch, p>> \in succeeded

\* What of the limiter's state a step may leave alone.
LEMMA LimiterUnchanged ==
    ASSUME LimiterInv, UNCHANGED <<clock, limiter>>
    PROVE  LimiterInv'
  BY DEF LimiterInv, limiter, ModestPeersHeard

LEMMA PenaltiesUnchanged ==
    ASSUME PenaltiesInv, UNCHANGED <<epoch, failures, succeeded, reached>>
    PROVE  PenaltiesInv'
  BY DEF PenaltiesInv

\* The window a message falls into is going on and its counters are right.
LEMMA WindowFair ==
    ASSUME PeerBookAssumption, LimiterInv, NEW p \in Peers
    PROVE  LET w == WindowAt(window[p], clock)
           IN  /\ w \in [start : Nat, count : [Classes -> Nat]]
               /\ w.start # 0 /\ w.start <= clock /\ clock - w.start < Window
               /\ \A c \in Classes : Fair(clock, w.start, w.count[c], passed[p][c], Limit[c])
<1> DEFINE old == window[p]
           w   == WindowAt(old, clock)
<1>1. /\ old \in [start : Nat, count : [Classes -> Nat]] /\ old.start <= clock
      /\ clock \in Nat /\ clock # 0
  BY DEF LimiterInv, PeerBookAssumption
<1>2. \A c \in Classes : /\ Limit[c] \in Nat
                         /\ Fair(clock, old.start, old.count[c], passed[p][c], Limit[c])
  BY DEF LimiterInv, PeerBookAssumption, Classes
<1>3. Window \in Nat \ {0}
  BY DEF PeerBookAssumption
<1> HIDE DEF old
<1>4. CASE old.start = 0 \/ clock - old.start >= Window
  <2>1. w = [start |-> clock, count |-> [c \in Classes |-> 0]]
    BY <1>4 DEF WindowAt, Fresh
  <2>2. w.start = clock /\ \A c \in Classes : w.count[c] = 0
    BY <2>1
  <2>3. w \in [start : Nat, count : [Classes -> Nat]]
    BY <1>1, <2>1
  <2>4. ASSUME NEW c \in Classes PROVE Fair(clock, clock, 0, passed[p][c], Limit[c])
    BY <1>1, <1>2, <1>4, RestartFair
  <2> HIDE DEF w
  <2>5. \A c \in Classes : Fair(clock, w.start, w.count[c], passed[p][c], Limit[c])
    BY <2>2, <2>4
  <2> QED BY <1>1, <1>3, <2>2, <2>3, <2>5 DEF w, old
<1>5. CASE ~(old.start = 0 \/ clock - old.start >= Window)
  <2>1. w = old
    BY <1>5 DEF WindowAt
  <2>2. old.start \in Nat
    BY <1>1
  <2> QED BY <1>1, <1>2, <1>3, <1>5, <2>1, <2>2 DEF w, old
<1> QED BY <1>4, <1>5

\* A message of a limited class passes or is dropped.
LEMMA ReceiveFair ==
    ASSUME PeerBookAssumption, LimiterInv, NEW p \in Peers, NEW m \in Messages, Receive(p, m)
    PROVE  LimiterInv'
<1> DEFINE class == ClassOf(m)
           w     == WindowAt(window[p], clock)
           mark  == [time |-> clock, start |-> w.start, place |-> w.count[class] + 1]
           more  == passed[p][class] \cup {mark}
           next  == [w EXCEPT !.count[class] = @ + 1]
<1>1. clock' = clock
  BY DEF Receive
<1>2. CASE class = Unlimited
  BY <1>1, <1>2, LimiterUnchanged DEF Receive
<1>3. CASE class # Unlimited
  <2>1. class \in Classes
    BY <1>3 DEF PeerBookAssumption, Classes
  <2>2. /\ w \in [start : Nat, count : [Classes -> Nat]]
        /\ w.start # 0 /\ w.start <= clock /\ clock - w.start < Window
        /\ \A c \in Classes : Fair(clock, w.start, w.count[c], passed[p][c], Limit[c])
    BY WindowFair
  <2>3. clock \in Nat /\ clock \in 1..LastTime /\ \A c \in Classes : Limit[c] \in Nat
    BY DEF LimiterInv, PeerBookAssumption, Classes
  <2>4. /\ window \in [Peers -> [start : Nat, count : [Classes -> Nat]]]
        /\ passed \in [Peers -> [Classes -> SUBSET Mark]] /\ silenced \subseteq Peers \X Classes
        /\ \A q \in Peers : window[q].start <= clock
        /\ \A q \in Peers, c \in Classes :
             Fair(clock, window[q].start, window[q].count[c], passed[q][c], Limit[c])
        /\ ModestPeersHeard
    BY DEF LimiterInv
  <2>5. CASE Allows(w, class)
    <3>1. /\ window' = [window EXCEPT ![p] = next]
          /\ passed' = [passed EXCEPT ![p][class] = more] /\ silenced' = silenced
      BY <1>3, <2>5 DEF Receive
    <3>2. /\ next \in [start : Nat, count : [Classes -> Nat]] /\ next.start = w.start
          /\ next.count[class] = w.count[class] + 1
          /\ \A c \in Classes \ {class} : next.count[c] = w.count[c]
      BY <2>1, <2>2
    <3>3. Fair(clock, w.start, w.count[class] + 1, more, Limit[class])
      BY <2>1, <2>2, <2>3, <2>5, PassFair DEF Allows
    <3>4. more \in SUBSET Mark
      BY <3>3 DEF Fair
    <3> HIDE DEF w, more, next
    <3>5. /\ window' \in [Peers -> [start : Nat, count : [Classes -> Nat]]]
          /\ window'[p] = next /\ \A q \in Peers \ {p} : window'[q] = window[q]
      BY <2>4, <3>1, <3>2
    <3>6. /\ passed' \in [Peers -> [Classes -> SUBSET Mark]] /\ passed'[p][class] = more
          /\ \A q \in Peers, c \in Classes : <<q, c>> # <<p, class>> => passed'[q][c] = passed[q][c]
      BY <2>1, <2>4, <3>1, <3>4
    <3>7. ASSUME NEW q \in Peers, NEW c \in Classes
          PROVE  Fair(clock, window'[q].start, window'[q].count[c], passed'[q][c], Limit[c])
      <4>1. CASE q = p /\ c = class
        BY <3>2, <3>3, <3>5, <3>6, <4>1
      <4>2. CASE q = p /\ c # class
        <5>1. passed'[q][c] = passed[p][c] /\ window'[q].start = w.start /\ window'[q].count[c] = w.count[c]
          BY <3>2, <3>5, <3>6, <4>2
        <5> QED BY <2>2, <5>1
      <4>3. CASE q # p
        <5>1. passed'[q][c] = passed[q][c] /\ window'[q] = window[q]
          BY <3>5, <3>6, <4>3
        <5> QED BY <2>4, <5>1
      <4> QED BY <4>1, <4>2, <4>3
    <3>8. ASSUME NEW s \in silenced PROVE Cardinality(passed'[s[1]][s[2]]) >= Limit[s[2]]
      <4>1. s[1] \in Peers /\ s[2] \in Classes /\ s = <<s[1], s[2]>>
        BY <2>4
      <4>2. Cardinality(passed[s[1]][s[2]]) >= Limit[s[2]]
        BY <2>4 DEF ModestPeersHeard
      <4>3. CASE s[1] = p /\ s[2] = class
        <5>1. passed'[s[1]][s[2]] = more /\ passed[s[1]][s[2]] = passed[p][class]
          BY <3>6, <4>3
        <5>2. IsFiniteSet(more) /\ Cardinality(more) \in Nat
          BY <2>1, <2>3, <3>3, FairBounded
        <5>3. passed[p][class] \in SUBSET more
          BY DEF more
        <5>4. Cardinality(passed[p][class]) <= Cardinality(more) /\ IsFiniteSet(passed[p][class])
          BY <5>2, <5>3, FS_Subset
        <5>5. Cardinality(passed[p][class]) \in Nat
          BY <5>4, FS_CardinalityType
        <5> QED BY <2>1, <2>3, <4>2, <4>3, <5>1, <5>2, <5>4, <5>5
      <4>4. CASE ~(s[1] = p /\ s[2] = class)
        <5>1. passed'[s[1]][s[2]] = passed[s[1]][s[2]]
          BY <3>6, <4>1, <4>4
        <5> QED BY <4>2, <5>1
      <4> QED BY <4>3, <4>4
    <3>9. \A q \in Peers : window'[q].start <= clock
      BY <2>2, <2>4, <3>2, <3>5
    <3> QED BY <1>1, <2>3, <2>4, <3>1, <3>5, <3>6, <3>7, <3>8, <3>9 DEF LimiterInv, ModestPeersHeard
  <2>6. CASE ~Allows(w, class)
    <3>1. window' = [window EXCEPT ![p] = w] /\ passed' = passed /\ silenced' = silenced \cup {<<p, class>>}
      BY <1>3, <2>6 DEF Receive
    <3>2. Cardinality(passed[p][class]) >= Limit[class]
      BY <2>1, <2>2, <2>3, <2>6, FairHeard DEF Allows
    <3> HIDE DEF w
    <3>3. /\ window' \in [Peers -> [start : Nat, count : [Classes -> Nat]]]
          /\ window'[p] = w /\ \A q \in Peers \ {p} : window'[q] = window[q]
      BY <2>2, <2>4, <3>1
    <3>4. ASSUME NEW q \in Peers, NEW c \in Classes
          PROVE  Fair(clock, window'[q].start, window'[q].count[c], passed'[q][c], Limit[c])
      <4>1. CASE q = p
        BY <2>2, <3>1, <3>3, <4>1
      <4>2. CASE q # p
        <5>1. window'[q] = window[q]
          BY <3>3, <4>2
        <5> QED BY <2>4, <3>1, <5>1
      <4> QED BY <4>1, <4>2
    <3>5. silenced' \subseteq Peers \X Classes
      BY <2>1, <2>4, <3>1
    <3>6. ASSUME NEW s \in silenced' PROVE Cardinality(passed[s[1]][s[2]]) >= Limit[s[2]]
      <4>1. CASE s \in silenced
        BY <2>4, <4>1 DEF ModestPeersHeard
      <4>2. CASE s = <<p, class>>
        BY <3>2, <4>2
      <4> QED BY <3>1, <4>1, <4>2
    <3>7. \A q \in Peers : window'[q].start <= clock
      BY <2>2, <2>4, <3>3
    <3> QED BY <1>1, <2>3, <2>4, <3>1, <3>3, <3>4, <3>5, <3>6, <3>7 DEF LimiterInv, ModestPeersHeard
  <2> QED BY <2>5, <2>6
<1> QED BY <1>2, <1>3

\* Time passes for every class of every peer.
LEMMA ElapseStep ==
    ASSUME PeerBookAssumption, LimiterInv, Elapse
    PROVE  LimiterInv'
<1>1. /\ clock \in Nat /\ clock' = clock + 1 /\ clock' \in 1..LastTime /\ window' = window /\ silenced' = {}
  BY DEF Elapse, LimiterInv, PeerBookAssumption
<1>2. passed' = [p \in Peers |-> [c \in Classes |-> Lasting(passed[p][c], clock + 1)]]
  BY DEF Elapse, Lasting
<1>3. ASSUME NEW p \in Peers, NEW c \in Classes
      PROVE  Fair(clock', window[p].start, window[p].count[c], passed'[p][c], Limit[c])
  <2>1. Fair(clock, window[p].start, window[p].count[c], passed[p][c], Limit[c]) /\ Limit[c] \in Nat
    BY DEF LimiterInv, PeerBookAssumption, Classes
  <2>2. Fair(clock + 1, window[p].start, window[p].count[c], Lasting(passed[p][c], clock + 1), Limit[c])
    BY <1>1, <2>1, ElapseFair
  <2> QED BY <1>1, <1>2, <2>2
<1>4. passed' \in [Peers -> [Classes -> SUBSET Mark]]
  BY <1>2 DEF LimiterInv, Lasting
<1>5. \A p \in Peers : window[p].start <= clock'
  BY <1>1 DEF LimiterInv
<1> QED BY <1>1, <1>3, <1>4, <1>5 DEF LimiterInv, ModestPeersHeard
-----------------------------------------------------------------------------
\* A session that succeeded takes back the failure of the epoch.
LEMMA ObservedFair ==
    ASSUME PeerBookAssumption, PenaltiesInv, NEW p \in Peers, OnSessionObserved(p)
    PROVE  PenaltiesInv'
<1>1. epoch' = epoch /\ reached' = reached \cup {<<epoch, p>>} /\ epoch \in Nat
  BY DEF OnSessionObserved, PenaltiesInv, PeerBookAssumption, Epochs
<1>2. CASE p \in Targets[epoch]
  <2>1. succeeded' = succeeded \cup {<<epoch, p>>} /\ failures' = failures \ {<<epoch, p>>}
    BY <1>2 DEF OnSessionObserved, RecordSuccess
  <2> QED BY <1>1, <2>1 DEF PenaltiesInv
<1>3. CASE p \notin Targets[epoch]
  <2>1. succeeded' = succeeded /\ failures' = failures
    BY <1>3 DEF OnSessionObserved, RecordSuccess
  <2> QED BY <1>1, <1>3, <2>1 DEF PenaltiesInv
<1> QED BY <1>2, <1>3

\* A session that failed counts only for a relay target not reached in the epoch.
LEMMA FailedFair ==
    ASSUME PeerBookAssumption, PenaltiesInv, NEW p \in Peers, NEW kind, OnSessionFailed(p, kind)
    PROVE  PenaltiesInv'
<1>1. UNCHANGED <<epoch, succeeded, reached>>
  BY DEF OnSessionFailed
<1>2. CASE failures' = failures
  BY <1>1, <1>2, PenaltiesUnchanged
<1>3. CASE failures' # failures
  <2>1. failures' = failures \cup {<<epoch, p>>} /\ p \in Targets[epoch] /\ <<epoch, p>> \notin succeeded
    BY <1>3 DEF OnSessionFailed, RecordFailure, RecordsFailure
  <2> QED BY <1>1, <2>1 DEF PenaltiesInv
<1> QED BY <1>2, <1>3

\* The next epoch forgets and adds nothing.
LEMMA NextEpochFair ==
    ASSUME PeerBookAssumption, PenaltiesInv, NextEpoch
    PROVE  PenaltiesInv'
<1>1. /\ epoch \in Nat /\ epoch' = epoch + 1 /\ epoch' \in Epochs /\ reached' = reached
      /\ failures' \subseteq failures /\ succeeded' \subseteq succeeded
  BY DEF NextEpoch, PenaltiesInv, PeerBookAssumption, Epochs
<1>2. \A p \in Targets[epoch'] : <<epoch', p>> \notin reached
  BY <1>1 DEF PenaltiesInv
<1> QED BY <1>1, <1>2 DEF PenaltiesInv

\* The failures of an epoch are as many as their peers.
LEMMA PenaltiesFair ==
    ASSUME PeerBookAssumption, PenaltiesInv
    PROVE  ReachedNotPenalised
<1> SUFFICES ASSUME NEW e \in Epochs
             PROVE  FailedSessions(e) <= Cardinality({p \in Targets[e] : <<e, p>> \notin reached})
  BY DEF ReachedNotPenalised
<1> DEFINE S == {s \in failures : s[1] = e}
           T == {p \in Targets[e] : <<e, p>> \notin reached}
           f == [s \in S |-> s[2]]
<1>1. T \in SUBSET Peers
  BY DEF PeerBookAssumption, Epochs
<1>2. IsFiniteSet(T)
  BY <1>1, FS_Subset DEF PeerBookAssumption
<1>3. \A s \in S : s = <<e, s[2]>> /\ s[2] \in Peers
  BY DEF PenaltiesInv
<1>4. \A s \in S : s[2] \in T
  BY <1>3 DEF PenaltiesInv
<1>5. f \in [S -> T]
  BY <1>4
<1>6. f \in Injection(S, T)
  BY <1>3, <1>5 DEF Injection, IsInjective
<1>7. Cardinality(S) <= Cardinality(T)
  BY <1>2, <1>6, FS_Injection
<1> QED BY <1>7 DEF FailedSessions

\* In every reachable state no more than twice a class's limit passes within a window
\* length, a message is dropped only when its class has used its limit up within the last
\* one, and a relay target that was reached in an epoch is not counted as failed in it,
\* for all peers, limits, windows, relay plans and orders of events
\* (allow_peer_message_in_window, record_successful_session, record_failed_session).
THEOREM PeersAlwaysJudgedFairly ==
    ASSUME PeerBookAssumption
    PROVE  BookSpec => []PeersJudgedFairly
<1> DEFINE Inv == LimiterInv /\ PenaltiesInv
<1>1. BookInit => Inv
  <2> SUFFICES ASSUME BookInit PROVE Inv
    OBVIOUS
  <2>1. clock = 1 /\ clock \in 1..LastTime /\ Window \in Nat /\ \A c \in Classes : Limit[c] \in Nat
    BY DEF BookInit, PeerBookAssumption, Classes
  <2>2. \A p \in Peers : /\ window[p].start = 0 /\ \A c \in Classes : window[p].count[c] = 0
                         /\ \A c \in Classes : passed[p][c] = {}
    BY DEF BookInit, Fresh
  <2>3. ASSUME NEW p \in Peers, NEW c \in Classes
        PROVE  Fair(clock, window[p].start, window[p].count[c], passed[p][c], Limit[c])
    <3>1. Fair(1, 0, 0, {}, Limit[c])
      BY <2>1 DEF Fair
    <3> QED BY <2>1, <2>2, <3>1
  <2>4. LimiterInv
    BY <2>1, <2>2, <2>3 DEF LimiterInv, ModestPeersHeard, BookInit, Fresh
  <2>5. PenaltiesInv
    BY DEF PenaltiesInv, BookInit, PeerBookAssumption, Epochs
  <2> QED BY <2>4, <2>5
<1>2. Inv /\ [BookNext]_bookVars => Inv'
  <2> SUFFICES ASSUME Inv, [BookNext]_bookVars PROVE Inv'
    OBVIOUS
  <2>1. CASE UNCHANGED bookVars
    <3>1. UNCHANGED <<clock, limiter>> /\ UNCHANGED <<epoch, failures, succeeded, reached>>
      BY <2>1 DEF bookVars, sessions
    <3> QED BY <3>1, LimiterUnchanged, PenaltiesUnchanged
  <2>2. CASE Elapse
    BY <2>2, ElapseStep, PenaltiesUnchanged DEF Elapse, sessions
  <2>3. ASSUME NEW p \in Peers, NEW m \in Messages, Receive(p, m) PROVE Inv'
    <3>1. UNCHANGED <<epoch, failures, succeeded, reached>>
      BY <2>3 DEF Receive
    <3> QED BY <2>3, <3>1, ReceiveFair, PenaltiesUnchanged
  <2>4. ASSUME NEW p \in Peers, OnSessionObserved(p) PROVE Inv'
    <3>1. UNCHANGED <<clock, limiter>>
      BY <2>4 DEF OnSessionObserved
    <3> QED BY <2>4, <3>1, ObservedFair, LimiterUnchanged
  <2>5. ASSUME NEW p \in Peers, NEW kind, OnSessionFailed(p, kind) PROVE Inv'
    <3>1. UNCHANGED <<clock, limiter>>
      BY <2>5 DEF OnSessionFailed
    <3> QED BY <2>5, <3>1, FailedFair, LimiterUnchanged
  <2>6. CASE NextEpoch
    <3>1. UNCHANGED <<clock, limiter>>
      BY <2>6 DEF NextEpoch
    <3> QED BY <2>6, <3>1, NextEpochFair, LimiterUnchanged
  <2> QED BY <2>1, <2>2, <2>3, <2>4, <2>5, <2>6 DEF BookNext, SessionNext
<1>3. Inv => PeersJudgedFairly
  <2> SUFFICES ASSUME Inv PROVE PeersJudgedFairly
    OBVIOUS
  <2>1. clock \in Nat /\ \A c \in Classes : Limit[c] \in Nat
    BY DEF LimiterInv, PeerBookAssumption, Classes
  <2>2. BurstsBounded
    BY <2>1, FairBounded DEF LimiterInv, BurstsBounded
  <2>3. BookTypeOK
    <3>1. \A p \in Peers : /\ window[p].start \in 0 .. clock
                           /\ \A c \in Classes : window[p].count[c] \in 0 .. Limit[c]
      <4> SUFFICES ASSUME NEW p \in Peers
                   PROVE  /\ window[p].start \in 0 .. clock
                          /\ \A c \in Classes : window[p].count[c] \in 0 .. Limit[c]
        OBVIOUS
      <4>1. window[p].start <= clock /\ window[p].start \in Nat
        BY DEF LimiterInv
      <4>2. \A c \in Classes : window[p].count[c] \in Nat /\ window[p].count[c] <= Limit[c]
        BY DEF LimiterInv, Fair
      <4> QED BY <2>1, <4>1, <4>2
    <3> QED BY <3>1 DEF BookTypeOK, LimiterInv, PenaltiesInv
  <2> QED BY <2>2, <2>3, PenaltiesFair DEF PeersJudgedFairly, LimiterInv
<1> QED BY <1>1, <1>2, <1>3, PTL DEF BookSpec
=============================================================================
