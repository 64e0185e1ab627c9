------------------------- MODULE SyncControlProofs -------------------------
(***************************************************************************)
(* Whatever is exchanged, lost or restarted, for any number of nodes, tree *)
(* of blocks and length of chains: what nodes send and record of each      *)
(* other is well formed, and the exchange makes no certificate.            *)
(***************************************************************************)
EXTENDS SyncControl, BlockTreeProofs

-----------------------------------------------------------------------------
(* Values that are computed step by step.                                   *)

\* The values after each of n steps, each of which stays in E.
AreSteps(f, base, step, n) == f = [i \in 0 .. n |-> IF i = 0 THEN base ELSE step[i][f[i - 1]]]

LEMMA StepsExist ==
    ASSUME NEW E, NEW base \in E, NEW n \in Nat, NEW step \in [1 .. n -> [E -> E]]
    PROVE  \E f \in [0 .. n -> E] : AreSteps(f, base, step, n)
<1> DEFINE S == {k \in Nat : k <= n => \E f \in [0 .. k -> E] : AreSteps(f, base, step, k)}
<1>1. 0 \in S
  <2>1. AreSteps([i \in 0 .. 0 |-> base], base, step, 0)
    BY DEF AreSteps
  <2> QED BY <2>1
<1>2. ASSUME NEW k \in S PROVE k + 1 \in S
  <2> SUFFICES ASSUME k + 1 <= n PROVE \E f \in [0 .. k + 1 -> E] : AreSteps(f, base, step, k + 1)
    OBVIOUS
  <2>1. k \in Nat
    OBVIOUS
  <2>2. PICK f \in [0 .. k -> E] : AreSteps(f, base, step, k)
    BY <2>1
  <2>3. step[k + 1] \in [E -> E] /\ f[k] \in E
    BY <2>1, <2>2
  <2> DEFINE g == [i \in 0 .. k + 1 |-> IF i = k + 1 THEN step[k + 1][f[k]] ELSE f[i]]
  <2>4. g \in [0 .. k + 1 -> E]
    BY <2>1, <2>2, <2>3
  <2>5. \A i \in 0 .. k : g[i] = f[i]
    BY <2>1
  <2>6. g[k + 1] = step[k + 1][f[k]]
    BY <2>1
  <2>7. f[0] = base /\ \A i \in 1 .. k : f[i] = step[i][f[i - 1]]
    BY <2>1, <2>2 DEF AreSteps
  <2>8. ASSUME NEW i \in 0 .. k + 1 PROVE g[i] = IF i = 0 THEN base ELSE step[i][g[i - 1]]
    <3> HIDE DEF g
    <3>1. CASE i = 0
      BY <2>1, <2>5, <2>7, <3>1
    <3>2. CASE i \in 1 .. k
      <4>1. i - 1 \in 0 .. k /\ i \in 0 .. k /\ i # 0
        BY <2>1, <3>2
      <4> QED BY <2>5, <2>7, <3>2, <4>1
    <3>3. CASE i = k + 1
      <4>1. i - 1 = k /\ k \in 0 .. k /\ i # 0
        BY <2>1, <3>3
      <4> QED BY <2>5, <2>6, <3>3, <4>1
    <3> QED BY <2>1, <3>1, <3>2, <3>3
  <2>9. AreSteps(g, base, step, k + 1)
    BY <2>8 DEF AreSteps
  <2> HIDE DEF g
  <2> QED BY <2>4, <2>9
<1> HIDE DEF S
<1>3. S = Nat
  BY <1>1, <1>2, NumbersReached DEF S
<1> QED BY <1>3 DEF S

LEMMA StepsStay ==
    ASSUME NEW E, NEW base \in E, NEW n \in Nat, NEW step \in [1 .. n -> [E -> E]],
           NEW f, f[0] = base, \A i \in 1 .. n : f[i - 1] \in E => f[i] = step[i][f[i - 1]]
    PROVE  f[n] \in E
<1> DEFINE S == {k \in Nat : k <= n => f[k] \in E}
<1>1. 0 \in S
  OBVIOUS
<1>2. ASSUME NEW k \in S PROVE k + 1 \in S
  <2> SUFFICES ASSUME k + 1 <= n PROVE f[k + 1] \in E
    OBVIOUS
  <2>1. k \in Nat /\ f[k] \in E /\ k + 1 \in 1 .. n /\ (k + 1) - 1 = k
    OBVIOUS
  <2>2. f[k + 1] = step[k + 1][f[k]] /\ step[k + 1] \in [E -> E]
    BY <2>1
  <2> QED BY <2>1, <2>2
<1> HIDE DEF S
<1>3. S = Nat
  BY <1>1, <1>2, NumbersReached DEF S
<1> QED BY <1>3 DEF S

-----------------------------------------------------------------------------
(* Views.                                                                   *)

LEMMA HashTypes ==
    /\ \A b \in Hash : Chain[b] \in SUBSET Blocks /\ Height(b) \in Nat /\ SlotOf(b) \in Nat
    /\ \A b \in Blocks : b \in Hash /\ b # Genesis /\ b \in Chain[b] /\ Slot[b] \in Nat /\ Parent[b] \in Hash
    /\ Genesis \in Hash /\ Chain[Genesis] = {} /\ Height(Genesis) = 0
    /\ \A b \in Hash : b = Genesis \/ b \in Blocks
    /\ \A b \in Hash : b # -1
<1>1. Height(Genesis) = 0
  BY ChainType, FS_EmptySet DEF Height, BlockNumber
<1>2. \A b \in Hash : Chain[b] \in SUBSET Blocks /\ Height(b) \in Nat
  BY ChainType, ChainNumbers DEF Hash, Height
<1>3. \A b \in Hash : SlotOf(b) \in Nat
  BY TreeAssumption DEF Hash, SlotOf
<1> QED BY <1>1, <1>2, <1>3, ChainType, ChainClosed, BlocksAssumption, TreeAssumption DEF Hash, Genesis

\* The highest block of a non-empty part of a chain is there.
LEMMA HighestIn ==
    ASSUME NEW t \in Hash, NEW S \in SUBSET Chain[t]
    PROVE  /\ S = {} => Highest(S) = Genesis
           /\ S # {} => Highest(S) \in S /\ S \subseteq Chain[Highest(S)]
<1> SUFFICES ASSUME S # {} PROVE Highest(S) \in S /\ S \subseteq Chain[Highest(S)]
  BY DEF Highest
<1>1. t \in Blocks /\ S \in SUBSET Blocks
  BY HashTypes
<1> DEFINE h == LatestBlock(S)
<1>2. h \in S /\ \A c \in S : Slot[c] <= Slot[h]
  BY <1>1, LatestBlockIn
<1> HIDE DEF h
<1>3. ASSUME NEW c \in S PROVE c \in Chain[h]
  <2>1. c \in Blocks /\ h \in Blocks /\ Slot[c] \in Nat /\ Slot[h] \in Nat
    BY <1>1, <1>2, HashTypes
  <2>2. OnOneChain(c, h)
    BY <1>1, <1>2, ChainLinear
  <2>3. h \in Chain[c] /\ c # h => Slot[h] < Slot[c]
    BY <2>1, ChainSlots
  <2> QED BY <1>2, <2>1, <2>2, <2>3, HashTypes DEF OnOneChain
<1>4. \E b \in S : S \subseteq Chain[b]
  BY <1>2, <1>3
<1> QED BY <1>4 DEF Highest

LEMMA ViewType ==
    ASSUME NEW s \in NodeState
    PROVE  /\ HighestQc(s) \in Hash
           /\ HighestQc(s) # Genesis => HighestQc(s) \in s.certs \cap Chain[s.tip]
           /\ s.certs \cap Chain[s.tip] # {} => HighestQc(s) # Genesis
           /\ s.certs \cap Chain[s.tip] \subseteq Chain[HighestQc(s)]
           /\ LocalView(s) \in View
           /\ LocalView(s).tip \in Hash /\ LocalView(s).qc = HighestQc(s)
           /\ LocalView(s).tip = s.tip \/ LocalView(s).tip = HighestQc(s)
           /\ HighestQc(s) # Genesis => LocalView(s).tip \in Blocks
           /\ LocalAnchors(s) \in SUBSET Blocks
<1>1. s.tip \in Hash /\ s.certs \in SUBSET Blocks
  BY DEF NodeState
<1> DEFINE A == s.certs \cap Chain[s.tip]
<1>2. /\ A = {} => Highest(A) = Genesis
      /\ A # {} => Highest(A) \in A /\ A \subseteq Chain[Highest(A)]
  BY <1>1, HighestIn
<1>3. A \in SUBSET Blocks
  BY <1>1
<1>4. HighestQc(s) = Highest(A) /\ LocalAnchors(s) = A
  BY DEF HighestQc, LocalAnchors
<1>5. A # {} => s.tip \in Blocks
  BY <1>1, HashTypes
<1> HIDE DEF A
<1>6. /\ HighestQc(s) \in Hash
      /\ HighestQc(s) # Genesis => HighestQc(s) \in A
      /\ A # {} => HighestQc(s) # Genesis /\ HighestQc(s) \in Blocks
      /\ A \subseteq Chain[HighestQc(s)]
  BY <1>2, <1>3, <1>4, HashTypes
<1>7. /\ LocalView(s).tip = IF s.barrier /\ HighestQc(s) # Genesis THEN HighestQc(s) ELSE s.tip
      /\ LocalView(s).qc = HighestQc(s)
      /\ LocalView(s) = [tip |-> LocalView(s).tip, qc |-> LocalView(s).qc]
  BY DEF LocalView
<1>8. LocalView(s).tip \in Hash /\ LocalView(s) \in View
  BY <1>1, <1>6, <1>7 DEF View
<1> QED BY <1>1, <1>3, <1>4, <1>5, <1>6, <1>7, <1>8 DEF A

-----------------------------------------------------------------------------
(* Messages and effects.  G is a set of blocks: the certificates that a     *)
(* node has, sends or gets are of blocks in G.                              *)

States(G) == {s \in NodeState : s.certs \subseteq G}

Carries(m, G) ==
    /\ m.type \in {"snapshot", "segment"} => m.certs \subseteq G
    /\ m.type = "certified" => Chain[m.end] \ Chain[m.base] \subseteq G
    /\ m.type = "qc" => m.b \in G

Mail(G)    == {m \in ProtocolMessage : Carries(m, G)}
Parcels(G) == [to : Validators, m : Mail(G)]
Effects(G) == [s : States(G), out : Seq(Parcels(G))]

LEMMA MailMade ==
    ASSUME NEW G \in SUBSET Blocks
    PROVE  /\ \A t, q \in Hash, a \in SUBSET Blocks :
                [type |-> "status", tip |-> t, qc |-> q, anchors |-> a] \in Mail(G)
           /\ \A t \in Hash \cup {-1} : [type |-> "request", known |-> t] \in Mail(G)
           /\ \A t \in Hash, c \in SUBSET G : [type |-> "snapshot", tip |-> t, certs |-> c] \in Mail(G)
           /\ \A b \in Hash, t \in Blocks, c \in SUBSET G :
                [type |-> "segment", base |-> b, tip |-> t, certs |-> c] \in Mail(G)
           /\ \A a \in SUBSET Blocks : [type |-> "certRequest", anchors |-> a] \in Mail(G)
           /\ [type |-> "unavailable"] \in Mail(G)
           /\ \A b, e, t \in Blocks : Chain[e] \ Chain[b] \subseteq G =>
                [type |-> "certified", base |-> b, end |-> e, tip |-> t] \in Mail(G)
           /\ \A b \in G : [type |-> "qc", b |-> b] \in Mail(G)
           /\ \A b \in Blocks : [type |-> "block", b |-> b] \in Mail(G)
<1>1. \A t, q \in Hash, a \in SUBSET Blocks :
        [type |-> "status", tip |-> t, qc |-> q, anchors |-> a] \in Mail(G)
  BY DEF Mail, Carries, ProtocolMessage
<1>2. \A t \in Hash \cup {-1} : [type |-> "request", known |-> t] \in Mail(G)
  BY DEF Mail, Carries, ProtocolMessage
<1>3. \A t \in Hash, c \in SUBSET G : [type |-> "snapshot", tip |-> t, certs |-> c] \in Mail(G)
  BY DEF Mail, Carries, ProtocolMessage
<1>4. \A b \in Hash, t \in Blocks, c \in SUBSET G :
        [type |-> "segment", base |-> b, tip |-> t, certs |-> c] \in Mail(G)
  BY DEF Mail, Carries, ProtocolMessage
<1>5. \A a \in SUBSET Blocks : [type |-> "certRequest", anchors |-> a] \in Mail(G)
  BY DEF Mail, Carries, ProtocolMessage
<1>6. [type |-> "unavailable"] \in Mail(G)
  BY DEF Mail, Carries, ProtocolMessage, ChunkedSyncResponse
<1>7. \A b, e, t \in Blocks : Chain[e] \ Chain[b] \subseteq G =>
        [type |-> "certified", base |-> b, end |-> e, tip |-> t] \in Mail(G)
  BY DEF Mail, Carries, ProtocolMessage, ChunkedSyncResponse
<1>8. \A b \in G : [type |-> "qc", b |-> b] \in Mail(G)
  BY DEF Mail, Carries, ProtocolMessage
<1>9. \A b \in Blocks : [type |-> "block", b |-> b] \in Mail(G)
  BY DEF Mail, Carries, ProtocolMessage
<1> QED BY <1>1, <1>2, <1>3, <1>4, <1>5, <1>6, <1>7, <1>8, <1>9

LEMMA MailRead ==
    ASSUME NEW G \in SUBSET Blocks, NEW m \in Mail(G)
    PROVE  /\ m.type \in {"status", "request", "snapshot", "segment", "certRequest", "unavailable",
                          "certified", "qc", "block"}
           /\ m.type = "status" => m.tip \in Hash /\ m.qc \in Hash /\ m.anchors \in SUBSET Blocks
           /\ m.type = "request" => m.known \in Hash \cup {-1}
           /\ m.type = "snapshot" => m.tip \in Hash /\ m.certs \in SUBSET G
           /\ m.type = "segment" => m.base \in Hash /\ m.tip \in Blocks /\ m.certs \in SUBSET G
           /\ m.type = "certRequest" => m.anchors \in SUBSET Blocks
           /\ m.type = "certified" => /\ m.base \in Blocks /\ m.end \in Blocks /\ m.tip \in Blocks
                                      /\ Chain[m.end] \ Chain[m.base] \in SUBSET G
           /\ m.type = "qc" => m.b \in G /\ m.b \in Blocks
           /\ m.type = "block" => m.b \in Blocks
<1>1. m \in ProtocolMessage /\ Carries(m, G)
  BY DEF Mail
<1> QED BY <1>1 DEF ProtocolMessage, ChunkedSyncResponse, Carries

LEMMA StateRead ==
    ASSUME NEW G \in SUBSET Blocks, NEW s \in States(G)
    PROVE  /\ s \in NodeState /\ s.certs \in SUBSET G
           /\ s.tip \in Hash /\ s.certs \in SUBSET Blocks /\ s.pending \in Hash /\ s.barrier \in BOOLEAN
           /\ s.status \in [Validators -> Status \cup {NoStatus}]
           /\ s.served \in [Validators -> {NoMemo} \cup ServedSyncRequest]
           /\ s.pushed \in [Validators -> {NoMemo} \cup ServedSyncPush]
           /\ s.failed \in [Validators -> BOOLEAN]
BY DEF States, NodeState

\* Sending, and one effect after the other.
LEMMA EffectMade ==
    ASSUME NEW G \in SUBSET Blocks, NEW s \in States(G), NEW out \in Seq(Parcels(G))
    PROVE  Does(s, out) \in Effects(G)
BY DEF Does, Effects

LEMMA EffectRead ==
    ASSUME NEW G \in SUBSET Blocks, NEW e \in Effects(G)
    PROVE  e.s \in States(G) /\ e.out \in Seq(Parcels(G))
BY DEF Effects

LEMMA EffectsJoin ==
    ASSUME NEW G \in SUBSET Blocks, NEW e \in Effects(G)
    PROVE  /\ \A f \in Effects(G) : AndThen(e, f) \in Effects(G)
           /\ \A out \in Seq(Parcels(G)) : AndSend(e, out) \in Effects(G)
<1>1. e.s \in States(G) /\ e.out \in Seq(Parcels(G))
  BY EffectRead
<1>2. ASSUME NEW f \in Effects(G) PROVE AndThen(e, f) \in Effects(G)
  <2>1. f.s \in States(G) /\ f.out \in Seq(Parcels(G))
    BY EffectRead
  <2>2. e.out \o f.out \in Seq(Parcels(G))
    BY <1>1, <2>1
  <2> QED BY <2>1, <2>2, EffectMade DEF AndThen
<1>3. ASSUME NEW out \in Seq(Parcels(G)) PROVE AndSend(e, out) \in Effects(G)
  <2>1. e.out \o out \in Seq(Parcels(G))
    BY <1>1
  <2> QED BY <1>1, <2>1, EffectMade DEF AndSend
<1> QED BY <1>2, <1>3

LEMMA NothingSent == ASSUME NEW G PROVE <<>> \in Seq(Parcels(G))
OBVIOUS

LEMMA SendType ==
    ASSUME NEW G \in SUBSET Blocks, NEW p \in Validators, NEW m \in Mail(G)
    PROVE  Send(p, m) \in Seq(Parcels(G))
<1>1. [to |-> p, m |-> m] \in Parcels(G)
  BY DEF Parcels
<1> QED BY <1>1 DEF Send

\* A finite set of numbers is listed.
LEMMA InOrderType ==
    ASSUME NEW S \in SUBSET Nat, IsFiniteSet(S)
    PROVE  InOrder(S) \in Seq(S)
<1>1. Cardinality(S) \in Nat
  BY FS_CardinalityType
<1>2. InOrder(S) \in [1 .. Cardinality(S) -> S]
  BY Sortable DEF InOrder
<1> QED BY <1>1, <1>2

LEMMA PeersType ==
    ASSUME NEW n
    PROVE  /\ Peers(n) \in SUBSET Validators
           /\ InOrder(Peers(n)) \in Seq(Validators)
<1>1. Peers(n) \in SUBSET Validators /\ Peers(n) \in SUBSET Nat /\ IsFiniteSet(Peers(n))
  BY ValidatorsAssumption, FS_Subset DEF Peers
<1>2. InOrder(Peers(n)) \in Seq(Peers(n))
  BY <1>1, InOrderType
<1>3. Seq(Peers(n)) \subseteq Seq(Validators)
  BY <1>1
<1> QED BY <1>1, <1>2, <1>3

LEMMA ToAllType ==
    ASSUME NEW G \in SUBSET Blocks, NEW n, NEW m \in Mail(G)
    PROVE  ToAll(n, m) \in Seq(Parcels(G))
<1> DEFINE order == InOrder(Peers(n))
<1>1. order \in Seq(Validators)
  BY PeersType
<1> HIDE DEF order
<1>2. \A i \in DOMAIN order : [to |-> order[i], m |-> m] \in Parcels(G)
  BY <1>1 DEF Parcels
<1>3. [i \in DOMAIN order |-> [to |-> order[i], m |-> m]] \in Seq(Parcels(G))
  BY <1>1, <1>2
<1> QED BY <1>3 DEF ToAll, order

-----------------------------------------------------------------------------
(* Requests.                                                                *)

LEMMA StatusMsgType ==
    ASSUME NEW G \in SUBSET Blocks, NEW s \in States(G)
    PROVE  StatusMsg(s) \in Mail(G)
<1>1. s \in NodeState
  BY StateRead
<1>2. LocalView(s).tip \in Hash /\ LocalView(s).qc \in Hash /\ LocalAnchors(s) \in SUBSET Blocks
  BY <1>1, ViewType
<1> QED BY <1>2, MailMade DEF StatusMsg

LEMMA RequestTypes ==
    ASSUME NEW G \in SUBSET Blocks, NEW s \in States(G), NEW p \in Validators
    PROVE  /\ RequestFollowup(s, p) \in Seq(Parcels(G))
           /\ RequestLegacy(s, p) \in Seq(Parcels(G))
           /\ RequestSync(s, p) \in Seq(Parcels(G))
<1>1. s \in NodeState
  BY StateRead
<1>2. LocalView(s).tip \in Hash /\ HighestQc(s) \in Hash /\ LocalAnchors(s) \in SUBSET Blocks
  BY <1>1, ViewType
<1>3. ASSUME NEW t \in Hash \cup {-1} PROVE Send(p, RequestMsg(t)) \in Seq(Parcels(G))
  BY MailMade, SendType DEF RequestMsg
<1>4. RequestHint(s, p) \in Hash \cup {-1}
  BY <1>2 DEF RequestHint, KnownState, ForceFull
<1>5. RequestFollowup(s, p) \in Seq(Parcels(G)) /\ RequestLegacy(s, p) \in Seq(Parcels(G))
  BY <1>2, <1>3, <1>4 DEF RequestFollowup, RequestLegacy
<1>6. RequestCertified(s, p) \in Seq(Parcels(G))
  BY <1>2, MailMade, SendType DEF RequestCertified
<1> QED BY <1>5, <1>6 DEF RequestSync

LEMMA RequestBestType ==
    ASSUME NEW G \in SUBSET Blocks, NEW s \in States(G), NEW P \in SUBSET Validators
    PROVE  RequestBest(s, P) \in Seq(Parcels(G))
<1>1. BestAhead(s, P) \in SUBSET Validators
  BY DEF BestAhead
<1>2. BestAhead(s, P) # {} => (CHOOSE p \in BestAhead(s, P) : TRUE) \in Validators
  BY <1>1
<1>3. BestAhead(s, P) # {} => RequestSync(s, CHOOSE p \in BestAhead(s, P) : TRUE) \in Seq(Parcels(G))
  BY <1>2, RequestTypes
<1> QED BY <1>3, NothingSent DEF RequestBest

-----------------------------------------------------------------------------
(* What is recorded of peers.                                               *)

LEMMA StatusRead ==
    ASSUME NEW G \in SUBSET Blocks, NEW s \in States(G), NEW p \in Validators
    PROVE  /\ s.status[p].qc \in Hash /\ s.status[p].anchors \in SUBSET Blocks
           /\ HasStatus(s, p) => s.status[p].tip \in Hash /\ s.status[p].slot \in Nat
<1>1. s.status[p] \in Status \cup {NoStatus}
  BY StateRead
<1>2. NoStatus.qc = Genesis /\ NoStatus.anchors = {}
  BY DEF NoStatus
<1> QED BY <1>1, <1>2, HashTypes DEF HasStatus, Status

LEMMA RecordType ==
    ASSUME NEW G \in SUBSET Blocks, NEW s \in States(G), NEW p \in Validators,
           NEW t \in Hash, NEW slot \in Nat, NEW qc \in Hash, NEW anchors \in SUBSET Blocks
    PROVE  RecordStatus(s, p, t, slot, qc, anchors) \in States(G)
<1> DEFINE old == s.status[p]
           keep == HasStatus(s, p) /\ LexGreater(StatusPreference(old), SyncViewPreference(t, slot))
           restarted == HasStatus(s, p) /\ Height(old.tip) > Height(t) /\ qc # Genesis /\ qc = t
           new == IF restarted
                  THEN [tip |-> t, slot |-> slot, qc |-> qc,
                        anchors |-> IF anchors = {} THEN {t} ELSE anchors]
                  ELSE [tip |-> IF keep THEN old.tip ELSE t, slot |-> IF keep THEN old.slot ELSE slot,
                        qc |-> IF Height(old.qc) > Height(qc) THEN old.qc ELSE qc,
                        anchors |-> MergeAnchors(old.anchors, anchors)]
<1>1. /\ old.qc \in Hash /\ old.anchors \in SUBSET Blocks
      /\ HasStatus(s, p) => old.tip \in Hash /\ old.slot \in Nat
  BY StatusRead
<1>2. /\ restarted => t \in Blocks
      /\ keep => HasStatus(s, p)
  BY HashTypes
<1>3. new \in Status
  <2> HIDE DEF restarted, keep, old
  <2>1. MergeAnchors(old.anchors, anchors) \in SUBSET Blocks
    BY <1>1 DEF MergeAnchors
  <2> QED BY <1>1, <1>2, <2>1 DEF Status
<1>4. RecordStatus(s, p, t, slot, qc, anchors) = [s EXCEPT !.status[p] = new]
  BY DEF RecordStatus
<1> HIDE DEF new
<1>5. [s EXCEPT !.status[p] = new] \in States(G)
  BY <1>3 DEF States, NodeState
<1> QED BY <1>4, <1>5

LEMMA RepairMemoryType ==
    ASSUME NEW G \in SUBSET Blocks, NEW s \in States(G), NEW p \in Validators
    PROVE  RecordRepairFailure(s, p) \in States(G) /\ ClearRepairMemory(s, p) \in States(G)
BY DEF RecordRepairFailure, ClearRepairMemory, States, NodeState

LEMMA InferSlotType ==
    ASSUME NEW G \in SUBSET Blocks, NEW s \in States(G), NEW t \in Hash
    PROVE  InferSlot(s, t) \in Nat
<1>1. Chain[s.tip] \cup s.certs \in SUBSET Blocks
  BY StateRead, HashTypes
<1> QED BY <1>1, HashTypes DEF InferSlot

-----------------------------------------------------------------------------
(* Payloads.                                                                *)

LEMMA SnapshotMsgType ==
    ASSUME NEW G \in SUBSET Blocks, NEW s \in States(G)
    PROVE  SnapshotMsg(s) \in Mail(G)
<1>1. s \in NodeState /\ s.certs \in SUBSET G
  BY StateRead
<1>2. ExportTip(s) \in Hash
  BY <1>1, ViewType DEF ExportTip
<1>3. s.certs \cap Chain[ExportTip(s)] \in SUBSET G
  BY <1>1
<1> QED BY <1>2, <1>3, MailMade DEF SnapshotMsg

LEMMA SegmentMsgType ==
    ASSUME NEW G \in SUBSET Blocks, NEW s \in States(G), NEW known, SegmentExists(s, known)
    PROVE  SegmentMsg(s, known) \in Mail(G)
<1> DEFINE t == ExportTip(s)
<1>1. s \in NodeState /\ s.certs \in SUBSET G
  BY StateRead
<1>2. t \in Hash
  BY <1>1, ViewType DEF ExportTip
<1>3. known \in Chain[t] \cup {Genesis} /\ known # t
  BY DEF SegmentExists
<1> HIDE DEF t
<1>4. known \in Hash /\ t \in Blocks
  BY <1>2, <1>3, HashTypes
<1>5. s.certs \cap (Chain[t] \ Chain[known]) \in SUBSET G
  BY <1>1
<1> QED BY <1>4, <1>5, MailMade DEF SegmentMsg, t

LEMMA AnchoredSuffixType ==
    ASSUME NEW G \in SUBSET Blocks, NEW s \in States(G), NEW p \in Validators, NEW anchor \in Hash
    PROVE  AnchoredSuffix(s, p, anchor) \in Seq(Parcels(G))
<1> DEFINE t == ExportTip(s)
<1>1. s \in NodeState
  BY StateRead
<1>2. t \in Hash
  BY <1>1, ViewType DEF ExportTip
<1> HIDE DEF t
<1>3. CASE Height(t) <= Height(anchor)
  BY <1>3, NothingSent DEF AnchoredSuffix, t
<1>4. CASE ~(Height(t) <= Height(anchor))
  <2>1. t \in Blocks
    BY <1>2, <1>4, HashTypes
  <2>2. [type |-> "segment", base |-> anchor, tip |-> t, certs |-> {}] \in Mail(G)
    BY <2>1, MailMade
  <2> QED BY <1>4, <2>2, SendType DEF AnchoredSuffix, t
<1> QED BY <1>3, <1>4

\* An anchor shared with a peer is certified and on the node's chain.
LEMMA SharedAnchorType ==
    ASSUME NEW G \in SUBSET Blocks, NEW s \in States(G), NEW anchors
    PROVE  /\ SharedAnchor(s, anchors) \in Hash
           /\ SharedAnchor(s, anchors) # Genesis => SharedAnchor(s, anchors) \in s.certs \cap Chain[s.tip]
<1> DEFINE A == anchors \cap s.certs \cap Chain[s.tip]
<1>1. s.tip \in Hash /\ A \in SUBSET Chain[s.tip]
  BY StateRead
<1>2. (A = {} => Highest(A) = Genesis) /\ (A # {} => Highest(A) \in A)
  BY <1>1, HighestIn
<1>3. Chain[s.tip] \in SUBSET Blocks
  BY <1>1, HashTypes
<1>4. SharedAnchor(s, anchors) = Highest(A)
  BY DEF SharedAnchor
<1> QED BY <1>2, <1>3, <1>4, HashTypes

\* The blocks of a certified suffix have certificates, and the tip is a block.
LEMMA CertifiedMsgType ==
    ASSUME NEW G \in SUBSET Blocks, NEW s \in States(G), NEW anchor \in Hash,
           anchor # Genesis => anchor \in s.certs \cap Chain[s.tip]
    PROVE  CertifiedMsg(s, anchor) \in Mail(G)
<1>1. CASE anchor = Genesis \/ CertifiedEnd(s, anchor) = anchor
  BY <1>1, MailMade DEF CertifiedMsg
<1>2. CASE ~(anchor = Genesis \/ CertifiedEnd(s, anchor) = anchor)
  <2>1. s \in NodeState /\ s.certs \in SUBSET G /\ s.tip \in Hash
    BY StateRead
  <2>2. anchor \in Blocks /\ anchor \in s.certs \cap Chain[s.tip]
    BY <1>2, HashTypes
  <2>3. LocalView(s).tip \in Blocks
    BY <2>1, <2>2, ViewType
  <2> DEFINE B == {b \in Chain[s.tip] : anchor \in Chain[b] /\ Chain[b] \ Chain[anchor] \subseteq s.certs}
  <2>4. B \in SUBSET Chain[s.tip] /\ anchor \in B
    BY <2>2, HashTypes
  <2>5. CertifiedEnd(s, anchor) \in B
    <3>1. Highest(B) \in B
      BY <2>1, <2>4, HighestIn
    <3> QED BY <3>1 DEF CertifiedEnd
  <2>6. CertifiedEnd(s, anchor) \in Blocks /\ Chain[CertifiedEnd(s, anchor)] \ Chain[anchor] \subseteq G
    BY <2>1, <2>5, HashTypes
  <2> QED BY <1>2, <2>2, <2>3, <2>6, MailMade DEF CertifiedMsg
<1> QED BY <1>1, <1>2

LEMMA SendBestType ==
    ASSUME NEW G \in SUBSET Blocks, NEW s \in States(G), NEW p \in Validators, NEW known
    PROVE  SendBest(s, p, known) \in Seq(Parcels(G))
BY SnapshotMsgType, SegmentMsgType, SendType DEF SendBest

-----------------------------------------------------------------------------
(* Pushes and announcements.                                                *)

LEMMA PushBestType ==
    ASSUME NEW G \in SUBSET Blocks, NEW s \in States(G), NEW p \in Validators, NEW known \in Hash
    PROVE  PushBest(s, p, known) \in Effects(G)
<1> DEFINE memo == PushState(s, p, known)
           anchor == AnchorForPeer(s, p)
           t == [s EXCEPT !.pushed[p] = memo]
           suffix == IF anchor # Genesis /\ Height(LocalView(s).tip) > Height(anchor)
                     THEN AnchoredSuffix(s, p, anchor) ELSE SendBest(s, p, known)
<1>1. memo \in ServedSyncPush
  <2>1. HasStatus(s, p) => [tip |-> s.status[p].tip, qc |-> s.status[p].qc] \in View
    BY StatusRead DEF View
  <2>2. [tip |-> known, qc |-> Genesis] \in View
    BY HashTypes DEF View
  <2>3. LocalView(s) \in View
    BY StateRead, ViewType
  <2> QED BY <2>1, <2>2, <2>3 DEF PushState, ServedSyncPush
<1>2. anchor \in Hash /\ (anchor # Genesis => anchor \in s.certs \cap Chain[s.tip])
  BY SharedAnchorType, HashTypes DEF AnchorForPeer
<1> HIDE DEF memo, anchor
<1>3. t \in States(G)
  BY <1>1 DEF States, NodeState
<1>4. SendCertified(s, p) \in Seq(Parcels(G))
  <2>1. CertifiedMsg(s, anchor) \in Mail(G)
    BY <1>2, CertifiedMsgType
  <2> QED BY <2>1, SendType, NothingSent DEF SendCertified, anchor
<1>5. suffix \in Seq(Parcels(G))
  BY <1>2, AnchoredSuffixType, SendBestType
<1> HIDE DEF suffix, t
<1>6. Does(t, SendCertified(s, p) \o suffix) \in Effects(G)
  <2>1. SendCertified(s, p) \o suffix \in Seq(Parcels(G))
    BY <1>4, <1>5
  <2> QED BY <1>3, <2>1, EffectMade
<1>7. Does(s, <<>>) \in Effects(G)
  BY NothingSent, EffectMade
<1>8. PushBest(s, p, known) = IF s.pushed[p] = memo THEN Does(s, <<>>)
                              ELSE Does(t, SendCertified(s, p) \o suffix)
  BY DEF PushBest, memo, anchor, suffix, t
<1> QED BY <1>6, <1>7, <1>8

LEMMA AndPushToType ==
    ASSUME NEW G \in SUBSET Blocks, NEW e \in Effects(G), NEW p \in Validators
    PROVE  AndPushTo(e, p) \in Effects(G)
<1> DEFINE s == e.s
<1>1. s \in States(G)
  BY EffectRead
<1> HIDE DEF s
<1>2. HasStatus(s, p) => PushBest(s, p, s.status[p].tip) \in Effects(G)
  BY <1>1, StatusRead, PushBestType
<1>3. Does(s, Send(p, SnapshotMsg(s))) \in Effects(G)
  BY <1>1, SnapshotMsgType, SendType, EffectMade
<1>4. Does(s, <<>>) \in Effects(G)
  BY <1>1, NothingSent, EffectMade
<1>5. PushTo(s, p) \in Effects(G)
  BY <1>2, <1>3, <1>4 DEF PushTo
<1> QED BY <1>5, EffectsJoin DEF AndPushTo, s

\* The effects of push_sync_to_stale_peers after each peer.
ArePushes(f, s, order) ==
    f = [i \in 0 .. Len(order) |-> IF i = 0 THEN Does(s, <<>>) ELSE AndPushTo(f[i - 1], order[i])]

LEMMA PushToStaleType ==
    ASSUME NEW G \in SUBSET Blocks, NEW s \in States(G), NEW n
    PROVE  PushToStale(n, s) \in Effects(G)
<1> DEFINE order == InOrder(Peers(n))
           E == Effects(G)
           k == Len(order)
           base == Does(s, <<>>)
           step == [i \in 1 .. k |-> [e \in E |-> AndPushTo(e, order[i])]]
           f == CHOOSE g : ArePushes(g, s, order)
<1>1. order \in Seq(Validators) /\ k \in Nat
  BY PeersType
<1>2. base \in E
  BY NothingSent, EffectMade
<1>3. PushToStale(n, s) = f[k]
  BY DEF PushToStale, ArePushes
<1> HIDE DEF order
<1>4. \A i \in 1 .. k : \A e \in E : AndPushTo(e, order[i]) \in E
  BY <1>1, AndPushToType
<1> HIDE DEF E, k, base
<1>5. step \in [1 .. k -> [E -> E]]
  BY <1>4
<1>6. \A i \in 1 .. k : \A e \in E : step[i][e] = AndPushTo(e, order[i])
  OBVIOUS
<1> HIDE DEF step, f
<1>7. PICK g \in [0 .. k -> E] : AreSteps(g, base, step, k)
  BY <1>1, <1>2, <1>5, StepsExist
<1>8. ArePushes(g, s, order)
  <2>1. g = [i \in 0 .. k |-> IF i = 0 THEN base ELSE step[i][g[i - 1]]]
    BY <1>7 DEF AreSteps
  <2>2. \A i \in 0 .. k : i # 0 => i \in 1 .. k /\ g[i - 1] \in E
    BY <1>1, <1>7
  <2>3. \A i \in 0 .. k : (IF i = 0 THEN base ELSE step[i][g[i - 1]])
                             = (IF i = 0 THEN base ELSE AndPushTo(g[i - 1], order[i]))
    BY <1>6, <2>2
  <2>4. g = [i \in 0 .. k |-> IF i = 0 THEN base ELSE AndPushTo(g[i - 1], order[i])]
    BY <2>1, <2>3
  <2> QED BY <2>4 DEF ArePushes, k, base
<1>9. ArePushes(f, s, order)
  BY <1>8 DEF f
<1>10. f[0] = base /\ \A i \in 1 .. k : f[i - 1] \in E => f[i] = step[i][f[i - 1]]
  <2>1. f = [i \in 0 .. k |-> IF i = 0 THEN base ELSE AndPushTo(f[i - 1], order[i])]
    BY <1>9 DEF ArePushes, k, base
  <2>2. f[0] = base /\ \A i \in 1 .. k : f[i] = AndPushTo(f[i - 1], order[i])
    BY <1>1, <2>1
  <2> QED BY <1>6, <2>2
<1>11. f[k] \in E
  BY <1>1, <1>2, <1>5, <1>10, StepsStay
<1> QED BY <1>3, <1>11 DEF E

LEMMA AnnounceType ==
    ASSUME NEW G \in SUBSET Blocks, NEW s \in States(G), NEW n
    PROVE  Announce(n, s) \in Effects(G) /\ TipProgress(n, s) \in Effects(G)
<1>1. ToAll(n, StatusMsg(s)) \in Seq(Parcels(G))
  BY StatusMsgType, ToAllType
<1>2. AndThen(Does(s, ToAll(n, StatusMsg(s))), PushToStale(n, s)) \in Effects(G)
  BY <1>1, EffectMade, PushToStaleType, EffectsJoin
<1> DEFINE e == AndThen(Does(s, ToAll(n, StatusMsg(s))), PushToStale(n, s))
<1>3. RequestBest(e.s, Peers(n)) \in Seq(Parcels(G))
  BY <1>2, EffectRead, PeersType, RequestBestType
<1>4. Announce(n, s) \in Effects(G)
  <2>1. Announce(n, s) = AndSend(e, RequestBest(e.s, Peers(n)))
    BY DEF Announce, AndRequestBest
  <2> HIDE DEF e
  <2>2. e \in Effects(G)
    BY <1>2 DEF e
  <2> QED BY <1>3, <2>1, <2>2, EffectsJoin
<1>5. TipProgress(n, s) \in Effects(G)
  BY <1>2, NothingSent, EffectMade DEF TipProgress
<1> QED BY <1>4, <1>5

LEMMA AnnounceQcType ==
    ASSUME NEW G \in SUBSET Blocks, NEW s \in States(G), NEW n, NEW b \in G
    PROVE  AnnounceQc(n, s, b) \in Effects(G)
<1>1. ToAll(n, [type |-> "qc", b |-> b]) \in Seq(Parcels(G))
  BY MailMade, ToAllType
<1> QED BY <1>1, EffectMade, AnnounceType, EffectsJoin DEF AnnounceQc

LEMMA AndFinalizeType ==
    ASSUME NEW G \in SUBSET Blocks, NEW e \in Effects(G), NEW n, NEW b \in G
    PROVE  AndFinalize(n, e, b) \in Effects(G)
<1> DEFINE t == [e.s EXCEPT !.certs = @ \cup {b}]
<1>1. e.s \in States(G)
  BY EffectRead
<1>2. t \in States(G)
  BY <1>1 DEF States, NodeState
<1> HIDE DEF t
<1> QED BY <1>2, AnnounceQcType, EffectsJoin DEF AndFinalize, t

\* The effects of an import after each certificate.
AreImports(f, n, s, order) ==
    f = [i \in 0 .. Len(order) |-> IF i = 0 THEN Does(s, <<>>) ELSE AndFinalize(n, f[i - 1], order[i])]

LEMMA ImportedType ==
    ASSUME NEW G \in SUBSET Blocks, NEW s \in States(G), NEW n, NEW new \in SUBSET G
    PROVE  Imported(n, s, new) \in Effects(G)
<1> DEFINE order == InOrder(new)
           E == Effects(G)
           k == Len(order)
           base == Does(s, <<>>)
           step == [i \in 1 .. k |-> [e \in E |-> AndFinalize(n, e, order[i])]]
           f == CHOOSE g : AreImports(g, n, s, order)
<1>1. order \in Seq(G) /\ k \in Nat
  <2>1. new \in SUBSET Nat /\ IsFiniteSet(new)
    BY BlocksAssumption, FS_Subset
  <2>2. order \in Seq(new)
    BY <2>1, InOrderType
  <2> HIDE DEF order
  <2> QED BY <2>2
<1>2. base \in E
  BY NothingSent, EffectMade
<1>3. Imported(n, s, new) = f[k]
  BY DEF Imported, AreImports
<1> HIDE DEF order
<1>4. \A i \in 1 .. k : \A e \in E : AndFinalize(n, e, order[i]) \in E
  BY <1>1, AndFinalizeType
<1> HIDE DEF E, k, base
<1>5. step \in [1 .. k -> [E -> E]]
  BY <1>4
<1>6. \A i \in 1 .. k : \A e \in E : step[i][e] = AndFinalize(n, e, order[i])
  OBVIOUS
<1> HIDE DEF step, f
<1>7. PICK g \in [0 .. k -> E] : AreSteps(g, base, step, k)
  BY <1>1, <1>2, <1>5, StepsExist
<1>8. AreImports(g, n, s, order)
  <2>1. g = [i \in 0 .. k |-> IF i = 0 THEN base ELSE step[i][g[i - 1]]]
    BY <1>7 DEF AreSteps
  <2>2. \A i \in 0 .. k : i # 0 => i \in 1 .. k /\ g[i - 1] \in E
    BY <1>1, <1>7
  <2>3. \A i \in 0 .. k : (IF i = 0 THEN base ELSE step[i][g[i - 1]])
                             = (IF i = 0 THEN base ELSE AndFinalize(n, g[i - 1], order[i]))
    BY <1>6, <2>2
  <2>4. g = [i \in 0 .. k |-> IF i = 0 THEN base ELSE AndFinalize(n, g[i - 1], order[i])]
    BY <2>1, <2>3
  <2> QED BY <2>4 DEF AreImports, k, base
<1>9. AreImports(f, n, s, order)
  BY <1>8 DEF f
<1>10. f[0] = base /\ \A i \in 1 .. k : f[i - 1] \in E => f[i] = step[i][f[i - 1]]
  <2>1. f = [i \in 0 .. k |-> IF i = 0 THEN base ELSE AndFinalize(n, f[i - 1], order[i])]
    BY <1>9 DEF AreImports, k, base
  <2>2. f[0] = base /\ \A i \in 1 .. k : f[i] = AndFinalize(n, f[i - 1], order[i])
    BY <1>1, <2>1
  <2> QED BY <1>6, <2>2
<1>11. f[k] \in E
  BY <1>1, <1>2, <1>5, <1>10, StepsStay
<1> QED BY <1>3, <1>11 DEF E

-----------------------------------------------------------------------------
(* Handlers.                                                                *)

LEMMA AppliedType ==
    ASSUME NEW G \in SUBSET Blocks, NEW s \in States(G), NEW n, NEW p \in Validators,
           NEW tip \in Hash, NEW certs \in SUBSET G
    PROVE  Applied(n, s, p, tip, certs) \in Effects(G)
<1> DEFINE t == [s EXCEPT !.tip = tip, !.pending = Genesis]
           e == Imported(n, t, (certs \cap Chain[tip]) \ s.certs)
           r == Retained(e.s, p)
           f == AndThen(e, FollowUp(r, p))
<1>1. t \in States(G)
  BY HashTypes DEF States, NodeState
<1> HIDE DEF t
<1>2. e \in Effects(G)
  BY <1>1, ImportedType
<1>3. e.s \in States(G)
  BY <1>2, EffectRead
<1> HIDE DEF e
<1>4. r \in States(G)
  <2>1. [e.s EXCEPT !.certs = @ \cap Chain[e.s.tip]] \in States(G)
    BY <1>3 DEF States, NodeState
  <2> QED BY <2>1, RepairMemoryType DEF Retained
<1> HIDE DEF r
<1>5. FollowUp(r, p) \in Effects(G)
  BY <1>4, RequestTypes, NothingSent, EffectMade DEF FollowUp
<1>6. f \in Effects(G)
  BY <1>2, <1>5, EffectsJoin
<1> HIDE DEF f
<1>7. AndThen(f, TipProgress(n, f.s)) \in Effects(G)
  BY <1>6, EffectRead, AnnounceType, EffectsJoin
<1>8. Applied(n, s, p, tip, certs) = AndThen(f, TipProgress(n, f.s))
  BY DEF Applied, AndTipProgress, AndFollowUp, t, e, r, f
<1> QED BY <1>7, <1>8

LEMMA OnStatusType ==
    ASSUME NEW G \in SUBSET Blocks, NEW s \in States(G), NEW n, NEW p \in Validators,
           NEW m \in Mail(G), m.type = "status"
    PROVE  OnStatus(n, s, p, m) \in Effects(G)
<1> DEFINE t == RecordStatus(s, p, m.tip, SlotOf(m.tip), m.qc, m.anchors)
<1>1. m.tip \in Hash /\ m.qc \in Hash /\ m.anchors \in SUBSET Blocks
  BY MailRead
<1>2. t \in States(G)
  BY <1>1, HashTypes, RecordType
<1> HIDE DEF t
<1>3. Does(t, RequestSync(t, p)) \in Effects(G) /\ Does(t, <<>>) \in Effects(G)
  BY <1>2, RequestTypes, NothingSent, EffectMade
<1>4. PushBest(t, p, m.tip) \in Effects(G)
  BY <1>1, <1>2, PushBestType
<1> QED BY <1>3, <1>4 DEF OnStatus, t

LEMMA OnRequestType ==
    ASSUME NEW G \in SUBSET Blocks, NEW s \in States(G), NEW n, NEW p \in Validators,
           NEW m \in Mail(G), m.type = "request"
    PROVE  OnRequest(n, s, p, m) \in Effects(G)
<1>1. m.known \in Hash \cup {-1}
  BY MailRead
<1>2. CASE m.known = ForceFull
  <2>1. Does(s, Send(p, SnapshotMsg(s))) \in Effects(G)
    BY SnapshotMsgType, SendType, EffectMade
  <2> QED BY <1>2, <2>1 DEF OnRequest
<1>3. CASE m.known # ForceFull
  <2> DEFINE t == RecordInferred(s, p, m.known, Genesis, {})
             r == RecordServed(t, p, m.known)
  <2>1. m.known \in Hash
    BY <1>1, <1>3 DEF ForceFull
  <2>2. t \in States(G)
    BY <2>1, HashTypes, InferSlotType, RecordType DEF RecordInferred
  <2> HIDE DEF t
  <2>3. r \in States(G)
    <3>1. LocalView(t) \in View
      BY <2>2, StateRead, ViewType
    <3>2. <<m.known, LocalView(t), TRUE>> \in ServedSyncRequest
      BY <2>1, <3>1 DEF ServedSyncRequest
    <3> QED BY <2>2, <3>2 DEF RecordServed, States, NodeState
  <2> HIDE DEF r
  <2>4. Does(t, <<>>) \in Effects(G) /\ PushBest(r, p, m.known) \in Effects(G)
    BY <2>1, <2>2, <2>3, NothingSent, EffectMade, PushBestType
  <2> QED BY <1>3, <2>4 DEF OnRequest, t, r
<1> QED BY <1>2, <1>3

LEMMA OnSnapshotType ==
    ASSUME NEW G \in SUBSET Blocks, NEW s \in States(G), NEW n, NEW p \in Validators,
           NEW m \in Mail(G), m.type = "snapshot"
    PROVE  OnSnapshot(n, s, p, m) \in Effects(G)
<1> DEFINE t == RecordStatus(s, p, m.tip, SlotOf(m.tip), Genesis, {})
<1>1. m.tip \in Hash /\ m.certs \in SUBSET G
  BY MailRead
<1>2. t \in States(G)
  BY <1>1, HashTypes, RecordType
<1> HIDE DEF t
<1>3. /\ Applied(n, t, p, m.tip, m.certs) \in Effects(G)
      /\ PushBest(t, p, m.tip) \in Effects(G)
      /\ Does(t, <<>>) \in Effects(G)
  BY <1>1, <1>2, AppliedType, PushBestType, NothingSent, EffectMade
<1> QED BY <1>3 DEF OnSnapshot, t

LEMMA OnSegmentType ==
    ASSUME NEW G \in SUBSET Blocks, NEW s \in States(G), NEW n, NEW p \in Validators,
           NEW m \in Mail(G), m.type = "segment"
    PROVE  OnSegment(n, s, p, m) \in Effects(G)
<1> DEFINE t == RecordStatus(s, p, m.tip, SlotOf(m.tip), Genesis, {})
           failed == RecordRepairFailure(t, p)
<1>1. m.tip \in Hash /\ m.certs \in SUBSET G
  BY MailRead, HashTypes
<1>2. t \in States(G)
  BY <1>1, HashTypes, RecordType
<1> HIDE DEF t
<1>3. failed \in States(G)
  BY <1>2, RepairMemoryType
<1> HIDE DEF failed
<1>4. /\ Applied(n, t, p, m.tip, m.certs) \in Effects(G)
      /\ Does(failed, RequestSync(failed, p)) \in Effects(G)
      /\ Does(t, <<>>) \in Effects(G)
  BY <1>1, <1>2, <1>3, AppliedType, RequestTypes, NothingSent, EffectMade
<1> QED BY <1>4 DEF OnSegment, t, failed

LEMMA OnCertRequestType ==
    ASSUME NEW G \in SUBSET Blocks, NEW s \in States(G), NEW n, NEW p \in Validators, NEW m
    PROVE  OnCertRequest(n, s, p, m) \in Effects(G)
<1> DEFINE anchor == SharedAnchor(s, m.anchors)
           rest == IF anchor = Genesis THEN <<>> ELSE AnchoredSuffix(s, p, anchor)
<1>1. anchor \in Hash /\ (anchor # Genesis => anchor \in s.certs \cap Chain[s.tip])
  BY SharedAnchorType
<1> HIDE DEF anchor
<1>2. Send(p, CertifiedMsg(s, anchor)) \in Seq(Parcels(G))
  BY <1>1, CertifiedMsgType, SendType
<1>3. rest \in Seq(Parcels(G))
  BY <1>1, AnchoredSuffixType, NothingSent
<1> HIDE DEF rest
<1>4. Send(p, CertifiedMsg(s, anchor)) \o rest \in Seq(Parcels(G))
  BY <1>2, <1>3
<1> QED BY <1>4, EffectMade DEF OnCertRequest, CertifiedResponse, anchor, rest

LEMMA OnUnavailableType ==
    ASSUME NEW G \in SUBSET Blocks, NEW s \in States(G), NEW n, NEW p \in Validators, NEW m
    PROVE  OnUnavailable(n, s, p, m) \in Effects(G)
<1> DEFINE other == RequestBest(s, Peers(n) \ {p})
<1>1. other \in Seq(Parcels(G))
  BY PeersType, RequestBestType
<1> HIDE DEF other
<1>2. Does(s, IF s.barrier \/ other = <<>> THEN RequestFollowup(s, p) ELSE other) \in Effects(G)
  BY <1>1, RequestTypes, EffectMade
<1> QED BY <1>2 DEF OnUnavailable, other

LEMMA OnCertifiedType ==
    ASSUME NEW G \in SUBSET Blocks, NEW s \in States(G), NEW n, NEW p \in Validators,
           NEW m \in Mail(G), m.type = "certified"
    PROVE  OnCertified(n, s, p, m) \in Effects(G)
<1> DEFINE suffix == Chain[m.end] \ Chain[m.base]
           t == RecordInferred(s, p, m.tip, m.end, suffix)
           failed == RecordRepairFailure(s, p)
           cleared == ClearRepairMemory(t, p)
           adopted == [cleared EXCEPT !.tip = m.end, !.certs = @ \cup suffix, !.pending = Genesis]
<1>1. /\ m.base \in Hash /\ m.end \in Hash /\ m.tip \in Hash /\ suffix \in SUBSET G
  BY MailRead, HashTypes
<1>2. suffix \in SUBSET Blocks
  BY <1>1
<1> HIDE DEF suffix
<1>3. t \in States(G)
  BY <1>1, <1>2, InferSlotType, RecordType DEF RecordInferred
<1> HIDE DEF t
<1>4. failed \in States(G) /\ cleared \in States(G)
  BY <1>3, RepairMemoryType
<1> HIDE DEF failed, cleared
<1>5. adopted \in States(G)
  BY <1>1, <1>4, HashTypes DEF States, NodeState
<1> HIDE DEF adopted
<1>6. /\ Does(failed, RequestBest(failed, Peers(n) \ {p})) \in Effects(G)
      /\ Does(s, RequestFollowup(s, p)) \in Effects(G)
      /\ Announce(n, adopted) \in Effects(G)
  BY <1>4, <1>5, PeersType, RequestBestType, RequestTypes, AnnounceType, EffectMade
<1>7. Does(t, IF t.pending # Genesis THEN RequestFollowup(t, p) ELSE <<>>) \in Effects(G)
  BY <1>3, RequestTypes, NothingSent, EffectMade
<1> QED BY <1>6, <1>7 DEF OnCertified, suffix, t, failed, cleared, adopted

LEMMA OnQcType ==
    ASSUME NEW G \in SUBSET Blocks, NEW s \in States(G), NEW n, NEW p \in Validators,
           NEW m \in Mail(G), m.type = "qc"
    PROVE  OnQc(n, s, p, m) \in Effects(G)
<1> DEFINE t == RecordStatus(s, p, m.b, Slot[m.b], m.b, {m.b})
           new == [s EXCEPT !.certs = @ \cup {m.b},
                            !.tip = IF m.b = s.pending THEN m.b ELSE @,
                            !.pending = IF m.b = @ THEN Genesis ELSE @]
<1>1. m.b \in G /\ m.b \in Blocks /\ m.b \in Hash /\ Slot[m.b] \in Nat
  BY MailRead, HashTypes
<1>2. t \in States(G)
  BY <1>1, RecordType
<1> HIDE DEF t
<1>3. new \in States(G)
  BY <1>1, HashTypes DEF States, NodeState
<1> HIDE DEF new
<1>4. /\ Does(t, RequestSync(t, p)) \in Effects(G) /\ Announce(n, new) \in Effects(G)
      /\ Does(s, <<>>) \in Effects(G)
  BY <1>2, <1>3, RequestTypes, AnnounceType, NothingSent, EffectMade
<1> QED BY <1>4 DEF OnQc, t, new

LEMMA OnBlockType ==
    ASSUME NEW G \in SUBSET Blocks, NEW s \in States(G), NEW n, NEW p \in Validators,
           NEW m \in Mail(G), m.type = "block"
    PROVE  OnBlock(n, s, p, m) \in Effects(G)
<1> DEFINE t == RecordStatus(s, p, m.b, Slot[m.b], Genesis, {})
           failed == RecordRepairFailure(t, p)
           parked == [t EXCEPT !.pending = IF @ = Genesis THEN m.b ELSE LatestBlock({@, m.b})]
           built == [t EXCEPT !.tip = m.b]
           pushed == PushBest(failed, p, Parent[m.b])
           block == [type |-> "block", b |-> m.b]
<1>1. m.b \in Blocks /\ m.b \in Hash /\ Slot[m.b] \in Nat /\ Parent[m.b] \in Hash /\ Genesis \in Hash
  BY MailRead, HashTypes
<1>2. t \in States(G)
  BY <1>1, RecordType
<1> HIDE DEF t
<1>3. failed \in States(G)
  BY <1>2, RepairMemoryType
<1>4. parked \in States(G)
  <2>1. t.pending \in Hash
    BY <1>2, StateRead
  <2>2. t.pending # Genesis => LatestBlock({t.pending, m.b}) \in Hash
    <3>1. t.pending # Genesis => {t.pending, m.b} \in SUBSET Blocks /\ {t.pending, m.b} # {}
      BY <1>1, <2>1, HashTypes
    <3> QED BY <1>1, <2>1, <3>1, LatestBlockIn
  <2> QED BY <1>1, <1>2, <2>2 DEF States, NodeState
<1>5. built \in States(G)
  BY <1>1, <1>2 DEF States, NodeState
<1>6. block \in Mail(G)
  BY <1>1, MailMade
<1> HIDE DEF failed, parked, built, block
<1>7. pushed \in Effects(G)
  BY <1>1, <1>3, PushBestType
<1> HIDE DEF pushed
<1>8. AndSend(pushed, RequestSync(pushed.s, p)) \in Effects(G)
  BY <1>7, EffectRead, RequestTypes, EffectsJoin
<1>9. AndSend(TipProgress(n, built), ToAll(n, block)) \in Effects(G)
  BY <1>5, <1>6, AnnounceType, ToAllType, EffectsJoin
<1>10. Does(parked, RequestLegacy(parked, p)) \in Effects(G) /\ Does(t, <<>>) \in Effects(G)
  BY <1>2, <1>4, RequestTypes, NothingSent, EffectMade
<1> QED BY <1>8, <1>9, <1>10 DEF OnBlock, AndRequest, t, failed, parked, built, pushed, block

\* Whatever message of certificates in G is handled, the node has and sends such only.
LEMMA HandleType ==
    ASSUME NEW G \in SUBSET Blocks, NEW s \in States(G), NEW n, NEW p \in Validators, NEW m \in Mail(G)
    PROVE  Handle(n, s, p, m) \in Effects(G)
<1>1. m.type \in {"status", "request", "snapshot", "segment", "certRequest", "unavailable",
                  "certified", "qc", "block"}
  BY MailRead
<1>2. CASE m.type = "status"
  BY <1>2, OnStatusType DEF Handle
<1>3. CASE m.type = "request"
  BY <1>3, OnRequestType DEF Handle
<1>4. CASE m.type = "snapshot"
  BY <1>4, OnSnapshotType DEF Handle
<1>5. CASE m.type = "segment"
  BY <1>5, OnSegmentType DEF Handle
<1>6. CASE m.type = "certRequest"
  BY <1>6, OnCertRequestType DEF Handle
<1>7. CASE m.type = "unavailable"
  BY <1>7, OnUnavailableType DEF Handle
<1>8. CASE m.type = "certified"
  BY <1>8, OnCertifiedType DEF Handle
<1>9. CASE m.type = "qc"
  BY <1>9, OnQcType DEF Handle
<1>10. CASE m.type = "block"
  BY <1>10, OnBlockType DEF Handle
<1> QED BY <1>1, <1>2, <1>3, <1>4, <1>5, <1>6, <1>7, <1>8, <1>9, <1>10

-----------------------------------------------------------------------------
(* Steps.                                                                   *)

\* The queue to q after each of the parcels sent.
AreQueues(f, queue, q, out) ==
    f = [i \in 0 .. Len(out) |-> IF i = 0 THEN queue ELSE QueuedIf(f[i - 1], q, out[i])]

LEMMA QueuedType ==
    ASSUME NEW G \in SUBSET Blocks, NEW queue \in Seq(Mail(G)), NEW q, NEW out \in Seq(Parcels(G))
    PROVE  Queued(queue, q, out) \in Seq(Mail(G))
<1> DEFINE E == Seq(Mail(G))
           k == Len(out)
           step == [i \in 1 .. k |-> [c \in E |-> QueuedIf(c, q, out[i])]]
           f == CHOOSE g : AreQueues(g, queue, q, out)
<1>1. k \in Nat
  OBVIOUS
<1>2. Queued(queue, q, out) = f[k]
  BY DEF Queued, AreQueues
<1>3. \A i \in 1 .. k : \A c \in E : QueuedIf(c, q, out[i]) \in E
  <2> SUFFICES ASSUME NEW i \in 1 .. k, NEW c \in E PROVE QueuedIf(c, q, out[i]) \in E
    OBVIOUS
  <2>1. out[i] \in Parcels(G)
    BY <1>1
  <2>2. out[i].m \in Mail(G)
    BY <2>1 DEF Parcels
  <2> QED BY <2>2 DEF QueuedIf
<1> HIDE DEF E, k
<1>4. step \in [1 .. k -> [E -> E]] /\ queue \in E
  BY <1>3 DEF E
<1>5. \A i \in 1 .. k : \A c \in E : step[i][c] = QueuedIf(c, q, out[i])
  OBVIOUS
<1> HIDE DEF step, f
<1>6. PICK g \in [0 .. k -> E] : AreSteps(g, queue, step, k)
  BY <1>1, <1>4, StepsExist
<1>7. AreQueues(g, queue, q, out)
  <2>1. g = [i \in 0 .. k |-> IF i = 0 THEN queue ELSE step[i][g[i - 1]]]
    BY <1>6 DEF AreSteps
  <2>2. \A i \in 0 .. k : i # 0 => i \in 1 .. k /\ g[i - 1] \in E
    BY <1>1, <1>6
  <2>3. \A i \in 0 .. k : (IF i = 0 THEN queue ELSE step[i][g[i - 1]])
                             = (IF i = 0 THEN queue ELSE QueuedIf(g[i - 1], q, out[i]))
    BY <1>5, <2>2
  <2>4. g = [i \in 0 .. k |-> IF i = 0 THEN queue ELSE QueuedIf(g[i - 1], q, out[i])]
    BY <2>1, <2>3
  <2> QED BY <2>4 DEF AreQueues, k
<1>8. AreQueues(f, queue, q, out)
  BY <1>7 DEF f
<1>9. f[0] = queue /\ \A i \in 1 .. k : f[i - 1] \in E => f[i] = step[i][f[i - 1]]
  <2>1. f = [i \in 0 .. k |-> IF i = 0 THEN queue ELSE QueuedIf(f[i - 1], q, out[i])]
    BY <1>8 DEF AreQueues, k
  <2>2. f[0] = queue /\ \A i \in 1 .. k : f[i] = QueuedIf(f[i - 1], q, out[i])
    BY <1>1, <2>1
  <2> QED BY <1>5, <2>2
<1>10. f[k] \in E
  BY <1>1, <1>4, <1>9, StepsStay
<1> QED BY <1>2, <1>10 DEF E

Channels(G) == [Live -> [Live -> Seq(Mail(G))]]

\* Certificates at nodes and on their way are of blocks in G.
Within(G) == node \in [Live -> States(G)] /\ channel \in Channels(G)

LEMMA TakesEffectType ==
    ASSUME NEW G \in SUBSET Blocks, node \in [Live -> States(G)], NEW n \in Live, NEW c \in Channels(G),
           NEW e \in Effects(G), TakesEffect(n, c, e)
    PROVE  Within(G)'
<1>1. e.s \in States(G) /\ e.out \in Seq(Parcels(G))
  BY EffectRead
<1>2. node' = [node EXCEPT ![n] = e.s] /\ channel' = Sent(c, n, e.out)
  BY DEF TakesEffect
<1>3. \A q \in Live : Queued(c[n][q], q, e.out) \in Seq(Mail(G))
  <2>1. \A q \in Live : c[n][q] \in Seq(Mail(G))
    BY DEF Channels
  <2> QED BY <1>1, <2>1, QueuedType
<1>4. [q \in Live |-> Queued(c[n][q], q, e.out)] \in [Live -> Seq(Mail(G))]
  BY <1>3
<1>5. Sent(c, n, e.out) = [c EXCEPT ![n] = [q \in Live |-> Queued(c[n][q], q, e.out)]]
  BY DEF Sent, Channels
<1>6. Sent(c, n, e.out) \in Channels(G)
  BY <1>4, <1>5 DEF Channels
<1>7. [node EXCEPT ![n] = e.s] \in [Live -> States(G)]
  BY <1>1
<1> QED BY <1>2, <1>6, <1>7 DEF Within

LEMMA FreshType ==
    ASSUME NEW G \in SUBSET Blocks, NEW t \in Hash, NEW certs \in SUBSET G, NEW barrier \in BOOLEAN
    PROVE  Fresh(t, certs, barrier) \in States(G)
BY HashTypes DEF Fresh, States, NodeState

LEMMA DeliverWithin ==
    ASSUME NEW G \in SUBSET Blocks, Within(G), NEW p \in Live, NEW n \in Live
    PROVE  /\ Deliver(p, n) => Within(G)'
           /\ Lose(p, n) => Within(G)'
<1> DEFINE q == channel[p][n]
           c == [channel EXCEPT ![p][n] = Tail(@)]
<1>1. node[n] \in States(G) /\ q \in Seq(Mail(G)) /\ p \in Validators /\ node \in [Live -> States(G)]
  BY SyncAssumption DEF Within, Channels
<1>2. q # <<>> => Head(q) \in Mail(G) /\ Tail(q) \in Seq(Mail(G))
  BY <1>1
<1>3. q # <<>> => c \in Channels(G)
  <2> SUFFICES ASSUME q # <<>> PROVE c \in Channels(G)
    OBVIOUS
  <2>1. channel \in [Live -> [Live -> Seq(Mail(G))]] /\ Tail(channel[p][n]) \in Seq(Mail(G))
    BY <1>2 DEF Within, Channels
  <2> QED BY <2>1 DEF Channels
<1>4. q # <<>> => Handle(n, node[n], p, Head(q)) \in Effects(G)
  BY <1>1, <1>2, HandleType
<1>5. ASSUME Deliver(p, n) PROVE Within(G)'
  <2>1. q # <<>> /\ TakesEffect(n, c, Handle(n, node[n], p, Head(q)))
    BY <1>5 DEF Deliver
  <2> HIDE DEF q, c
  <2> QED BY <1>1, <1>3, <1>4, <2>1, TakesEffectType
<1>6. ASSUME Lose(p, n) PROVE Within(G)'
  BY <1>1, <1>3, <1>6 DEF Lose, Within
<1> QED BY <1>5, <1>6

LEMMA SyncTickWithin ==
    ASSUME NEW G \in SUBSET Blocks, Within(G), NEW n \in Live, SyncTick(n)
    PROVE  Within(G)'
<1> DEFINE s == node[n]
           best == RequestBest(s, Peers(n))
           asks == IF s.barrier /\ best # <<>> THEN best ELSE ToAll(n, RequestMsg(LocalView(s).tip))
           told == AndThen(Does(s, asks \o ToAll(n, StatusMsg(s))), PushToStale(n, s))
           e == IF s.barrier THEN told ELSE AndRequestBest(n, told)
<1>1. s \in States(G) /\ node \in [Live -> States(G)] /\ channel \in Channels(G)
  BY DEF Within
<1>2. TakesEffect(n, channel, e)
  BY DEF SyncTick
<1> HIDE DEF s
<1>3. best \in Seq(Parcels(G))
  BY <1>1, PeersType, RequestBestType
<1>4. RequestMsg(LocalView(s).tip) \in Mail(G) /\ StatusMsg(s) \in Mail(G)
  BY <1>1, StateRead, ViewType, MailMade, StatusMsgType DEF RequestMsg
<1>5. asks \in Seq(Parcels(G)) /\ ToAll(n, StatusMsg(s)) \in Seq(Parcels(G))
  BY <1>3, <1>4, ToAllType
<1> HIDE DEF best, asks
<1>6. asks \o ToAll(n, StatusMsg(s)) \in Seq(Parcels(G))
  BY <1>5
<1>7. told \in Effects(G)
  BY <1>1, <1>6, EffectMade, PushToStaleType, EffectsJoin
<1> HIDE DEF told
<1>8. AndRequestBest(n, told) \in Effects(G)
  BY <1>7, EffectRead, PeersType, RequestBestType, EffectsJoin DEF AndRequestBest
<1>9. e \in Effects(G)
  BY <1>7, <1>8
<1> HIDE DEF e
<1> QED BY <1>1, <1>2, <1>9, TakesEffectType

LEMMA RecoverType ==
    ASSUME NEW G \in SUBSET Blocks, NEW s \in States(G), NEW n, BestAhead(s, Peers(n)) # {}
    PROVE  Recover(n, s) \in Effects(G)
<1> DEFINE told == [s EXCEPT !.told = <<LocalView(s), TRUE>>]
           e == RecoveryStatus(n, s)
           t == e.s
           best == CHOOSE p \in BestAhead(t, Peers(n)) : TRUE
           asked == [t EXCEPT !.askedFor = <<best, LocalView(t)>>]
<1>1. LocalView(s) \in View
  BY StateRead, ViewType
<1>2. told \in States(G)
  <2>1. <<LocalView(s), TRUE>> \in RecoverySyncStatusMemo
    BY <1>1 DEF RecoverySyncStatusMemo
  <2> QED BY <2>1 DEF States, NodeState
<1>3. /\ told.tip = s.tip /\ told.certs = s.certs /\ told.barrier = s.barrier /\ told.status = s.status
  BY DEF States, NodeState
<1> HIDE DEF told
<1>4. e \in Effects(G) /\ (t = s \/ t = told)
  <2>1. ToAll(n, StatusMsg(s)) \in Seq(Parcels(G))
    BY StatusMsgType, ToAllType
  <2>2. e = Does(s, <<>>) \/ e = Does(told, ToAll(n, StatusMsg(s)))
    BY DEF RecoveryStatus, told
  <2>3. Does(s, <<>>) \in Effects(G) /\ Does(told, ToAll(n, StatusMsg(s))) \in Effects(G)
    BY <1>2, <2>1, NothingSent, EffectMade
  <2>4. Does(s, <<>>).s = s /\ Does(told, ToAll(n, StatusMsg(s))).s = told
    BY DEF Does
  <2> HIDE DEF e
  <2> QED BY <2>2, <2>3, <2>4
<1>5. t \in States(G)
  BY <1>4, EffectRead
<1>6. BestAhead(t, Peers(n)) = BestAhead(s, Peers(n))
  <2>1. BestAhead(told, Peers(n)) = BestAhead(s, Peers(n))
    <3>1. HighestQc(told) = HighestQc(s)
      BY <1>3 DEF HighestQc
    <3>2. LocalView(told) = LocalView(s)
      BY <1>3, <3>1 DEF LocalView
    <3>3. \A p : IsAhead(told, p) <=> IsAhead(s, p)
      BY <1>3, <3>2 DEF IsAhead, HasStatus
    <3> QED BY <1>3, <3>3 DEF BestAhead
  <2> QED BY <1>4, <2>1
<1>7. best \in Validators
  <2>1. BestAhead(t, Peers(n)) \in SUBSET Validators
    BY PeersType DEF BestAhead
  <2> QED BY <1>6, <2>1
<1> HIDE DEF t, best
<1>8. asked \in States(G)
  <2>1. LocalView(t) \in View
    BY <1>5, StateRead, ViewType
  <2>2. <<best, LocalView(t)>> \in RecoverySyncRequestMemo
    BY <1>7, <2>1 DEF RecoverySyncRequestMemo
  <2> QED BY <1>5, <2>2 DEF States, NodeState
<1> HIDE DEF asked
<1>9. RecoveryRequest(n, t) \in Effects(G)
  <2>1. Does(t, <<>>) \in Effects(G) /\ Does(asked, RequestSync(t, best)) \in Effects(G)
    BY <1>5, <1>7, <1>8, RequestTypes, NothingSent, EffectMade
  <2> QED BY <2>1 DEF RecoveryRequest, best, asked
<1> HIDE DEF e
<1>10. AndThen(e, RecoveryRequest(n, t)) \in Effects(G)
  BY <1>4, <1>9, EffectsJoin
<1> QED BY <1>10 DEF Recover, AndRecoveryRequest, e, t

LEMMA SlotTickWithin ==
    ASSUME NEW G \in SUBSET Blocks, Within(G), NEW n \in Live, NEW own \in BOOLEAN, SlotTick(n, own)
    PROVE  Within(G)'
<1> DEFINE s == node[n]
           e == IF BestAhead(s, Peers(n)) # {} THEN Recover(n, s) ELSE Does(s, <<>>)
           t == [e.s EXCEPT !.barrier = IF own THEN BarrierBlocks(n, e.s) ELSE @]
           f == Does(t, RepairPending(n, e.s))
<1>1. s \in States(G) /\ node \in [Live -> States(G)] /\ channel \in Channels(G)
  BY DEF Within
<1>2. TakesEffect(n, channel, AndThen(e, f))
  BY DEF SlotTick, AndRepairPending
<1> HIDE DEF s
<1>3. e \in Effects(G)
  BY <1>1, RecoverType, NothingSent, EffectMade
<1> HIDE DEF e
<1>4. e.s \in States(G)
  BY <1>3, EffectRead
<1>5. t \in States(G)
  <2>1. BarrierBlocks(n, e.s) \in BOOLEAN
    BY <1>4, StateRead DEF BarrierBlocks
  <2> QED BY <1>4, <2>1 DEF States, NodeState
<1>6. RepairPending(n, e.s) \in Seq(Parcels(G))
  <2> DEFINE u == e.s
             producer == Producer[u.pending]
  <2>1. u.pending \in Hash
    BY <1>4, StateRead
  <2>2. u.pending # Genesis => producer \in Validators
    BY <2>1, HashTypes, TreeAssumption
  <2>3. u \in States(G)
    BY <1>4
  <2> HIDE DEF u, producer
  <2>4. RequestBest(u, Peers(n)) \in Seq(Parcels(G)) /\ RequestBest(u, Peers(n) \ {producer}) \in Seq(Parcels(G))
    BY <2>3, PeersType, RequestBestType
  <2>5. u.pending # Genesis => RequestLegacy(u, producer) \in Seq(Parcels(G))
    BY <2>2, <2>3, RequestTypes
  <2>6. u.pending # Genesis =>
          RequestLegacy(u, producer) \o RequestBest(u, Peers(n) \ {producer}) \in Seq(Parcels(G))
    BY <2>4, <2>5
  <2> QED BY <2>4, <2>6, NothingSent DEF RepairPending, u, producer
<1> HIDE DEF t
<1>7. AndThen(e, f) \in Effects(G)
  BY <1>3, <1>5, <1>6, EffectMade, EffectsJoin
<1> QED BY <1>1, <1>2, <1>7, TakesEffectType

LEMMA ElapseWithin ==
    ASSUME NEW G \in SUBSET Blocks, Within(G), NEW n \in Live, Elapse(n)
    PROVE  Within(G)'
<1> DEFINE s == node[n]
           served == [p \in Validators |->
                        IF s.served[p] = NoMemo THEN NoMemo ELSE <<s.served[p][1], s.served[p][2], FALSE>>]
           t == [s EXCEPT !.served = served, !.told = NoMemo, !.askedFor = NoMemo]
<1>1. s \in States(G) /\ node \in [Live -> States(G)] /\ channel \in Channels(G)
  BY DEF Within
<1>2. node' = [node EXCEPT ![n] = t] /\ channel' = channel
  <2>1. DOMAIN s = DOMAIN [s EXCEPT !.served = served] /\ s = node[n]
    OBVIOUS
  <2> QED BY <1>1 DEF Elapse, States, NodeState
<1>3. t \in States(G)
  <2>1. \A p \in Validators : s.served[p] \in {NoMemo} \cup ServedSyncRequest
    BY <1>1, StateRead
  <2>2. \A p \in Validators : s.served[p] # NoMemo =>
                                <<s.served[p][1], s.served[p][2], FALSE>> \in ServedSyncRequest
    BY <2>1 DEF ServedSyncRequest
  <2>3. served \in [Validators -> {NoMemo} \cup ServedSyncRequest]
    BY <2>2
  <2> HIDE DEF s, served
  <2> QED BY <1>1, <2>3 DEF States, NodeState
<1> HIDE DEF t
<1>4. [node EXCEPT ![n] = t] \in [Live -> States(G)]
  BY <1>1, <1>3
<1> QED BY <1>1, <1>2, <1>4 DEF Within

LEMMA RestartWithin ==
    ASSUME NEW G \in SUBSET Blocks, Within(G), NEW n \in Live, Restart(n)
    PROVE  Within(G)'
<1> DEFINE s == node[n]
           t == Fresh(s.tip, s.certs \cap Chain[s.tip], s.tip # Genesis)
<1>1. s \in States(G) /\ node \in [Live -> States(G)] /\ channel \in Channels(G)
  BY DEF Within
<1>2. node' = [node EXCEPT ![n] = t] /\ channel' = channel
  BY <1>1 DEF Restart
<1>3. t \in States(G)
  <2>1. s.tip \in Hash /\ s.certs \cap Chain[s.tip] \in SUBSET G
    BY <1>1, StateRead
  <2> QED BY <2>1, FreshType
<1> HIDE DEF t
<1>4. [node EXCEPT ![n] = t] \in [Live -> States(G)]
  BY <1>1, <1>3
<1> QED BY <1>1, <1>2, <1>4 DEF Within

LEMMA ProduceWithin ==
    ASSUME NEW G \in SUBSET Blocks, Within(G), NEW n \in Live, NEW b \in Growth
    PROVE  /\ Produce(n, b) => Within(G)'
           /\ ProduceParked(n, b) => Within(G)'
<1> DEFINE s == node[n]
           built == [s EXCEPT !.tip = b]
           parked == [s EXCEPT !.pending = b]
           block == ToAll(n, [type |-> "block", b |-> b])
           e == AndSend(TipProgress(n, built), block)
           f == Does(parked, block)
<1>1. s \in States(G) /\ node \in [Live -> States(G)] /\ channel \in Channels(G) /\ b \in Blocks
  BY SyncAssumption DEF Within
<1>2. Produce(n, b) => TakesEffect(n, channel, e)
  BY DEF Produce
<1>3. ProduceParked(n, b) => TakesEffect(n, channel, f)
  BY DEF ProduceParked
<1> HIDE DEF s
<1>4. built \in States(G) /\ parked \in States(G)
  BY <1>1, HashTypes DEF States, NodeState
<1>5. block \in Seq(Parcels(G))
  BY <1>1, MailMade, ToAllType
<1> HIDE DEF built, parked, block
<1>6. e \in Effects(G) /\ f \in Effects(G)
  BY <1>4, <1>5, AnnounceType, EffectMade, EffectsJoin
<1> HIDE DEF e, f
<1> QED BY <1>1, <1>2, <1>3, <1>6, TakesEffectType

\* A new certificate is the only one that need not be of a block in G.
LEMMA CertifyWithin ==
    ASSUME NEW G \in SUBSET Blocks, Within(G), NEW n \in Live, NEW b \in G, Certify(n, b)
    PROVE  Within(G)'
<1> DEFINE s == node[n]
           t == [s EXCEPT !.certs = @ \cup {b}, !.tip = b, !.pending = Genesis]
<1>1. s \in States(G) /\ node \in [Live -> States(G)] /\ channel \in Channels(G)
  BY DEF Within
<1>2. TakesEffect(n, channel, AnnounceQc(n, t, b))
  BY DEF Certify
<1> HIDE DEF s
<1>3. t \in States(G)
  BY <1>1, HashTypes DEF States, NodeState
<1> HIDE DEF t
<1>4. AnnounceQc(n, t, b) \in Effects(G)
  BY <1>3, AnnounceQcType
<1> QED BY <1>1, <1>2, <1>4, TakesEffectType

\* Every other step spreads what there is.
LEMMA SpreadWithin ==
    ASSUME NEW G \in SUBSET Blocks, Within(G), [Next]_vars
    PROVE  Within(G)' \/ \E n \in Live, b \in Growth : Certify(n, b)
<1>1. CASE UNCHANGED vars
  BY <1>1 DEF vars, Within
<1>2. CASE Exchange
  <2>1. PICK n \in Live :
          \/ \E p \in Live : Deliver(p, n) \/ Lose(p, n)
          \/ SyncTick(n) \/ Elapse(n) \/ Restart(n)
          \/ \E own \in BOOLEAN : SlotTick(n, own)
    BY <1>2 DEF Exchange
  <2> QED BY <2>1, DeliverWithin, SyncTickWithin, ElapseWithin, RestartWithin, SlotTickWithin
<1>3. CASE Grow
  <2>1. PICK n \in Live, b \in Growth : Produce(n, b) \/ ProduceParked(n, b) \/ Certify(n, b)
    BY <1>3 DEF Grow
  <2> QED BY <2>1, ProduceWithin
<1> QED BY <1>1, <1>2, <1>3 DEF Next

LEMMA StartWithin ==
    ASSUME NEW G \in SUBSET Blocks, \A s \in Starts : s.certs \subseteq G, Init
    PROVE  Within(G)
<1>1. PICK start \in [Live -> Starts], barriers \in [Live -> BOOLEAN] :
          node = [n \in Live |-> Fresh(start[n].tip, start[n].certs,
                                       barriers[n] /\ start[n].tip # Genesis)]
  BY DEF Init, InitFrom
<1>2. ASSUME NEW n \in Live
      PROVE  Fresh(start[n].tip, start[n].certs, barriers[n] /\ start[n].tip # Genesis) \in States(G)
  <2>1. start[n] \in Starts /\ start[n].tip \in Hash /\ start[n].certs \in SUBSET G
    BY SyncAssumption DEF Hash
  <2> QED BY <2>1, FreshType
<1>3. node \in [Live -> States(G)]
  BY <1>1, <1>2
<1>4. channel \in Channels(G)
  <2>1. <<>> \in Seq(Mail(G))
    OBVIOUS
  <2> QED BY <2>1 DEF Init, InitFrom, Channels
<1> QED BY <1>3, <1>4 DEF Within

-----------------------------------------------------------------------------
(* Theorems.                                                                *)

Bounded == losses \in 0 .. MaxLosses /\ restarts \in 0 .. MaxRestarts

LEMMA StaysBounded ==
    ASSUME Bounded, [Next]_vars
    PROVE  Bounded'
<1>1. MaxLosses \in Nat /\ MaxRestarts \in Nat
  BY SyncAssumption
<1>2. CASE UNCHANGED <<losses, restarts>>
  BY <1>2 DEF Bounded
<1>3. ASSUME NEW p \in Live, NEW n \in Live, Lose(p, n) PROVE Bounded'
  BY <1>1, <1>3 DEF Bounded, Lose
<1>4. ASSUME NEW n \in Live, Restart(n) PROVE Bounded'
  BY <1>1, <1>4 DEF Bounded, Restart
<1> QED BY <1>2, <1>3, <1>4
        DEF Next, Exchange, Grow, vars, Deliver, SyncTick, SlotTick, Elapse, Produce, ProduceParked, Certify

\* What nodes record of each other, remember of their requests and send stays well formed,
\* for any validators, chains and bounds (handle_protocol_message, run_sync_maintenance).
THEOREM SyncTypeCorrect == Spec => []TypeOK
<1> DEFINE Inv == Within(Blocks) /\ Bounded
<1>1. Init => Inv
  <2> SUFFICES ASSUME Init PROVE Inv
    OBVIOUS
  <2>1. \A s \in Starts : s.certs \subseteq Blocks
    BY SyncAssumption, HashTypes DEF Hash
  <2>2. Within(Blocks)
    BY <2>1, StartWithin
  <2> QED BY <2>2, SyncAssumption DEF Init, Bounded
<1>2. Inv /\ [Next]_vars => Inv'
  <2> SUFFICES ASSUME Inv, [Next]_vars PROVE Inv'
    OBVIOUS
  <2>1. Bounded'
    BY StaysBounded
  <2>2. \A n \in Live, b \in Growth : Certify(n, b) => Within(Blocks)'
    BY CertifyWithin, SyncAssumption
  <2> QED BY <2>1, <2>2, SpreadWithin
<1>3. Inv => TypeOK
  <2> SUFFICES ASSUME Inv PROVE TypeOK
    OBVIOUS
  <2>1. node \in [Live -> States(Blocks)] /\ channel \in Channels(Blocks)
    BY DEF Within
  <2>2. DOMAIN node = Live /\ \A n \in Live : node[n] \in NodeState
    BY <2>1 DEF States
  <2>3. ASSUME NEW p \in Live, NEW q \in Live PROVE Range(channel[p][q]) \subseteq ProtocolMessage
    <3>1. channel[p][q] \in Seq(Mail(Blocks))
      BY <2>1 DEF Channels
    <3>2. \A i \in DOMAIN channel[p][q] : channel[p][q][i] \in Mail(Blocks)
      BY <3>1
    <3>3. \A i \in DOMAIN channel[p][q] : channel[p][q][i] \in ProtocolMessage
      BY <3>2 DEF Mail
    <3> QED BY <3>3 DEF Range
  <2> QED BY <2>2, <2>3 DEF TypeOK, Bounded
<1> HIDE DEF Inv
<1> QED BY <1>1, <1>2, <1>3, PTL DEF Spec

\* The blocks with certificates, at nodes or on their way, are of one chain.
OneChain(G) == \A b, c \in G : OnOneChain(b, c)
SpreadInv   == \E G \in SUBSET Blocks : OneChain(G) /\ Within(G)

LEMMA StartsSpread == StartsAgree /\ Init => SpreadInv
<1> SUFFICES ASSUME StartsAgree, Init PROVE SpreadInv
  OBVIOUS
<1> DEFINE G == UNION {s.certs : s \in Starts}
<1>1. G \in SUBSET Blocks
  BY SyncAssumption, HashTypes DEF Hash
<1>2. OneChain(G)
  BY DEF StartsAgree, OneChain
<1>3. \A s \in Starts : s.certs \subseteq G
  OBVIOUS
<1> HIDE DEF G
<1> QED BY <1>1, <1>2, <1>3, StartWithin DEF SpreadInv

LEMMA StepsSpread ==
    ASSUME SpreadInv, [Next]_vars
    PROVE  SpreadInv'
<1>1. PICK G \in SUBSET Blocks : OneChain(G) /\ Within(G)
  BY DEF SpreadInv
<1>2. CASE Within(G)'
  <2>1. OneChain(G)'
    BY <1>1 DEF OneChain, OnOneChain
  <2> QED BY <1>2, <2>1 DEF SpreadInv
<1>3. ASSUME NEW n \in Live, NEW b \in Growth, Certify(n, b) PROVE SpreadInv'
  <2>1. b \in Blocks /\ node \in [Live -> States(G)] /\ \A p \in Live : node[p].certs \in SUBSET G
    BY <1>1, SyncAssumption, StateRead DEF Within
  <2>2. PICK H \in SUBSET Blocks : H = {b} \cup UNION {node[p].certs : p \in Live}
    BY <2>1
  <2>3. b \in H /\ H \subseteq G \cup {b} /\ \A p \in Live : node[p].certs \subseteq H
    BY <2>1, <2>2
  <2>4. \A c \in H : OnOneChain(b, c) /\ OnOneChain(c, b)
    BY <1>3, <2>1, <2>2, HashTypes DEF Certify, OnOneChain
  <2>5. OneChain(H)
    BY <1>1, <2>3, <2>4 DEF OneChain
  <2>6. node \in [Live -> States(H)]
    <3>1. \A p \in Live : node[p] \in States(H)
      BY <2>1, <2>3 DEF States
    <3> QED BY <2>1, <3>1
  <2>7. channel \in Channels(H)
    <3>1. \A p, q \in Live : channel[p][q] = <<>>
      BY <1>3 DEF Certify, Quiet
    <3>2. <<>> \in Seq(Mail(H))
      OBVIOUS
    <3>3. \A p, q \in Live : channel[p][q] \in Seq(Mail(H))
      BY <3>1, <3>2
    <3> QED BY <1>1, <3>3 DEF Within, Channels
  <2>8. Within(H)
    BY <2>6, <2>7 DEF Within
  <2>9. Within(H)'
    BY <1>3, <2>3, <2>8, CertifyWithin
  <2>10. OneChain(H)'
    BY <2>5 DEF OneChain, OnOneChain
  <2> QED BY <2>9, <2>10 DEF SpreadInv
<1> QED BY <1>1, <1>2, <1>3, SpreadWithin

\* If nodes start with certificates of one chain, and blocks are certified on one chain only
\* (maybe_finalize_quorum_certificate, under ConsensusNode's hypotheses), then no snapshot,
\* segment, certified response, repair or restart gives nodes certificates of rival blocks
\* (apply_chain_snapshot, apply_chain_segment, import_certified_sync_response).
THEOREM CertificatesNeverConflict == StartsAgree /\ Spec => []CertificatesOnOneChain
<1>1. StartsAgree /\ Init => SpreadInv
  BY StartsSpread
<1>2. SpreadInv /\ [Next]_vars => SpreadInv'
  BY StepsSpread
<1>3. SpreadInv => CertificatesOnOneChain
  <2> SUFFICES ASSUME SpreadInv PROVE CertificatesOnOneChain
    OBVIOUS
  <2>1. PICK G \in SUBSET Blocks : OneChain(G) /\ Within(G)
    BY DEF SpreadInv
  <2>2. \A n \in Live : node[n].certs \in SUBSET G
    BY <2>1, StateRead DEF Within
  <2> QED BY <2>1, <2>2 DEF OneChain, CertificatesOnOneChain
<1> QED BY <1>1, <1>2, <1>3, PTL DEF Spec
=============================================================================
