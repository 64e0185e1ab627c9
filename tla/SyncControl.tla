---------------------------- MODULE SyncControl ----------------------------
(***************************************************************************)
(* How nodes find out that they differ and exchange chains: sync statuses, *)
(* requests, pushes and their memos, throttling, repair and the startup    *)
(* barrier.  A node's chain is its tip and the blocks it has certificates  *)
(* for; how blocks are voted on is ConsensusNode's.  A block counts as     *)
(* known if it is on the node's chain: orphan_blocks are left out.         *)
(*                                                                         *)
(* A handler is an operator from the node's state to an effect: the new    *)
(* state and the messages sent, in order.                                  *)
(***************************************************************************)
EXTENDS BlockTree, SequencesExt

CONSTANTS
    Live,          \* the validators whose process runs; the others are configured only
    Support,       \* votes known for each block, the same at every node
    Starts,        \* the chains nodes may start with: records [tip, certs]
    MaxPreferred,  \* MAX_PREFERRED_INCREMENTAL_SYNC_BLOCKS
    MaxLosses,     \* bound: messages the network loses
    MaxRestarts,   \* bound: restarts
    Growth         \* blocks that may be produced during the run

ASSUME SyncAssumption ==
    /\ Live \subseteq Validators
    /\ Support \in [Blocks -> Nat]
    /\ \A s \in Starts : s.tip \in Blocks \cup {Genesis} /\ s.certs \subseteq Chain[s.tip]
    /\ MaxPreferred \in Nat /\ MaxLosses \in Nat /\ MaxRestarts \in Nat
    /\ Growth \subseteq Blocks

VARIABLES
    node,      \* the state of each live node, see NodeState
    channel,   \* channel[p][q]: what p has sent to q, in order
    losses, restarts

vars == <<node, channel, losses, restarts>>

Hash == Blocks \cup {Genesis}

View == [tip : Hash, qc : Hash]

\* PeerSyncStatus; heights are those of the blocks, NoStatus stands for no entry.
Status   == [tip : Hash, slot : Nat, qc : Hash, anchors : SUBSET Blocks]
NoStatus == [tip |-> -1, slot |-> 0, qc |-> Genesis, anchors |-> {}]

\* What is remembered of a served request (the known tip, the local view, whether the
\* cooldown runs), of a push (the peer's view and the local one), and of the recovery
\* request and status of the last slots.
NoMemo == <<>>
ServedSyncRequest       == Hash \X View \X BOOLEAN
ServedSyncPush          == View \X View
RecoverySyncRequestMemo == Validators \X View
RecoverySyncStatusMemo  == View \X {TRUE}

NodeState ==
    [tip      : Hash,
     certs    : SUBSET Blocks,                         \* quorum_certificates
     pending  : Hash,                                  \* the preferred parked child, or Genesis
     barrier  : BOOLEAN,                               \* startup_sync_barrier
     status   : [Validators -> Status \cup {NoStatus}], \* peer_sync_status
     served   : [Validators -> {NoMemo} \cup ServedSyncRequest], \* last_sync_request_served
     pushed   : [Validators -> {NoMemo} \cup ServedSyncPush],    \* last_sync_push_served
     failed   : [Validators -> BOOLEAN],               \* peer_sync_repair_failures > 0
     askedFor : {NoMemo} \cup RecoverySyncRequestMemo, \* a recent last_recovery_sync_request
     told     : {NoMemo} \cup RecoverySyncStatusMemo]  \* a recent last_recovery_sync_status

ChunkedSyncResponse ==
         [type : {"unavailable"}]
    \cup [type : {"certified"}, base : Blocks, end : Blocks, tip : Blocks]

\* The protocol messages of the sync exchange.
ProtocolMessage ==
         [type : {"status"}, tip : Hash, qc : Hash, anchors : SUBSET Blocks]
    \cup [type : {"request"}, known : Hash \cup {-1}]
    \cup [type : {"snapshot"}, tip : Hash, certs : SUBSET Blocks]
    \cup [type : {"segment"}, base : Hash, tip : Blocks, certs : SUBSET Blocks]
    \cup [type : {"certRequest"}, anchors : SUBSET Blocks]
    \cup ChunkedSyncResponse
    \cup [type : {"qc", "block"}, b : Blocks]

\* What a node records of its peers and of its own requests stays within its types; an
\* inferred slot in particular (infer_tip_last_slot) is one a status can carry.
TypeOK ==
    /\ DOMAIN node = Live
    /\ \A n \in Live : node[n] \in NodeState
    /\ \A p, q \in Live : Range(channel[p][q]) \subseteq ProtocolMessage
    /\ losses \in 0 .. MaxLosses
    /\ restarts \in 0 .. MaxRestarts

-----------------------------------------------------------------------------
(* Views.                                                                   *)

\* The highest block of S, a subset of a chain; Genesis if it is empty.
Highest(S) == IF S = {} THEN Genesis ELSE CHOOSE b \in S : S \subseteq Chain[b]

\* highest_local_qc.
HighestQc(s) == Highest(s.certs \cap Chain[s.tip])

\* local_sync_view: behind the barrier the uncertified suffix is not shown.
LocalView(s) ==
    LET qc == HighestQc(s)
    IN  [tip |-> IF s.barrier /\ qc # Genesis THEN qc ELSE s.tip, qc |-> qc]

Height(b) == BlockNumber(b)
SyncViewPreference(t, slot) == <<Height(t), slot, t>>
StatusPreference(st) == SyncViewPreference(st.tip, st.slot)
ViewPreference(v) == SnapshotPreference(v.tip)

HasStatus(s, p) == s.status[p] # NoStatus

\* peer_status_is_ahead.
IsAhead(s, p) ==
    LET st == s.status[p]
        v  == LocalView(s)
    IN  /\ HasStatus(s, p)
        /\ \/ Height(st.qc) > Height(v.qc)
           \/ Height(st.qc) = Height(v.qc) /\ st.qc # v.qc
           \/ /\ v.qc # Genesis /\ st.qc = v.qc
              /\ Height(st.tip) = Height(v.tip) /\ st.tip # v.tip
              /\ st.slot = 0
           \/ LexGreater(StatusPreference(st), ViewPreference(v))

\* local_sync_view_is_ahead_of_status.
LocalAhead(v, st) ==
    \/ Height(v.qc) > Height(st.qc)
    \/ Height(v.qc) = Height(st.qc) /\ v.qc # st.qc
    \/ LexGreater(ViewPreference(v), StatusPreference(st))

\* Seeded defect: an unknown tip gives no slot.
InferSlotNone(s, t) == IF t \in Chain[s.tip] \cup s.certs THEN Slot[t] ELSE -1
\* infer_tip_last_slot.
InferSlot(s, t) == IF t \in Chain[s.tip] \cup s.certs THEN Slot[t] ELSE 0

\* merge_sync_qc_anchors; there are never more than the limit of them here.
MergeAnchors(old, new) == old \cup new

\* record_peer_sync_status_with_slot: what is recorded only moves up, in each part on
\* its own, except that a lower tip that is the peer's certified head replaces all.
RecordStatus(s, p, t, slot, qc, anchors) ==
    LET old  == s.status[p]
        keep == HasStatus(s, p) /\ LexGreater(StatusPreference(old), SyncViewPreference(t, slot))
        restarted == HasStatus(s, p) /\ Height(old.tip) > Height(t) /\ qc # Genesis /\ qc = t
    IN  [s EXCEPT !.status[p] =
            IF restarted
            THEN [tip |-> t, slot |-> slot, qc |-> qc,
                  anchors |-> IF anchors = {} THEN {t} ELSE anchors]
            ELSE [tip |-> IF keep THEN old.tip ELSE t, slot |-> IF keep THEN old.slot ELSE slot,
                  qc |-> IF Height(old.qc) > Height(qc) THEN old.qc ELSE qc,
                  anchors |-> MergeAnchors(old.anchors, anchors)]]

\* record_peer_sync_status, for messages that do not carry the slot of the tip.
RecordInferred(s, p, t, qc, anchors) == RecordStatus(s, p, t, InferSlot(s, t), qc, anchors)

\* record_sync_repair_failure and clear_sync_repair_memory.
RecordRepairFailure(s, p) == [s EXCEPT !.failed[p] = TRUE]
ClearRepairMemory(s, p)   == [s EXCEPT !.failed[p] = FALSE]

-----------------------------------------------------------------------------
(* Effects.                                                                 *)

Peers(n) == Validators \ {n}
InOrder(S) == CHOOSE s \in [1 .. Cardinality(S) -> S] : \A i, j \in DOMAIN s : i < j => s[i] < s[j]

Does(s, out) == [s |-> s, out |-> out]

\* First e, then f, which starts from the state that e leaves; first e, then send more.
AndThen(e, f)   == Does(f.s, e.out \o f.out)
AndSend(e, out) == Does(e.s, e.out \o out)

ToAll(n, m) ==
    LET order == InOrder(Peers(n))
    IN  [i \in DOMAIN order |-> [to |-> order[i], m |-> m]]

Send(p, m) == << [to |-> p, m |-> m] >>

-----------------------------------------------------------------------------
(* Requests.                                                                *)

\* local_qc_anchors: the certified blocks of the chain.
LocalAnchors(s) == s.certs \cap Chain[s.tip]

StatusMsg(s) ==
    LET v == LocalView(s)
    IN  [type |-> "status", tip |-> v.tip, qc |-> v.qc, anchors |-> LocalAnchors(s)]

\* A known tip of -1 stands for the hint that forces a full snapshot.
ForceFull == -1
RequestMsg(known) == [type |-> "request", known |-> known]

\* peer_shares_local_certified_frontier_with_divergent_suffix.
SharesFrontier(s, p) ==
    LET v == LocalView(s)
    IN  /\ HasStatus(s, p)
        /\ v.qc # Genesis /\ v.tip # v.qc
        /\ s.status[p].qc = v.qc
        /\ LexGreater(StatusPreference(s.status[p]), ViewPreference(v))

\* should_force_full_snapshot_for_peer: one failed repair is enough.
ForcesFull(s, p) == s.failed[p]

\* sync_request_known_state.
KnownState(tip, force) == IF force THEN ForceFull ELSE tip

\* sync_request_hint_for_peer.
RequestHint(s, p) ==
    LET certified == ~s.barrier /\ IsAhead(s, p) /\ HighestQc(s) # Genesis
    IN  KnownState(IF certified THEN HighestQc(s) ELSE LocalView(s).tip,
                   ForcesFull(s, p) /\ ~SharesFrontier(s, p))

\* preferred_v2_sync_mode_for_peer = Certified.
WantsCertified(s, p) ==
    LET st == s.status[p]
        v  == LocalView(s)
        otherFrontier == \/ Height(st.qc) > Height(v.qc)
                         \/ Height(st.qc) = Height(v.qc) /\ st.qc # v.qc
        preferred == LexGreater(StatusPreference(st), ViewPreference(v))
    IN  IF ~HasStatus(s, p) THEN v.qc # Genesis
        ELSE \/ otherFrontier
             \/ s.failed[p] /\ SharesFrontier(s, p)
             \/ ~preferred /\ v.qc # Genesis

\* request_legacy_sync_from, request_followup_legacy_sync_from.
RequestLegacy(s, p)   == Send(p, RequestMsg(RequestHint(s, p)))
RequestFollowup(s, p) == Send(p, RequestMsg(LocalView(s).tip))

\* request_certified_sync_from.
RequestCertified(s, p) == Send(p, [type |-> "certRequest", anchors |-> LocalAnchors(s)])

\* request_sync_from.
RequestSync(s, p) == IF WantsCertified(s, p) THEN RequestCertified(s, p) ELSE RequestLegacy(s, p)

\* best_available_ahead_peer: by certified height, preference, id.
BestAhead(s, P) ==
    LET ahead == {p \in P : IsAhead(s, p)}
        rank(p) == <<Height(s.status[p].qc)>> \o StatusPreference(s.status[p]) \o <<p>>
    IN  {p \in ahead : \A q \in ahead \ {p} : LexGreater(rank(p), rank(q))}

\* request_best_available_sync_from_ahead_peers_excluding.
RequestBest(s, P) ==
    LET best == BestAhead(s, P)
    IN  IF best = {} THEN <<>> ELSE RequestSync(s, CHOOSE p \in best : TRUE)

-----------------------------------------------------------------------------
(* Payloads and pushes.                                                     *)

\* sync_export_prefix_len, sync_export_snapshot: payloads end where the view ends.
ExportTip(s) == LocalView(s).tip

\* build_chain_snapshot; certs: the payload's votes certify these blocks.
SnapshotMsg(s) ==
    LET t == ExportTip(s)
    IN  [type |-> "snapshot", tip |-> t, certs |-> s.certs \cap Chain[t]]

\* build_chain_segment(known), if there is one: the suffix is short, or starts at the
\* certified head.
SegmentExists(s, known) ==
    LET t == ExportTip(s)
    IN  /\ known \in (Chain[t] \ {t}) \cup {Genesis} /\ known # t
        /\ \/ Height(t) - Height(known) <= MaxPreferred
           \/ known # Genesis /\ known = HighestQc(s)
SegmentMsg(s, known) ==
    LET t == ExportTip(s)
    IN  [type |-> "segment", base |-> known, tip |-> t,
         certs |-> s.certs \cap (Chain[t] \ Chain[known])]

\* send_anchored_suffix_sync_to: a segment without votes.
AnchoredSuffix(s, p, anchor) ==
    IF Height(ExportTip(s)) <= Height(anchor) THEN <<>>
    ELSE Send(p, [type |-> "segment", base |-> anchor, tip |-> ExportTip(s), certs |-> {}])

\* send_best_sync_to.
SendBest(s, p, known) == Send(p, IF SegmentExists(s, known) THEN SegmentMsg(s, known)
                                                            ELSE SnapshotMsg(s))

\* highest_shared_qc_anchor, Genesis if there is none.
SharedAnchor(s, anchors) == Highest(anchors \cap s.certs \cap Chain[s.tip])

\* peer_qc_anchors_from_request and its like for a status: the highest certificate
\* stands in for a missing list.
PeerAnchors(st) == IF st.anchors # {} THEN st.anchors ELSE {st.qc} \ {Genesis}

\* certified_suffix_from_shared_qc: the tip of the certified blocks directly above.
CertifiedEnd(s, anchor) ==
    Highest({b \in Chain[s.tip] : anchor \in Chain[b] /\ Chain[b] \ Chain[anchor] \subseteq s.certs})

\* build_certified_sync_response_for_peer.
CertifiedMsg(s, anchor) ==
    IF anchor = Genesis \/ CertifiedEnd(s, anchor) = anchor THEN [type |-> "unavailable"]
    ELSE [type |-> "certified", base |-> anchor, end |-> CertifiedEnd(s, anchor),
          tip |-> LocalView(s).tip]

\* sync_push_state_for_peer: the pair of views a push is remembered by.
PushState(s, p, known) ==
    LET theirs == IF HasStatus(s, p) THEN [tip |-> s.status[p].tip, qc |-> s.status[p].qc]
                                     ELSE [tip |-> known, qc |-> Genesis]
    IN  <<theirs, LocalView(s)>>

\* shared_qc_anchor_for_peer.
AnchorForPeer(s, p) ==
    IF HasStatus(s, p) THEN SharedAnchor(s, PeerAnchors(s.status[p])) ELSE Genesis

\* send_best_certified_sync_to: nothing rather than an empty answer.
SendCertified(s, p) ==
    LET m == CertifiedMsg(s, AnchorForPeer(s, p))
    IN  IF m.type = "certified" THEN Send(p, m) ELSE <<>>

\* push_best_sync_to: nothing if the same was pushed for the same pair of views.
PushBest(s, p, known) ==
    LET memo   == PushState(s, p, known)
        anchor == AnchorForPeer(s, p)
    IN  IF s.pushed[p] = memo THEN Does(s, <<>>)
        ELSE Does([s EXCEPT !.pushed[p] = memo],
                  SendCertified(s, p)
                  \o IF anchor # Genesis /\ Height(LocalView(s).tip) > Height(anchor)
                     THEN AnchoredSuffix(s, p, anchor)
                     ELSE SendBest(s, p, known))

\* push_sync_to_stale_peers, for one of them.
PushTo(s, p) ==
    CASE HasStatus(s, p) /\ LocalAhead(LocalView(s), s.status[p]) -> PushBest(s, p, s.status[p].tip)
      [] ~HasStatus(s, p) /\ LocalView(s).tip # Genesis -> Does(s, Send(p, SnapshotMsg(s)))
      [] OTHER -> Does(s, <<>>)

\* push_sync_to_stale_peers, one peer after the other.
AndPushTo(e, p) == AndThen(e, PushTo(e.s, p))
PushToStale(n, s) ==
    LET order == InOrder(Peers(n))
        after[i \in 0 .. Len(order)] ==
            IF i = 0 THEN Does(s, <<>>) ELSE LET e == after[i - 1] IN AndPushTo(e, order[i])
    IN  after[Len(order)]

\* request_best_available_sync_from_ahead_peers, after e.
AndRequestBest(n, e) == AndSend(e, RequestBest(e.s, Peers(n)))

\* announce_certified_progress.
Announce(n, s) ==
    AndRequestBest(n, AndThen(Does(s, ToAll(n, StatusMsg(s))), PushToStale(n, s)))

\* maybe_push_tip_progress_to_stale_peers.
TipProgress(n, s) ==
    IF \E p \in Peers(n) : HasStatus(s, p) /\ LocalAhead(LocalView(s), s.status[p])
    THEN AndThen(Does(s, ToAll(n, StatusMsg(s))), PushToStale(n, s))
    ELSE Does(s, <<>>)

-----------------------------------------------------------------------------
(* Handlers: s has received m from p.                                       *)

OnStatus(n, s, p, m) ==
    LET t == RecordStatus(s, p, m.tip, SlotOf(m.tip), m.qc, m.anchors)
        v == LocalView(t)
    IN  CASE Height(m.tip) > Height(v.tip) -> Does(t, RequestSync(t, p))
          [] Height(m.tip) < Height(v.tip) \/ (Height(m.tip) = Height(v.tip) /\ m.tip # v.tip) ->
                PushBest(t, p, m.tip)
          [] OTHER -> Does(t, <<>>)

\* sync_request_should_throttle: the same request within the cooldown, unless the peer
\* stands at the certified head and there is a suffix to send.
ShouldThrottle(memo, known, v) ==
    /\ ~(v.qc # Genesis /\ known = v.qc /\ v.tip # v.qc)
    /\ memo = <<known, v, TRUE>>

\* sync_request_is_throttled.
Throttled(s, p, known) ==
    s.served[p] # NoMemo /\ ShouldThrottle(s.served[p], known, LocalView(s))

\* record_sync_request_served.
RecordServed(s, p, known) == [s EXCEPT !.served[p] = <<known, LocalView(s), TRUE>>]

OnRequest(n, s, p, m) ==
    LET t == RecordInferred(s, p, m.known, Genesis, {})
    IN  CASE m.known = ForceFull -> Does(s, Send(p, SnapshotMsg(s)))
          [] m.known # ForceFull /\ Throttled(t, p, m.known) -> Does(t, <<>>)
          [] OTHER -> PushBest(RecordServed(t, p, m.known), p, m.known)

\* maybe_finalize_quorum_certificate: a new certificate is broadcast and announced.
AnnounceQc(n, s, b) == AndThen(Does(s, ToAll(n, [type |-> "qc", b |-> b])), Announce(n, s))
AndFinalize(n, e, b) == AndThen(e, AnnounceQc(n, [e.s EXCEPT !.certs = @ \cup {b}], b))

\* What follows a payload that was applied: its votes are imported in the order of the
\* blocks' hashes and finalize their certificates one by one, those of other chains are
\* dropped, the repair memory is cleared, more is requested if the responder is still
\* ahead, and peers that are behind are told.
Imported(n, s, new) ==
    LET order == InOrder(new)
        after[i \in 0 .. Len(order)] ==
            IF i = 0 THEN Does(s, <<>>) ELSE LET e == after[i - 1] IN AndFinalize(n, e, order[i])
    IN  after[Len(order)]
Retained(s, p)  == ClearRepairMemory([s EXCEPT !.certs = @ \cap Chain[s.tip]], p)
FollowUp(s, p)  == Does(s, IF IsAhead(s, p) THEN RequestSync(s, p) ELSE <<>>)
AndFollowUp(e, p)    == AndThen(e, FollowUp(Retained(e.s, p), p))
AndTipProgress(n, e) == AndThen(e, TipProgress(n, e.s))

\* apply_chain_snapshot, apply_chain_segment.
Applied(n, s, p, tip, certs) ==
    LET t == [s EXCEPT !.tip = tip, !.pending = Genesis]
    IN  AndTipProgress(n, AndFollowUp(Imported(n, t, (certs \cap Chain[tip]) \ s.certs), p))

\* snapshot_branch_quality, of chains without a certificate.
PreQcQuality(t) ==
    LET votes == IF t = Genesis THEN 0 ELSE Support[t]
    IN  <<votes * Height(t), Height(t), votes, SlotOf(t), t>>

\* Seeded defect: rivals of one height are not compared further.
PrefersSnapshotByHeight(s, t, u) == Height(t) > Height(u)
\* should_adopt_chain_snapshot(local u, remote t).
PrefersSnapshot(s, t, u) ==
    IF HighestQc(s) # Genesis THEN LexGreater(SnapshotPreference(t), SnapshotPreference(u))
                              ELSE LexGreater(PreQcQuality(t), PreQcQuality(u))

\* should_push_local_snapshot_after_sync_response.
PushesBack(s, t) == PrefersSnapshot(s, s.tip, t)

OnSnapshot(n, s, p, m) ==
    LET t == RecordStatus(s, p, m.tip, SlotOf(m.tip), Genesis, {})
    IN  CASE PrefersSnapshot(t, m.tip, t.tip) -> Applied(n, t, p, m.tip, m.certs)
          [] PushesBack(t, m.tip) -> PushBest(t, p, m.tip)
          [] OTHER -> Does(t, <<>>)

\* The segment replaces the suffix above the certified head.
Repairs(s, m) == HighestQc(s) # Genesis /\ s.tip # HighestQc(s) /\ m.base = HighestQc(s)

\* sync_repair_base_for_segment: the tip the segment is put on.
RepairBase(s, m) == IF Repairs(s, m) THEN HighestQc(s) ELSE s.tip

\* should_adopt_chain_segment.
WantsSegment(s, m) ==
    \/ LexGreater(SnapshotPreference(m.tip), SnapshotPreference(s.tip))
    \/ Repairs(s, m) /\ m.tip # s.tip

\* align_chain_segment_to_local_chain: the segment starts on the chain that ends in
\* local and contains what that chain has above.
Aligns(local, m) == m.base \in Chain[local] \cup {Genesis} /\ Chain[local] \subseteq Chain[m.tip]

\* A SyncBlocks: apply_chain_segment fails if the segment does not align.
OnSegment(n, s, p, m) ==
    LET t == RecordStatus(s, p, m.tip, SlotOf(m.tip), Genesis, {})
        failed == RecordRepairFailure(t, p)
    IN  CASE ~WantsSegment(t, m) -> Does(t, <<>>)
          [] WantsSegment(t, m) /\ Aligns(RepairBase(t, m), m) -> Applied(n, t, p, m.tip, m.certs)
          [] OTHER -> Does(failed, RequestSync(failed, p))

\* build_certified_sync_response.
CertifiedResponse(s, anchors) == CertifiedMsg(s, SharedAnchor(s, anchors))

OnCertRequest(n, s, p, m) ==
    LET anchor == SharedAnchor(s, m.anchors)
    IN  Does(s, Send(p, CertifiedResponse(s, m.anchors))
                \o IF anchor = Genesis THEN <<>> ELSE AnchoredSuffix(s, p, anchor))

\* should_adopt_certified_snapshot: by the certified height, then as a snapshot.
PrefersCertified(s, end) ==
    LexGreater(<<Height(end)>> \o SnapshotPreference(end),
               <<Height(HighestQc(s))>> \o SnapshotPreference(s.tip))

\* A CertifiedSyncResponse without a payload.
OnUnavailable(n, s, p, m) ==
    LET other == RequestBest(s, Peers(n) \ {p})
    IN  Does(s, IF s.barrier \/ other = <<>> THEN RequestFollowup(s, p) ELSE other)

\* Seeded defect: the chain is adopted without its certificates.
OnCertifiedBlocksOnly(n, s, p, m) ==
    LET t == RecordStatus(s, p, m.tip, InferSlot(s, m.tip), m.end, Chain[m.end] \ Chain[m.base])
    IN  IF m.base \in Chain[s.tip] /\ Height(m.end) > Height(s.tip)
        THEN Announce(n, [t EXCEPT !.tip = m.end, !.pending = Genesis, !.failed[p] = FALSE])
        ELSE Does(t, <<>>)
\* import_certified_sync_response and what the handler does with its outcome.
OnCertified(n, s, p, m) ==
    LET suffix == Chain[m.end] \ Chain[m.base]
        t == RecordInferred(s, p, m.tip, m.end, suffix)
        failed == RecordRepairFailure(s, p)
        adopts == PrefersCertified(s, m.end)
    IN  CASE Height(m.base) > Height(s.tip) -> Does(failed, RequestBest(failed, Peers(n) \ {p}))
          [] Height(m.base) <= Height(s.tip) /\ m.base \notin Chain[s.tip] ->
                Does(s, RequestFollowup(s, p))
          [] m.base \in Chain[s.tip] /\ adopts ->
                Announce(n, [ClearRepairMemory(t, p) EXCEPT
                                !.tip = m.end, !.certs = @ \cup suffix, !.pending = Genesis])
          [] OTHER -> Does(t, IF t.pending # Genesis THEN RequestFollowup(t, p) ELSE <<>>)

\* A QuorumCertificate: of an unknown block, or imported and announced if it is new.
OnQc(n, s, p, m) ==
    LET t == RecordStatus(s, p, m.b, Slot[m.b], m.b, {m.b})
        known == Chain[s.tip] \cup {s.pending}
    IN  CASE m.b \notin known -> Does(t, RequestSync(t, p))
          [] m.b \in known /\ m.b \notin s.certs ->
                Announce(n, [s EXCEPT !.certs = @ \cup {m.b},
                                      !.tip = IF m.b = s.pending THEN m.b ELSE @,
                                      !.pending = IF m.b = @ THEN Genesis ELSE @])
          [] OTHER -> Does(s, <<>>)

\* request_sync_from, after e.
AndRequest(e, p) == AndSend(e, RequestSync(e.s, p))

\* A BlockProposal: on top of an uncertified chain it is accepted, on the certified
\* head it is parked, and otherwise it is an orphan.
OnBlock(n, s, p, m) ==
    LET t  == RecordStatus(s, p, m.b, Slot[m.b], Genesis, {})
        qc == HighestQc(t)
        failed == RecordRepairFailure(t, p)
        parked == [t EXCEPT !.pending = IF @ = Genesis THEN m.b ELSE LatestBlock({@, m.b})]
    IN  CASE m.b \in Chain[t.tip] \cup {t.pending} -> Does(t, <<>>)
          [] qc = Genesis /\ Parent[m.b] = t.tip ->
                AndSend(TipProgress(n, [t EXCEPT !.tip = m.b]), ToAll(n, [type |-> "block", b |-> m.b]))
          [] qc # Genesis /\ Parent[m.b] = qc /\ m.b \notin Chain[t.tip] ->
                Does(parked, RequestLegacy(parked, p))
          [] OTHER -> AndRequest(PushBest(failed, p, Parent[m.b]), p)

Handle(n, s, p, m) ==
    CASE m.type = "status"      -> OnStatus(n, s, p, m)
      [] m.type = "request"     -> OnRequest(n, s, p, m)
      [] m.type = "snapshot"    -> OnSnapshot(n, s, p, m)
      [] m.type = "segment"     -> OnSegment(n, s, p, m)
      [] m.type = "certRequest" -> OnCertRequest(n, s, p, m)
      [] m.type = "unavailable" -> OnUnavailable(n, s, p, m)
      [] m.type = "certified"   -> OnCertified(n, s, p, m)
      [] m.type = "qc"          -> OnQc(n, s, p, m)
      [] m.type = "block"       -> OnBlock(n, s, p, m)

-----------------------------------------------------------------------------
(* Actions.                                                                 *)

\* The channels after n has sent out; what goes to a process that does not run is lost.
QueuedIf(queue, q, x) == IF x.to = q THEN Append(queue, x.m) ELSE queue
Queued(queue, q, out) ==
    LET after[i \in 0 .. Len(out)] ==
            IF i = 0 THEN queue ELSE LET before == after[i - 1] IN QueuedIf(before, q, out[i])
    IN  after[Len(out)]
Sent(c, n, out) == [c EXCEPT ![n] = [q \in Live |-> Queued(@[q], q, out)]]

\* The effect e of n, with the channels c before it sends.
TakesEffect(n, c, e) ==
    /\ node' = [node EXCEPT ![n] = e.s]
    /\ channel' = Sent(c, n, e.out)

\* handle_network_event.
Deliver(p, n) ==
    /\ channel[p][n] # <<>>
    /\ TakesEffect(n, [channel EXCEPT ![p][n] = Tail(@)],
                   Handle(n, node[n], p, Head(channel[p][n])))
    /\ UNCHANGED <<losses, restarts>>

Lose(p, n) ==
    /\ losses < MaxLosses
    /\ channel[p][n] # <<>>
    /\ channel' = [channel EXCEPT ![p][n] = Tail(@)]
    /\ losses' = losses + 1
    /\ UNCHANGED <<node, restarts>>

\* Ticks are seconds apart: what a tick has caused is over before the next one.
Quiet == \A p, q \in Live : channel[p][q] = <<>>

\* run_sync_maintenance, on the sync tick and at the start.
SyncTick(n) ==
    LET s    == node[n]
        best == RequestBest(s, Peers(n))
        asks == IF s.barrier /\ best # <<>> THEN best ELSE ToAll(n, RequestMsg(LocalView(s).tip))
        told == AndThen(Does(s, asks \o ToAll(n, StatusMsg(s))), PushToStale(n, s))
    IN  /\ Quiet
        /\ TakesEffect(n, channel, IF s.barrier THEN told ELSE AndRequestBest(n, told))
        /\ UNCHANGED <<losses, restarts>>

\* maybe_broadcast_recovery_sync_status.
RecoveryStatus(n, s) ==
    LET memo == <<LocalView(s), TRUE>>
    IN  IF s.told = memo THEN Does(s, <<>>)
        ELSE Does([s EXCEPT !.told = memo], ToAll(n, StatusMsg(s)))

\* maybe_request_recovery_sync_from_ahead_peer.
RecoveryRequest(n, s) ==
    LET best == CHOOSE p \in BestAhead(s, Peers(n)) : TRUE
        memo == <<best, LocalView(s)>>
    IN  IF s.askedFor = memo THEN Does(s, <<>>)
        ELSE Does([s EXCEPT !.askedFor = memo], RequestSync(s, best))

\* The steps a live slot takes while a peer is ahead.
AndRecoveryRequest(n, e) == AndThen(e, RecoveryRequest(n, e.s))
Recover(n, s) == AndRecoveryRequest(n, RecoveryStatus(n, s))

\* maybe_repair_stale_pending_certified_child, for a child of an earlier slot.
RepairPending(n, s) ==
    LET producer == Producer[s.pending]
    IN  IF s.pending = Genesis THEN <<>>
        ELSE IF producer = n THEN RequestBest(s, Peers(n))
        ELSE RequestLegacy(s, producer) \o RequestBest(s, Peers(n) \ {producer})

\* startup_sync_blocks_proposal.
BarrierBlocks(n, s) ==
    /\ s.barrier
    /\ \E p \in Peers(n) : ~HasStatus(s, p) \/ IsAhead(s, p)

\* The sync part of a live slot, own if it is the node's.
AndRepairPending(n, own, e) ==
    AndThen(e, Does([e.s EXCEPT !.barrier = IF own THEN BarrierBlocks(n, e.s) ELSE @],
                    RepairPending(n, e.s)))

SlotTick(n, own) ==
    LET s == node[n]
    IN  /\ Quiet
        /\ TakesEffect(n, channel, AndRepairPending(n, own,
                IF BestAhead(s, Peers(n)) # {} THEN Recover(n, s) ELSE Does(s, <<>>)))
        /\ UNCHANGED <<losses, restarts>>

\* Enough time passes for the cooldown and the recovery memos to run out.
Elapse(n) ==
    /\ node' = [node EXCEPT
          ![n].served = [p \in Validators |->
                            IF @[p] = NoMemo THEN NoMemo ELSE <<@[p][1], @[p][2], FALSE>>],
          ![n].told = NoMemo, ![n].askedFor = NoMemo]
    /\ UNCHANGED <<channel, losses, restarts>>

\* accept_block of the node's own proposal on an uncertified chain.
Produce(n, b) ==
    LET s == node[n]
    IN  /\ Quiet
        /\ b \in Growth /\ Producer[b] = n
        /\ ~s.barrier /\ HighestQc(s) = Genesis /\ Parent[b] = s.tip
        /\ TakesEffect(n, channel, AndSend(TipProgress(n, [s EXCEPT !.tip = b]),
                                           ToAll(n, [type |-> "block", b |-> b])))
        /\ UNCHANGED <<losses, restarts>>

\* On a certified head it is parked and broadcast.
ProduceParked(n, b) ==
    LET s == node[n]
    IN  /\ Quiet
        /\ b \in Growth /\ Producer[b] = n /\ s.pending # b
        /\ ~s.barrier /\ HighestQc(s) = s.tip /\ Parent[b] = s.tip /\ s.tip # Genesis
        /\ TakesEffect(n, channel, Does([s EXCEPT !.pending = b], ToAll(n, [type |-> "block", b |-> b])))
        /\ UNCHANGED <<losses, restarts>>

\* maybe_finalize_quorum_certificate: the votes for the tip or a parked child suffice,
\* and rivals have not been certified.
Certify(n, b) ==
    LET s == node[n]
        t == [s EXCEPT !.certs = @ \cup {b}, !.tip = b, !.pending = Genesis]
    IN  /\ Quiet
        /\ b \in Growth \ s.certs /\ b \in {s.tip, s.pending}
        /\ \A p \in Live : \A c \in node[p].certs : OnOneChain(b, c)
        /\ TakesEffect(n, channel, AnnounceQc(n, t, b))
        /\ UNCHANGED <<losses, restarts>>

\* run_node: chain and certificates are restored, everything else is new.
Fresh(tip, certs, barrier) ==
    [tip |-> tip, certs |-> certs, pending |-> Genesis, barrier |-> barrier,
     status |-> [p \in Validators |-> NoStatus], served |-> [p \in Validators |-> NoMemo],
     pushed |-> [p \in Validators |-> NoMemo], failed |-> [p \in Validators |-> FALSE],
     askedFor |-> NoMemo, told |-> NoMemo]

Restart(n) ==
    /\ restarts < MaxRestarts
    /\ Quiet
    /\ restarts' = restarts + 1
    /\ node' = [node EXCEPT ![n] = Fresh(@.tip, @.certs \cap Chain[@.tip], @.tip # Genesis)]
    /\ UNCHANGED <<channel, losses>>

-----------------------------------------------------------------------------
\* Nodes come up one by one: each may have been restarted before the run begins.
\* Both nodes run, with a chain each, and may still be behind the barrier of their start.
InitFrom(starts) ==
    /\ \E start \in [Live -> starts], barriers \in [Live -> BOOLEAN] :
          node = [n \in Live |-> Fresh(start[n].tip, start[n].certs,
                                       barriers[n] /\ start[n].tip # Genesis)]
    /\ channel = [p \in Live |-> [q \in Live |-> <<>>]]

Init == InitFrom(Starts) /\ losses = 0 /\ restarts = 0

\* Steps that exchange what is there, and steps that add to it.
Exchange ==
    \E n \in Live :
        \/ \E p \in Live : Deliver(p, n) \/ Lose(p, n)
        \/ SyncTick(n) \/ Elapse(n) \/ Restart(n)
        \/ \E own \in BOOLEAN : SlotTick(n, own)

Grow == \E n \in Live, b \in Growth : Produce(n, b) \/ ProduceParked(n, b) \/ Certify(n, b)

Next == Exchange \/ Grow

Spec == Init /\ [][Next]_vars

\* Channels deliver (weak fairness of Deliver), sync ticks come again and again
\* (strong fairness of SyncTick) and a node behind the barrier gets a slot of its own;
\* with the enabling conditions written out, which TLC finds hard to compute here.
\* Blocks, losses and restarts need not happen.
Fairness ==
    \A n \in Live :
          /\ \A p \in Live : []<>(channel[p][n] = <<>>) \/ []<><<Deliver(p, n)>>_vars
          /\ <>[]~Quiet \/ []<><<SyncTick(n)>>_vars
          /\ <>[]~(Quiet /\ node[n].barrier /\ ~BarrierBlocks(n, node[n])) \/ []<><<SlotTick(n, TRUE)>>_vars
          /\ WF_vars(Elapse(n))

-----------------------------------------------------------------------------
(* Properties.                                                              *)

\* The certificates that nodes start with are of one chain.
StartsAgree == \A s, t \in Starts : \A b \in s.certs, c \in t.certs : OnOneChain(b, c)

\* The exchange spreads certificates and makes none: as long as blocks are certified on one
\* chain only, no payload, push, repair or restart gives two nodes, or one, certificates of
\* rival blocks, whatever is lost or late (apply_chain_snapshot, apply_chain_segment,
\* import_certified_sync_response).
CertificatesOnOneChain ==
    \A n, p \in Live : \A b \in node[n].certs, c \in node[p].certs : OnOneChain(b, c)

\* Exchanges come to an end: whatever statuses, requests, pushes and empty answers the
\* handlers of handle_protocol_message set off, the memos of push_best_sync_to and of the
\* throttle and the fallback of an unavailable response keep them from going on for ever.
ExchangesEnd == []<>Quiet

\* The live nodes end up with one chain, from whatever chains, certificates, barriers and
\* recorded statuses they start: run_sync_maintenance, the pushes to stale peers and the
\* adoption rules (should_adopt_chain_snapshot, should_adopt_chain_segment) repair it.
SyncConverges == <>[](\A n, p \in Live : node[n].tip = node[p].tip)

\* ... and with one certified head: a certificate a node did not get with the blocks
\* (import_certified_sync_response, the votes of a payload) reaches it some other way.
FrontiersConverge == <>[](\A n, p \in Live : HighestQc(node[n]) = HighestQc(node[p]))

\* The startup barrier (startup_sync_blocks_proposal) does not hold a node for ever.
BarrierLifts == \A n \in Live : []<>(~node[n].barrier)
=============================================================================
