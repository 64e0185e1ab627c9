--------------------------- MODULE ServiceEvidence ---------------------------
(***************************************************************************)
(* Service evidence of consensus V2: witnesses collect receipts about a    *)
(* subject, attest what they saw of an epoch two epochs after it ended,    *)
(* aggregators join the attestations, everyone merges the aggregates, and  *)
(* a proposer reads its own confirmed score before it uses its slot.       *)
(*                                                                         *)
(* An attestation is its counters under the key <<subject, epoch>> and its *)
(* committee member; signatures verify.  An aggregate is the set of        *)
(* attestations it holds: root and counters follow from them.              *)
(***************************************************************************)
EXTENDS Schedule

CONSTANTS
    Subjects,        \* the validators whose service the instance follows,
    Followed,        \* and the epochs it follows it in
    Weights,         \* feature_flags.service_score_weights, in percent
    Window,          \* feature_flags.service_score_window_epochs
    StartEpoch,      \* feature_flags.service_gating_start_epoch
    Threshold,       \* feature_flags.service_gating_threshold, in percent
    Lag,             \* bound: slots a node may fall behind the clock
    Delay,           \* bound: slots after which a receipt is no longer issued;
                     \* with Settled every receipt is issued within them
    Settled,
    LastService,     \* bound: the subjects send messages up to this slot
    Classes,         \* message classes that are receipted, with "Heartbeat"
    StartSlot,       \* the slot the instance starts in
    MayRestart,      \* the nodes that may be restarted or take over a snapshot
    MaxSlot, MaxLosses, MaxRestarts, MaxSnapshots

Slots  == 0 .. MaxSlot
Epochs == 0 .. EpochForSlot(MaxSlot)

ASSUME ServiceEvidenceAssumption ==
    /\ ScheduleAssumption
    /\ Subjects \subseteq Validators /\ MayRestart \subseteq Validators
    /\ Followed \subseteq Epochs /\ Epochs \subseteq DOMAIN Rotation
    /\ IsFiniteSet(Classes)
    /\ StartSlot \in 0 .. MaxSlot /\ MaxSlot \in Nat
    /\ Window \in Nat /\ Delay \in Nat /\ LastService \in Int
    /\ Weights \in [{"uptime", "delivery", "diversity", "penalty"} -> Nat] /\ Threshold \in 0 .. 100

VARIABLES
    now,             \* the slot of the wall clock
    slot,            \* last_processed_slot, -1 for None
    logged,          \* last_logged_epoch, -1 for None
    receipts,        \* the <<subject, slot, class>> a node has issued receipts for
    book,            \* service_attestations: key -> committee member -> counters
    aggregates,      \* service_aggregates: key -> the attestations in it
    scores,          \* a subject's own entry in latest_service_scores, with
                     \* metrics.last_completed_service_epoch; None if there is none
    gate,            \* what the gate of a subject said in its last live slot
    net,             \* messages on their way
    losses, restarts, snapshots

vars == <<now, slot, logged, receipts, book, aggregates, scores, gate, net,
          losses, restarts, snapshots>>

Keys == Subjects \X Followed
None == <<>>

CommitteeOf   == [key \in Subjects \X Epochs |-> Committee(key[1], key[2])]
AggregatorsOf == [key \in Keys |-> Aggregators(key[1], key[2])]
QuorumOf      == [key \in Keys |-> CommitteeThreshold(key[1], key[2])]

-----------------------------------------------------------------------------
(***************************************************************************)
(* Receipts and attestations.                                              *)
(***************************************************************************)

\* counters_for_validator_from_observer over the node's own receipts.
Observed(n, key) ==
    LET mine  == {r \in receipts[n] : r[1] = key[1] /\ EpochForSlot(r[2]) = key[2]}
        beats == {r \in mine : r[3] = "Heartbeat"}
    IN  CountersFromObserver(Cardinality(beats), Cardinality(mine))

\* service_counters_dominate.
Dominates(c, d) ==
    /\ \A f \in {"windows", "expected", "expectedPeers"} : c[f] = d[f]
    /\ \A f \in CounterFields : c[f] >= d[f]

\* A member's counters in place of what it attested before.
Put(attestations, member, counters) ==
    [m \in DOMAIN attestations \cup {member} |-> IF m = member THEN counters ELSE attestations[m]]

\* Seeded defect: the last attestation to arrive is kept.
InsertLast(attestations, member, counters) == Put(attestations, member, counters)

\* insert_service_attestation: a member's attestation is replaced only by one
\* that dominates it.  An attestation seen before was stored once, so what is
\* stored now dominates it: the set of seen ids decides nothing further.
Insert(attestations, member, counters) ==
    IF /\ member \in DOMAIN attestations
       /\ \/ Dominates(attestations[member], counters)
          \/ ~Dominates(counters, attestations[member])
    THEN attestations
    ELSE Put(attestations, member, counters)

\* merge_service_aggregate inserts each attestation of an aggregate.
InsertAll(attestations, more) ==
    [m \in DOMAIN attestations \cup DOMAIN more |->
        IF m \in DOMAIN more THEN Insert(attestations, m, more[m])[m]
                             ELSE attestations[m]]

\* validate_service_attestation.
AttestationValid(key, member) == member \in CommitteeOf[key]

\* is_well_formed (root, counters, subject and epoch follow from the attestations).
WellFormed(attestations) == attestations # None

\* validate_service_aggregate: attestations of enough different committee members.
AggregateValid(key, attestations) ==
    /\ WellFormed(attestations)
    /\ \A m \in DOMAIN attestations : AttestationValid(key, m)
    /\ Cardinality(DOMAIN attestations) >= QuorumOf[key]

\* build_service_aggregate: None below the committee's threshold.
Build(key, attestations) == IF AggregateValid(key, attestations) THEN attestations ELSE None

\* insert_service_aggregate.
InsertAggregate(held, canonical) == IF canonical = None THEN held ELSE canonical

\* merge_service_aggregate: the canonical aggregate is rebuilt from the book.
Merge(key, attestations, held) == InsertAggregate(held, Build(key, attestations))

\* A member's own attestation and an aggregate, to each of some peers.
AttestationTo(peers, key, member, counters) ==
    {[type |-> "ServiceAttestation", key |-> key, attestations |-> [m \in {member} |-> counters],
      to |-> p] : p \in peers}

AggregateTo(peers, key, attestations) ==
    {[type |-> "ServiceAggregate", key |-> key, attestations |-> attestations, to |-> p] : p \in peers}

\* Seeded defect: an aggregate is published once and never improved.
PublishesOnce(n, key, attestations) ==
    /\ n \in AggregatorsOf[key]
    /\ Build(key, attestations) # None
    /\ aggregates[n][key] = None

\* maybe_publish_service_aggregate over a book: the aggregate that is published.
Publishes(n, key, attestations) ==
    /\ n \in AggregatorsOf[key]
    /\ Build(key, attestations) # None
    /\ aggregates[n][key] # attestations

\* emit_service_attestations_for_completed_epoch for each epoch of a range.
AttestKeys(n, epochs) ==
    {key \in Keys : key[2] \in epochs /\ key[1] # n /\ n \in CommitteeOf[key]}

\* refresh_recent_service_attestations: up to three epochs back, and as far
\* again as the score window reaches.
AttestableEpochs(epoch) ==
    IF epoch <= 2 THEN {}
    ELSE Max({epoch - 3 - (Max({Window, 1}) - 1), 0}) .. epoch - 3

EmitAttestations(n, keys) ==
    LET after   == [key \in keys |-> Insert(book[n][key], n, Observed(n, key))]
        changed == {key \in keys : after[key] # book[n][key]}
        publish == {key \in keys : Publishes(n, key, after[key])}
    IN  /\ book' = [book EXCEPT ![n] =
                        [key \in Keys |-> IF key \in keys THEN after[key] ELSE @[key]]]
        /\ aggregates' = [aggregates EXCEPT ![n] =
                        [key \in Keys |-> IF key \in publish THEN after[key] ELSE @[key]]]
        /\ net' = net
            \cup (UNION {AttestationTo(AggregatorsOf[key] \ {n}, key, n, after[key][n]) : key \in changed})
            \cup (UNION {AggregateTo(Validators \ {n}, key, after[key]) : key \in publish})

-----------------------------------------------------------------------------
(***************************************************************************)
(* The proposer's gate.                                                    *)
(***************************************************************************)

\* latest_service_aggregate_before_epoch, as a set of at most one epoch.
LatestBefore(held, subject, epoch) ==
    LET known == {e \in Followed \cap (0 .. epoch - 1) : held[<<subject, e>>] # None}
    IN  IF known = {} THEN {} ELSE {Max(known)}

\* The epochs of the score window that have an aggregate, with their weights;
\* when there is none, the latest aggregate of any earlier epoch.
Evidence(held, subject, epoch) ==
    LET first  == Max({epoch - Max({Window, 1}), 0})
        recent == {e \in Followed \cap (first .. epoch - 1) : held[<<subject, e>>] # None}
    IN  IF recent # {} THEN [e \in recent |-> e - first + 1]
                       ELSE [e \in LatestBefore(held, subject, epoch) |-> 1]

AggregateCounters(attestations) ==
    FoldSet(LAMBDA m, sum : AddCounters(sum, attestations[m]), NoCounters,
            DOMAIN attestations)

\* weighted_recent_service_evidence_before_epoch: the score.
ConfirmedScore(held, subject, epoch) ==
    LET weight == Evidence(held, subject, epoch)
        sum    == FoldSet(LAMBDA e, acc :
                            AddCounters(acc, ScaleCounters(
                                AggregateCounters(held[<<subject, e>>]), weight[e])),
                          NoCounters, DOMAIN weight)
    IN  Score(sum, Weights)

\* refresh_service_scores: without evidence the score stays what it was.
Refreshed(old, held, subject, epoch) ==
    IF epoch = 0 THEN <<0, <<1, 1>>>>
    ELSE IF DOMAIN Evidence(held, subject, epoch) = {} THEN old
    ELSE <<Max(DOMAIN Evidence(held, subject, epoch)), ConfirmedScore(held, subject, epoch)>>

Refresh(n, held, epoch) ==
    scores' = IF n \in Subjects
              THEN [scores EXCEPT ![n] = Refreshed(@, held, n, epoch)] ELSE scores

\* Seeded defect: a low score is taken for missing evidence.
GateLenient(held, subject, epoch) ==
    IF epoch < StartEpoch THEN "warmup"
    ELSE IF Below(ConfirmedScore(held, subject, epoch), Threshold) THEN "no evidence"
    ELSE "allow"

\* Seeded defect: missing evidence is taken for a low score.
GateUnproven(held, subject, epoch) ==
    IF epoch < StartEpoch THEN "warmup"
    ELSE IF Below(ConfirmedScore(held, subject, epoch), Threshold) THEN "reject"
    ELSE "allow"

\* v2_gating_state, with the warm-up before it.
Gate(held, subject, epoch) ==
    IF epoch < StartEpoch THEN "warmup"
    ELSE IF epoch = 0 \/ DOMAIN Evidence(held, subject, epoch) = {} THEN "no evidence"
    ELSE IF Below(ConfirmedScore(held, subject, epoch), Threshold) THEN "reject"
    ELSE "allow"

-----------------------------------------------------------------------------
\* The receipts that witnesses owe for messages of the subjects up to slot t.
Owed(t) ==
    {o \in Validators \X Subjects \X Slots :
        LET epoch == EpochForSlot(o[3])
        IN  /\ o[3] <= Min({t, LastService}) /\ epoch \in Followed
            /\ o[1] \in CommitteeOf[<<o[2], epoch>>]
            /\ <<o[2], o[3], "Heartbeat">> \notin receipts[o[1]]}

Init ==
    /\ now = StartSlot
    /\ slot = [n \in Validators |-> StartSlot - 1]
    /\ logged = [n \in Validators |->
                    IF StartSlot = 0 THEN -1 ELSE EpochForSlot(StartSlot - 1)]
    /\ receipts \in [Validators -> SUBSET (Subjects \X (0 .. StartSlot - 1) \X Classes)]
    /\ \A w \in Validators : \A r \in receipts[w] :
        /\ w \in CommitteeOf[<<r[1], EpochForSlot(r[2])>>]
        /\ EpochForSlot(r[2]) \in Followed /\ r[2] <= LastService
    /\ Settled => Owed(StartSlot - 1 - Delay) = {}
    /\ book = [n \in Validators |-> [key \in Keys |-> None]]
    /\ aggregates = [n \in Validators |-> [key \in Keys |-> None]]
    /\ scores = [n \in Subjects |-> None]
    /\ gate = [n \in Validators |-> "none"]
    /\ net = {}
    /\ losses = 0
    /\ restarts = 0
    /\ snapshots = 0

\* The wall clock enters the next slot.
Elapse ==
    /\ now < MaxSlot
    /\ \A n \in Validators : now - slot[n] < Lag
    /\ Settled => Owed(now - Delay) = {}
    /\ now' = now + 1
    /\ UNCHANGED <<slot, logged, receipts, book, aggregates, scores, gate, net, losses, restarts, snapshots>>

\* maybe_issue_receipt: witness w gets a message that subject s sent in slot t.
\* The event is receipted once; the receipt is on disk before the handler ends.
IssueReceipt(w, s, t, class) ==
    /\ w # s
    /\ w \in CommitteeOf[<<s, EpochForSlot(t)>>]
    /\ EpochForSlot(t) \in Followed
    /\ now - Delay <= t /\ t <= now /\ t <= LastService
    /\ <<s, t, class>> \notin receipts[w]
    /\ receipts' = [receipts EXCEPT ![w] = @ \cup {<<s, t, class>>}]
    /\ UNCHANGED <<now, slot, logged, book, aggregates, scores, gate, net, losses, restarts, snapshots>>

\* pending_slots_to_process.
PendingSlots(n) == slot[n] + 1 .. now

\* process_slot_tick: the slots since the last tick are worked off, but only
\* the newest one is live.  The first slot of a new epoch marks the epoch as
\* entered; only if that slot is live are attestations emitted.
Tick(n) ==
    LET before  == IF now - 1 \in PendingSlots(n) THEN EpochForSlot(now - 1) ELSE logged[n]
        epoch   == EpochForSlot(now)
        enters  == before # epoch
    IN  /\ slot[n] # now
        /\ slot' = [slot EXCEPT ![n] = now]
        /\ logged' = [logged EXCEPT ![n] = epoch]
        /\ IF enters
           THEN EmitAttestations(n, AttestKeys(n, AttestableEpochs(epoch)))
           ELSE UNCHANGED <<book, aggregates, net>>
        /\ Refresh(n, aggregates'[n], epoch)
        /\ gate' = IF n \in Subjects
                   THEN [gate EXCEPT ![n] = Gate(aggregates'[n], n, epoch)] ELSE gate
        /\ UNCHANGED <<now, receipts, losses, restarts, snapshots>>

\* handle_protocol_message for a ServiceAttestation: it is stored, and an
\* aggregator that now has enough of them publishes.
OnAttestation(n, m) ==
    LET valid   == \A member \in DOMAIN m.attestations : AttestationValid(m.key, member)
        after   == IF valid THEN InsertAll(book[n][m.key], m.attestations) ELSE book[n][m.key]
        publish == Publishes(n, m.key, after)
    IN  /\ book' = [book EXCEPT ![n][m.key] = after]
        /\ aggregates' = [aggregates EXCEPT ![n][m.key] = IF publish THEN after ELSE @]
        /\ net' = (net \ {m}) \cup
                    IF publish THEN AggregateTo(Validators \ {n}, m.key, after) ELSE {}

\* handle_protocol_message for a ServiceAggregate (import_service_aggregate; a certified
\* sync response hands its aggregates to the same): nothing is sent on.
OnAggregate(n, m) ==
    LET after == IF AggregateValid(m.key, m.attestations)
                 THEN InsertAll(book[n][m.key], m.attestations) ELSE book[n][m.key]
    IN  /\ book' = [book EXCEPT ![n][m.key] = after]
        /\ aggregates' = [aggregates EXCEPT ![n][m.key] = Merge(m.key, after, @)]
        /\ net' = net \ {m}

Deliver(m) ==
    /\ m \in net
    /\ IF m.type = "ServiceAttestation" THEN OnAttestation(m.to, m) ELSE OnAggregate(m.to, m)
    /\ IF m.type = "ServiceAggregate" \/ aggregates' # aggregates
       THEN Refresh(m.to, aggregates'[m.to], EpochForSlot(Max({slot[m.to], 0})))
       ELSE UNCHANGED scores
    /\ UNCHANGED <<now, slot, logged, receipts, gate, losses, restarts, snapshots>>

Lose(m) ==
    /\ m \in net
    /\ losses < MaxLosses
    /\ losses' = losses + 1
    /\ net' = net \ {m}
    /\ UNCHANGED <<now, slot, logged, receipts, book, aggregates, scores, gate, restarts, snapshots>>

\* run_node: receipts and attestations are read back, and an aggregate that was
\* on disk is rebuilt from all attestations (restore_service_evidence).  The
\* node resumes one slot back, or in this one if its tip is of this slot.
RestoreEvidence(attestations, held) ==
    [key \in Keys |-> IF held[key] = None THEN None ELSE Merge(key, attestations[key], None)]

Restart(n) ==
    /\ restarts < MaxRestarts
    /\ restarts' = restarts + 1
    /\ \E last \in {now - 1, now} : slot' = [slot EXCEPT ![n] = last]
    /\ logged' = [logged EXCEPT ![n] = -1]
    /\ aggregates' = [aggregates EXCEPT ![n] = RestoreEvidence(book[n], @)]
    /\ scores' = IF n \in Subjects THEN [scores EXCEPT ![n] = None] ELSE scores
    /\ UNCHANGED <<now, receipts, book, gate, net, losses, snapshots>>

\* apply_chain_snapshot: a node that adopts a peer's full snapshot takes over the
\* peer's receipts in place of its own.  Of the receipts the node issued itself the
\* peer has those that gossip brought to it.
ApplySnapshot(n) ==
    /\ snapshots < MaxSnapshots
    /\ snapshots' = snapshots + 1
    /\ \E known \in SUBSET receipts[n] : receipts' = [receipts EXCEPT ![n] = known]
    /\ UNCHANGED <<now, slot, logged, book, aggregates, scores, gate, net, losses, restarts>>

Next ==
    \/ Elapse
    \/ \E w \in Validators, s \in Subjects, t \in Slots, c \in Classes : IssueReceipt(w, s, t, c)
    \/ \E n \in Validators : Tick(n)
    \/ \E m \in net : Deliver(m)
    \/ \E m \in net : Lose(m)
    \/ \E n \in MayRestart : Restart(n)
    \/ \E n \in MayRestart : ApplySnapshot(n)

Spec == Init /\ [][Next]_vars

\* The clock runs, the node's interval timer fires (weak fairness of Tick) and
\* the transport delivers what it has not dropped (weak fairness of Deliver).
\* Within the bounds a run has finitely many of either step, so weak fairness
\* says that they are disabled again and again.
Fairness ==
    /\ WF_vars(Elapse)
    /\ \A n \in Validators : []<>(slot[n] = now)
    /\ []<>(net = {})

-----------------------------------------------------------------------------
(***************************************************************************)
(* Properties.                                                             *)
(***************************************************************************)

\* One attests at least what the other does, of each of its members.
Extends(attestations, more) ==
    \A m \in DOMAIN attestations :
        m \in DOMAIN more /\ Dominates(more[m], attestations[m])

\* What stands in an aggregate stands in the book as well, which then has a quorum of the
\* committee: it can be rebuilt from the book alone (build_service_aggregate,
\* restore_service_evidence).
BackedBy(key, attestations, held) ==
    /\ DOMAIN attestations \subseteq CommitteeOf[key]
    /\ Extends(held, attestations)
    /\ held # None => AggregateValid(key, attestations)

EvidenceBacked ==
    \A n \in Validators, key \in Keys : BackedBy(key, book[n][key], aggregates[n][key])

\* Types, and evidence is backed.
TypeOK ==
    /\ now \in Slots
    /\ \A n \in Validators : slot[n] \in -1 .. now /\ logged[n] \in -1 .. EpochForSlot(now)
    /\ \A n \in Validators, key \in Keys : \A held \in {book[n][key], aggregates[n][key]} :
        held \in [DOMAIN held -> [CounterFields -> Nat]]
    /\ EvidenceBacked
    /\ losses \in 0 .. MaxLosses
    /\ restarts \in 0 .. MaxRestarts

\* No order of arrival, repetition, loss or restart takes evidence back: the
\* aggregate a node holds for a subject and epoch keeps its committee members,
\* and their counters only rise (insert_service_attestation, 5138;
\* restore_service_evidence, 5001).
EvidenceKept ==
    \A n \in Validators : \A key \in DOMAIN aggregates[n] :
        Extends(aggregates[n][key], aggregates'[n][key])

EvidenceGrows == [][EvidenceKept]_vars

\* Attestations settle to one result whatever the order of their delivery: when
\* nothing was lost and nothing is on its way, all nodes hold the same aggregate
\* (merge_service_aggregate, 5251; maybe_publish_service_aggregate, 5169).
AggregatesSettle ==
    (net = {} /\ losses = 0) =>
        \A n, p \in Validators : aggregates[n] = aggregates[p]

\* The instances in which service counts in time: each subject sends through all of the
\* followed epochs, its receipts are there two epochs later, when the epoch is attested, no
\* snapshot takes them away, and the weights of full service reach the threshold.
ServedInTime ==
    /\ Settled /\ MaxSnapshots = 0 /\ Delay <= 2 * SlotsPerEpoch
    /\ \A e \in Followed : (e + 1) * SlotsPerEpoch <= LastService + 1
    /\ Weights.uptime + Weights.delivery + Weights.diversity >= Threshold

\* A subject whose messages all reach its witnesses within Delay slots is never
\* refused its slot, whatever is lost of the attestations, and whoever restarts:
\* attestations wait until the observations have settled
\* (refresh_recent_service_attestations, 5066; v2_gating_state, 3954).
ServedNotRefused == \A n \in Subjects : gate[n] # "reject"

\* What a node reports of its service is what its gate goes by: from its first slot after
\* a start, the score it keeps (latest_service_scores, written by refresh_service_scores
\* from four places) is the one that the evidence it holds gives for its epoch, which
\* v2_gating_state computes anew.
ReportedScoreCurrent ==
    \A n \in Subjects :
        LET epoch == EpochForSlot(slot[n])
        IN  scores[n] # None /\ epoch > 0 /\ DOMAIN Evidence(aggregates[n], n, epoch) # {} =>
                scores[n] = <<Max(DOMAIN Evidence(aggregates[n], n, epoch)),
                              ConfirmedScore(aggregates[n], n, epoch)>>

\* A subject that its witnesses never hear of ends up refused
\* (v2_gating_state, 3954, reached from emit_service_attestations, 5020).
SilentIsRejected ==
    \A s \in Subjects :
        [](\A w \in Validators : \A r \in receipts[w] : r[1] # s)
            => <>[](Gate(aggregates[s], s, EpochForSlot(now)) = "reject")

\* Each committee member attests each epoch, once the epoch has settled
\* (process_slot_tick, 446; refresh_recent_service_attestations, 5066).
EpochsAttested ==
    \A key \in Keys : \A n \in CommitteeOf[key] :
        key[2] <= EpochForSlot(MaxSlot) - 4 => <>(n \in DOMAIN book[n][key])

=============================================================================
