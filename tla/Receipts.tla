------------------------------ MODULE Receipts ------------------------------
(***************************************************************************)
(* Relay receipts of the node: a witness that gets a message of a          *)
(* validator it is assigned to signs a receipt, receipts are gossiped and  *)
(* reconciled at the end of an epoch, a proposer commits to the receipts   *)
(* about itself in its block, and everyone who imports the block, or a     *)
(* snapshot with it, recomputes the commitment.  A snapshot replaces the   *)
(* receipts of the node that takes it over.                                *)
(*                                                                         *)
(* A receipt is <<event, copy>>: the event is what receipt_event_hash      *)
(* covers, <<source, witness, slot, class>> (the destination is the        *)
(* witness, the epoch follows from the slot, the sequence number from slot *)
(* and class), the copy stands for the transcript digest and the           *)
(* signature.  Signatures verify.                                          *)
(***************************************************************************)
EXTENDS Schedule

CONSTANTS
    Sources,          \* the validators whose messages the instance follows
    Weights,          \* feature_flags.service_score_weights, in percent
    DefaultWeights,   \* default_service_score_weights
    LastService,      \* bound: pulses are sent up to this slot
    MaxSlot, MaxLosses, MaxResends, MaxSnapshots

VARIABLES
    slot,             \* the slot all nodes have processed
    sent,             \* pulses on their way: [to, body]
    receipts,         \* receipts of each node
    net,              \* gossip, fetches and responses on their way: [to, body]
    blocks,           \* blocks: [slot, commitment]
    imported,         \* the blocks a node has applied
    refused,          \* the blocks a node has refused
    losses, resends, snapshots

vars == <<slot, sent, receipts, net, blocks, imported, refused, losses, resends, snapshots>>
store  == <<receipts, net>>
chain  == <<blocks, imported, refused>>
bounds == <<losses, resends, snapshots>>

Epochs == 0 .. EpochForSlot(MaxSlot)

ASSUME ReceiptsAssumption ==
    /\ ScheduleAssumption
    /\ Sources \subseteq Validators
    /\ MaxSlot \in Nat /\ Epochs \subseteq DOMAIN Rotation

WitnessesOf == [v \in Validators |-> [e \in Epochs |-> Witnesses(v, e)]]

\* A RelayReceipt and a HeartbeatPulse.
Receipt(source, witness, s, class, copy) == <<<<source, witness, s, class>>, copy>>
Pulse(source, s, copy) == [source |-> source, slot |-> s, copy |-> copy]

Event(r)   == r[1]
EpochOf(r) == EpochForSlot(r[1][3])
Peers(n)   == Validators \ {n}
To(peers, message) == {[to |-> p, body |-> message] : p \in peers}

-----------------------------------------------------------------------------
\* Seeded defect: only exact copies are recognised, not the event.
PersistExact(held, r) == held \cup {r}

\* persist_receipt: one receipt per event; an exact copy adds nothing either.
Persist(held, r) ==
    IF \E h \in held : Event(h) = Event(r) THEN held ELSE held \cup {r}

\* The same for a list of receipts, one after the other in any order: of several copies of
\* a new event one is kept.
PersistAll(held, more) ==
    LET fresh == {r \in more : Persist(held, r) # held}
        Firsts == {S \in SUBSET fresh :
                    /\ \A r, q \in S : Event(r) = Event(q) => r = q
                    /\ \A r \in fresh : \E q \in S : Event(q) = Event(r)}
    IN  {held \cup S : S \in Firsts}

\* validate_receipt_assignment, and the same test before a receipt is issued.
Assigned(r) == r[1][2] \in WitnessesOf[r[1][1]][EpochOf(r)]

\* store_receipt and the relay that follows it: new receipts go to all peers.
StoreAndRelay(n, r) ==
    LET after == IF Assigned(r) THEN Persist(receipts[n], r) ELSE receipts[n]
    IN  /\ receipts' = [receipts EXCEPT ![n] = after]
        /\ net' = IF after # receipts[n]
                  THEN net \cup To(Peers(n), [type |-> "RelayReceipt", receipt |-> r])
                  ELSE net

\* Seeded defect: the epoch is not looked at.
AboutAnyEpoch(held, v, epoch) == {r \in held : r[1][1] = v}

\* receipts_for_validator.
About(held, v, epoch) == {r \in held : r[1][1] = v /\ EpochOf(r) = epoch}

\* commitment_from_receipts_with_weights: count, peers and relay score of a set
\* of receipts (the root follows from the set); penalties are zero.
Commitment(v, epoch, set, weights) ==
    LET beats == {r[1][3] : r \in {x \in set : x[1][4] = "Heartbeat"}}
        peers == {r[1][2] : r \in set}
    IN  Score(CountersFromReceipts(Cardinality(beats), Cardinality(set), Cardinality(peers),
                                   Cardinality(WitnessesOf[v][epoch]), 0, 0), weights)

\* The TopologyCommitment of a proposer, with the receipts it covers.
CommitmentFor(held, v, epoch) ==
    LET mine == About(held, v, epoch)
    IN  [proposer |-> v, epoch |-> epoch, receipts |-> mine,
         relay |-> Commitment(v, epoch, mine, Weights)]

\* validate_commitment_bundle.
BundleValid(c, weights) ==
    /\ \A r \in c.receipts : r[1][1] = c.proposer /\ EpochOf(r) = c.epoch /\ Assigned(r)
    /\ \A r, q \in c.receipts : Event(r) = Event(q) => r = q
    /\ c.relay = Commitment(c.proposer, c.epoch, c.receipts, weights)

\* validate_commitment, with the weights of the node's configuration.
ValidateCommitment(block) == BundleValid(block.commitment, Weights)

\* The commitment check of validate_snapshot_block.
ValidateInSnapshot(block) == BundleValid(block.commitment, DefaultWeights)

-----------------------------------------------------------------------------
Init ==
    /\ slot = 0
    /\ sent = {}
    /\ receipts = [n \in Validators |-> {}]
    /\ net = {}
    /\ blocks = {}
    /\ imported = [n \in Validators |-> {}]
    /\ refused = [n \in Validators |-> {}]
    /\ losses = 0 /\ resends = 0 /\ snapshots = 0

\* broadcast_heartbeat: once per slot, but last_heartbeat_slot is not kept, so a
\* restarted source sends the pulse of the slot again with a new time.
Heartbeat(v, copy) ==
    /\ v \in Sources /\ slot <= LastService
    /\ \A p \in sent : p.body # Pulse(v, slot, copy)
    /\ IF copy = 0 THEN UNCHANGED resends
       ELSE resends < MaxResends /\ resends' = resends + 1
    /\ sent' = sent \cup To(Peers(v), Pulse(v, slot, copy))
    /\ UNCHANGED <<slot, store, chain, losses, snapshots>>

\* The HeartbeatPulse handler: maybe_issue_receipt.  The pulse stays in sent
\* (the transport may deliver it again).
OnHeartbeat(p) ==
    /\ p \in sent
    /\ StoreAndRelay(p.to, Receipt(p.body.source, p.to, p.body.slot, "Heartbeat", p.body.copy))
    /\ UNCHANGED <<slot, sent, chain, bounds>>

\* The RelayReceipt handler.
OnReceipt(m) ==
    /\ m \in net /\ m.body.type = "RelayReceipt"
    /\ LET after == Persist(receipts[m.to], m.body.receipt)
           fresh == Assigned(m.body.receipt) /\ after # receipts[m.to]
       IN  /\ receipts' = [receipts EXCEPT ![m.to] = IF fresh THEN after ELSE @]
           /\ net' = (net \ {m}) \cup
                (IF fresh THEN To(Peers(m.to), [type |-> "RelayReceipt", receipt |-> m.body.receipt])
                          ELSE {})
    /\ UNCHANGED <<slot, sent, chain, bounds>>

\* The ReceiptFetch handler answers with what it has about the validator.
OnFetch(m) ==
    /\ m \in net /\ m.body.type = "ReceiptFetch"
    /\ net' = (net \ {m}) \cup
        To({m.body.from}, [type |-> "ReceiptResponse",
                      receipts |-> About(receipts[m.to], m.body.from, m.body.epoch)])
    /\ UNCHANGED <<slot, sent, receipts, chain, bounds>>

\* The ReceiptResponse handler stores and does not relay.
OnResponse(m) ==
    /\ m \in net /\ m.body.type = "ReceiptResponse"
    /\ \E after \in PersistAll(receipts[m.to], {r \in m.body.receipts : Assigned(r)}) :
            receipts' = [receipts EXCEPT ![m.to] = after]
    /\ net' = net \ {m}
    /\ UNCHANGED <<slot, sent, chain, bounds>>

Lose(m) ==
    /\ m \in net /\ losses < MaxLosses
    /\ losses' = losses + 1
    /\ net' = net \ {m}
    /\ UNCHANGED <<slot, sent, receipts, chain, resends, snapshots>>

\* The next slot: at the start of an epoch each source fetches the receipts about
\* itself for the epoch that ended (request_receipt_reconciliation).
NextSlot ==
    LET epoch == EpochForSlot(slot + 1)
    IN  /\ slot < MaxSlot
        /\ slot' = slot + 1
        /\ net' = IF epoch = EpochForSlot(slot) THEN net
                  ELSE net \cup UNION {To(Peers(v), [type |-> "ReceiptFetch", from |-> v,
                                                     epoch |-> epoch - 1]) : v \in Sources}
        /\ UNCHANGED <<sent, receipts, chain, bounds>>

\* maybe_propose_block: the commitment covers the proposer's receipts about itself
\* of the epoch before.
Propose(v) ==
    LET epoch == EpochForSlot(slot) - 1
        block == [slot |-> slot, commitment |-> CommitmentFor(receipts[v], v, epoch)]
    IN  /\ v \in Sources
        /\ epoch >= 0
        /\ \A b \in blocks : b.slot # slot
        /\ blocks' = blocks \cup {block}
        /\ imported' = [imported EXCEPT ![v] = @ \cup {block}]
        /\ UNCHANGED <<slot, sent, store, refused, bounds>>

\* accept_block: the bundle is checked, then its receipts are imported
\* (import_commitment_receipts).
ImportBlock(n, block) ==
    /\ block \in blocks \ (imported[n] \cup refused[n])
    /\ IF ValidateCommitment(block)
       THEN /\ imported' = [imported EXCEPT ![n] = @ \cup {block}]
            /\ \E after \in PersistAll(receipts[n], block.commitment.receipts) :
                    receipts' = [receipts EXCEPT ![n] = after]
            /\ UNCHANGED refused
       ELSE /\ refused' = [refused EXCEPT ![n] = @ \cup {block}]
            /\ UNCHANGED <<imported, receipts>>
    /\ UNCHANGED <<slot, sent, net, blocks, bounds>>

\* A peer's full snapshot on its way: its blocks and all its receipts.
SendSnapshot(p, n) ==
    /\ p # n
    /\ snapshots < MaxSnapshots
    /\ snapshots' = snapshots + 1
    /\ net' = net \cup To({n}, [type |-> "SyncResponse", blocks |-> imported[p],
                                receipts |-> receipts[p]])
    /\ UNCHANGED <<slot, sent, receipts, chain, losses, resends>>

\* apply_chain_snapshot of a preferred snapshot: its receipts (validate_snapshot_receipts)
\* and blocks (validate_snapshot_block) are checked, and replace the node's own.
OnSnapshot(m) ==
    /\ m \in net /\ m.body.type = "SyncResponse"
    /\ net' = net \ {m}
    /\ IF /\ \A r \in m.body.receipts : Assigned(r)
          /\ \A r, q \in m.body.receipts : Event(r) = Event(q) => r = q
          /\ \A b \in m.body.blocks : ValidateInSnapshot(b)
       THEN /\ receipts' = [receipts EXCEPT ![m.to] = m.body.receipts]
            /\ imported' = [imported EXCEPT ![m.to] = m.body.blocks]
       ELSE UNCHANGED <<receipts, imported>>
    /\ UNCHANGED <<slot, sent, blocks, refused, bounds>>

Next ==
    \/ \E v \in Sources, copy \in 0 .. 1 : Heartbeat(v, copy)
    \/ \E p \in sent : OnHeartbeat(p)
    \/ \E m \in net : OnReceipt(m) \/ OnFetch(m) \/ OnResponse(m) \/ OnSnapshot(m) \/ Lose(m)
    \/ NextSlot
    \/ \E v \in Sources : Propose(v)
    \/ \E n \in Validators, b \in blocks : ImportBlock(n, b)
    \/ \E p \in Validators, n \in Validators : SendSnapshot(p, n)

Spec == Init /\ [][Next]_vars

-----------------------------------------------------------------------------
(***************************************************************************)
(* Properties.                                                             *)
(***************************************************************************)

\* Types, and receipts only of the assigned witnesses (validate_receipt_assignment).
TypeOK ==
    /\ slot \in 0 .. MaxSlot
    /\ \A n \in Validators :
        /\ \A r \in receipts[n] : r[1][2] \in WitnessesOf[r[1][1]][EpochOf(r)]
        /\ imported[n] \cup refused[n] \subseteq blocks

\* An event counts once for a node, whichever copies of its receipt reach it by
\* gossip, fetch or block and in whatever order (persist_receipt, 1689;
\* import_commitment_receipts, 3185).
EventsCountedOnce ==
    \A n \in Validators : \A r, q \in receipts[n] : Event(r) = Event(q) => r = q

\* What an honest proposer commits to is accepted by everyone, in a block and again in a
\* snapshot: no combination of receipt copies makes a block that its peers refuse
\* (validate_commitment, 3171; validate_commitment_bundle, 5837; validate_snapshot_block,
\* 5782, whose weights are the defaults whatever is configured).
CommitmentsAccepted ==
    \A n \in Validators : refused[n] = {} /\ \A b \in imported[n] : ValidateInSnapshot(b)
=============================================================================
