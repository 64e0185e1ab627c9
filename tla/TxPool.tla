------------------------------- MODULE TxPool -------------------------------
(***************************************************************************)
(* The transactions of one node: the inbox directory it shares with the    *)
(* process that submits them, admission to the mempool, gossip, selection  *)
(* for a block, removal, reorganisation and restart.                       *)
(*                                                                         *)
(* A chain is the sequence of the transactions of its blocks: where one    *)
(* block ends and the next begins matters to no property, and a block      *)
(* without transactions changes nothing here.                              *)
(***************************************************************************)
EXTENDS Ledger

CONSTANT MaxTxsPerBlock   \* genesis.max_txs_per_block

ASSUME TxPoolAssumption == MaxTxsPerBlock \in Nat

VARIABLES
    up,        \* the process runs
    applied,   \* the transactions of `blocks`, in order
    ledger,    \* self.ledger
    mempool,
    seen,      \* seen_transactions
    certified, \* the chain has a certificate: proposals are parked first
    parked,    \* the transactions of the node's own parked proposal, <<>> if none
    file       \* each transaction's inbox file: "none", "partial" (being written),
               \* "inbox" or "processed"

chainVars == <<applied, ledger, certified, parked>>
poolVars  == <<mempool, seen>>
vars      == <<up, chainVars, poolVars, file>>

\* Types; balances and nonces in particular stay naturals, so no debit of apply_transaction
\* goes below zero, whatever blocks the node applies.
TypeOK ==
    /\ up \in BOOLEAN
    /\ applied \in Seq(Tx)
    /\ ledger \in LedgerState
    /\ mempool \subseteq Tx
    /\ seen \subseteq Tx
    /\ certified \in BOOLEAN
    /\ parked \in Seq(Tx)
    /\ file \in [Tx -> {"none", "partial", "inbox", "processed"}]

-----------------------------------------------------------------------------
(* Admission.                                                               *)

\* Pending transactions of t's sender in pool, by nonce.  The sort is stable over
\* the map's hash order.
PendingOf(pool, t) ==
    SetToSortSeq({p \in pool : From[p] = From[t]},
                 LAMBDA a, b : Nonce[a] < Nonce[b] \/ (Nonce[a] = Nonce[b] /\ a < b))

\* validate_tx_against_mempool.
ValidAgainst(pool, t) == ValidateTx(Simulate(ledger, PendingOf(pool, t)).ledger, t)

\* handle_transaction, on a pool [mempool, seen]: a transaction seen before is
\* ignored, an invalid one refused without a trace.
HandleTransaction(pool, t) ==
    IF t \notin pool.seen /\ ValidAgainst(pool.mempool, t)
    THEN [mempool |-> pool.mempool \cup {t}, seen |-> pool.seen \cup {t}]
    ELSE pool

\* ... and transactions one after the other.
HandleAll(pool, txs) ==
    LET after[i \in 0 .. Len(txs)] ==
            IF i = 0 THEN pool
                     ELSE LET before == after[i - 1] IN HandleTransaction(before, txs[i])
    IN  after[Len(txs)]

SetPool(pool) == mempool' = pool.mempool /\ seen' = pool.seen

\* A TransactionBroadcast from a peer.
ReceiveTransaction(t) ==
    /\ up
    /\ SetPool(HandleTransaction([mempool |-> mempool, seen |-> seen], t))
    /\ UNCHANGED <<up, chainVars, file>>

-----------------------------------------------------------------------------
(* The inbox.                                                               *)

\* fs::write of write_transaction_for_validator creates the file, then fills it.
SubmitCreate(t) ==
    /\ file[t] = "none"
    /\ file' = [file EXCEPT ![t] = "partial"]
    /\ UNCHANGED <<up, chainVars, poolVars>>

SubmitFill(t) ==
    /\ file[t] = "partial"
    /\ file' = [file EXCEPT ![t] = "inbox"]
    /\ UNCHANGED <<up, chainVars, poolVars>>

Inbox == {t \in Tx : file[t] = "inbox"}

\* process_inbox sorts by signer and nonce, then by time of submission, which may be
\* any order of rivals.
InboxOrders ==
    {s \in SetToSeqs(Inbox) :
        \A i, j \in DOMAIN s : i < j =>
            \/ From[s[i]] < From[s[j]]
            \/ From[s[i]] = From[s[j]] /\ Nonce[s[i]] <= Nonce[s[j]]}

\* Every file is parsed before the first is handled.  Each is handled and moved to
\* processed/, whether its transaction was accepted or not.
ProcessInbox ==
    /\ up
    /\ Inbox # {}
    /\ \A t \in Tx : file[t] # "partial"
    /\ \E order \in InboxOrders :
          SetPool(HandleAll([mempool |-> mempool, seen |-> seen], order))
    /\ file' = [t \in Tx |-> IF t \in Inbox THEN "processed" ELSE file[t]]
    /\ UNCHANGED <<up, chainVars>>

\* A file that does not parse ends process_inbox, and with it `run` and the process.
ProcessInboxFails ==
    /\ up
    /\ \E t \in Tx : file[t] = "partial"
    /\ up' = FALSE
    /\ UNCHANGED <<chainVars, poolVars, file>>

-----------------------------------------------------------------------------
(* Blocks.                                                                  *)

\* The entries of a part of the mempool, a map that is sorted by hash.
ByHash(pool) ==
    CHOOSE s \in [1 .. Cardinality(pool) -> pool] : \A i, j \in DOMAIN s : i < j => s[i] < s[j]

\* Seeded defect: one entry fewer than the limit is taken.
SelectOneFewer == SubSeq(ByHash(mempool), 1, Min({MaxTxsPerBlock - 1, Cardinality(mempool)}))
\* select_transactions_for_block: the first entries of the map.
SelectTransactions == SubSeq(ByHash(mempool), 1, Min({MaxTxsPerBlock, Cardinality(mempool)}))

\* The transactions maybe_propose_block puts into a block: those of the selection
\* that validate one after the other.
Proposal == Simulate(ledger, SelectTransactions).accepted

\* accept_block, a block on top of the tip: its transactions leave the mempool.
Extend(txs) ==
    /\ applied' = applied \o txs
    /\ ledger' = Simulate(ledger, txs).ledger
    /\ mempool' = mempool \ Range(txs)
    /\ UNCHANGED seen

\* rebuild_seen_sets: what was seen stays seen, and the chain's transactions are added.
RebuiltSeen(before, txs) == before \cup Range(txs)

\* Seeded defect: the ledger of the abandoned chain stays.
AdoptChainStaleLedger(txs) ==
    /\ applied' = txs
    /\ UNCHANGED ledger
    /\ seen' = RebuiltSeen(seen, txs)
    /\ UNCHANGED mempool
\* adopt_canonical_chain: the chain is replayed from genesis, its transactions become
\* seen, the mempool stays as it is.
AdoptChain(txs) ==
    /\ applied' = txs
    /\ ledger' = Replay(txs)
    /\ seen' = RebuiltSeen(seen, txs)
    /\ UNCHANGED mempool

\* A proposal on an uncertified chain is accepted at once.
Propose ==
    /\ up
    /\ ~certified
    /\ Proposal # <<>>
    /\ Extend(Proposal)
    /\ UNCHANGED <<up, certified, parked, file>>

\* On a certified chain it is parked until its certificate exists ...
ProposeParked ==
    /\ up
    /\ certified /\ parked = <<>>
    /\ Proposal # <<>>
    /\ parked' = Proposal
    /\ UNCHANGED <<up, applied, ledger, certified, poolVars, file>>

\* ... and then adopted by maybe_adopt_certified_branch.
AdoptParked ==
    /\ up
    /\ parked # <<>>
    /\ BlockApplies(ledger, parked)
    /\ AdoptChain(applied \o parked)
    /\ parked' = <<>>
    /\ UNCHANGED <<up, certified, file>>

FirstCertificate ==
    /\ up
    /\ ~certified
    /\ certified' = TRUE
    /\ UNCHANGED <<up, applied, ledger, parked, poolVars, file>>

\* A peer's block on top of the tip; parked children of the old head are void.
PeerBlock(t) ==
    /\ up
    /\ BlockApplies(ledger, <<t>>)
    /\ Extend(<<t>>)
    /\ parked' = <<>>
    /\ UNCHANGED <<up, certified, file>>

\* The chains a peer can present: each transaction at most once, all valid in place.
Histories == {s \in UNION {[1 .. k -> Tx] : k \in 0 .. Cardinality(Tx)} :
                 IsInjective(s) /\ BlockApplies(FromGenesis, s)}

\* A better branch replaces the chain.
Reorganise(txs) ==
    /\ up
    /\ txs # applied
    /\ AdoptChain(txs)
    /\ parked' = <<>>
    /\ UNCHANGED <<up, certified, file>>

\* run_node: blocks and ledger are restored, the mempool is not.
Restart ==
    /\ up' = TRUE
    /\ mempool' = {}
    /\ seen' = RebuiltSeen({}, applied)
    /\ parked' = <<>>
    /\ UNCHANGED <<applied, ledger, certified, file>>

-----------------------------------------------------------------------------
Init ==
    /\ up = TRUE
    /\ applied = <<>>
    /\ ledger = FromGenesis
    /\ mempool = {}
    /\ seen = {}
    /\ certified = FALSE
    /\ parked = <<>>
    /\ file = [t \in Tx |-> "none"]

Submit == \E t \in Tx : SubmitCreate(t) \/ SubmitFill(t)

\* Everything but the replacement of the chain, which then only grows.
ForwardStep ==
    \/ Submit \/ ProcessInbox \/ ProcessInboxFails
    \/ \E t \in Tx : ReceiveTransaction(t) \/ PeerBlock(t)
    \/ Propose \/ ProposeParked \/ AdoptParked \/ FirstCertificate
    \/ Restart

Next == ForwardStep \/ \E txs \in Histories : Reorganise(txs)

Spec == Init /\ [][Next]_vars

\* A running node proposes in its slots and its proposals are certified: weak fairness of
\* Propose, ProposeParked and AdoptParked, whose enabling conditions are written out.
\* Submission, delivery and restarts are not assumed.
Fairness ==
    /\ []<>(~up \/ certified \/ Proposal = <<>>) \/ []<><<Propose>>_vars
    /\ []<>(~up \/ ~certified \/ parked # <<>> \/ Proposal = <<>>) \/ []<><<ProposeParked>>_vars
    /\ []<>(~up \/ parked = <<>> \/ ~BlockApplies(ledger, parked)) \/ []<><<AdoptParked>>_vars

-----------------------------------------------------------------------------
(* Properties.                                                              *)

\* The ledger that accept_block and adopt_canonical_chain update is the one that
\* replay_blocks computes from genesis for the chain the node is on.
LedgerIsReplay == ledger = Replay(applied)

\* On a chain the transactions of an account carry the nonces 0, 1, 2, ... in this order:
\* none is applied twice or ahead of its turn, however often it is submitted, gossiped,
\* proposed or carried over a reorganisation or a restart (handle_transaction, validate_tx).
NoncesInSequence ==
    \A i \in DOMAIN applied :
        Nonce[applied[i]] = Cardinality({j \in 1 .. i - 1 : From[applied[j]] = From[applied[i]]})

\* Transfers move money and neither create nor destroy it (apply_transaction).
SupplyConserved == Supply(ledger) = Supply(FromGenesis)

\* seen_transactions only saves work: a transaction that handle_transaction ignores as seen,
\* and that is not pending, would be refused anyway.
SeenFilterHarmless ==
    \A t \in seen \ mempool : ~ValidAgainst(mempool, t)

\* A pending transaction that the ledger would accept is included in the end by
\* maybe_propose_block, whatever select_transactions_for_block finds before it, unless
\* it becomes invalid, the node stops or a restart empties the mempool.
PendingIncluded ==
    \A t \in Tx :
        t \in mempool /\ ValidateTx(ledger, t)
            ~> \/ t \notin mempool
               \/ t \in Range(applied)
               \/ ~ValidateTx(ledger, t)
               \/ ~up
=============================================================================
