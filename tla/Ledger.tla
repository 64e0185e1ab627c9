------------------------------- MODULE Ledger -------------------------------
(***************************************************************************)
(* LedgerState of entangrid-ledger: balances and nonces, and what a        *)
(* transfer needs and does.  A transaction is its tx_hash, an integer in   *)
(* the order in which the code sorts hashes; its fields are constants.     *)
(***************************************************************************)
EXTENDS Integers, Sequences, FiniteSetsExt, SequencesExt

CONSTANTS
    Account,        \* the accounts, one per validator, by validator id
    Tx,             \* the tx_hash values of a run
    From, To, Amount, Nonce,  \* the fields of each Transaction
    Unsigned,       \* transactions whose hash, source account, signature or
                    \* hybrid-signature policy check fails
    InitialBalance, \* genesis.initial_balances
    BalanceWidth    \* bound: balances are u64, computed modulo this number

ASSUME LedgerAssumption ==
    /\ Account \subseteq Nat /\ IsFiniteSet(Account)
    /\ Tx \subseteq Nat /\ IsFiniteSet(Tx) /\ Unsigned \subseteq Tx
    /\ From \in [Tx -> Account] /\ To \in [Tx -> Account]
    /\ Amount \in [Tx -> Nat] /\ Nonce \in [Tx -> Nat]
    /\ BalanceWidth \in Nat
    /\ InitialBalance \in [Account -> 0 .. BalanceWidth - 1]

LedgerState == [balances : [Account -> 0 .. BalanceWidth - 1], nonces : [Account -> Nat]]

\* LedgerState::from_genesis.
FromGenesis == [balances |-> InitialBalance, nonces |-> [a \in Account |-> 0]]

\* Seeded defect: the nonce is not compared.
ValidateTxAnyNonce(s, t) ==
    /\ t \notin Unsigned
    /\ s.balances[From[t]] >= Amount[t]
\* Seeded defect: the balance is not compared.
ValidateTxNoBalance(s, t) ==
    /\ t \notin Unsigned
    /\ s.nonces[From[t]] = Nonce[t]
\* validate_tx.
ValidateTx(s, t) ==
    /\ t \notin Unsigned
    /\ s.balances[From[t]] >= Amount[t]
    /\ s.nonces[From[t]] = Nonce[t]

\* Seeded defect: the amount is credited but not debited.
ApplyTxNoDebit(s, t) ==
    [balances |-> [s.balances EXCEPT ![To[t]] = (@ + Amount[t]) % BalanceWidth],
     nonces   |-> [s.nonces EXCEPT ![From[t]] = @ + 1]]
\* apply_transaction: both balances are read before either is written, the
\* recipient's last.
ApplyTx(s, t) ==
    [balances |-> [s.balances EXCEPT ![From[t]] = @ - Amount[t],
                                     ![To[t]] = (s.balances[To[t]] + Amount[t]) % BalanceWidth],
     nonces   |-> [s.nonces EXCEPT ![From[t]] = @ + 1]]

\* One transaction of a simulation: applied if it validates, skipped if not.
SimulateTx(r, t) ==
    IF ValidateTx(r.ledger, t)
    THEN [ledger |-> ApplyTx(r.ledger, t), accepted |-> Append(r.accepted, t)]
    ELSE r

\* The transactions of txs in order: the ledger reached and those accepted.
Simulate(s, txs) ==
    LET run[i \in 0 .. Len(txs)] ==
            IF i = 0 THEN [ledger |-> s, accepted |-> <<>>]
                     ELSE LET r == run[i - 1] IN SimulateTx(r, txs[i])
    IN  run[Len(txs)]

\* apply_block on top of s succeeds: every transaction validates where it stands.
\* A block's state_root is the one its proposer simulated.
BlockApplies(s, txs) == Simulate(s, txs).accepted = txs

\* replay_blocks, of all the transactions of a chain in order.
Replay(txs) == Simulate(FromGenesis, txs).ledger

Supply(s) == MapThenSumSet(LAMBDA a : s.balances[a], Account)

=============================================================================
