---------------------------- MODULE MCNodeState ----------------------------
(***************************************************************************)
(* Small instances of what one node keeps: its ledger and mempool (TxPool) *)
(* and its files (Storage), checked in one run.  A behaviour is one of the *)
(* instance that its first state picks, and the variables of the other     *)
(* component keep their values.                                            *)
(***************************************************************************)
EXTENDS TxPool, Storage

VARIABLE instance

\* 1 follows 2 or its rival 3; 4 spends what 2 or 3 sends and is not signed.
RivalFrom   == <<1, 1, 1, 2>>
RivalTo     == <<2, 2, 2, 1>>
RivalAmount == <<1, 1, 3, 1>>
RivalNonce  == <<1, 0, 0, 0>>
Balances    == <<3, 0>>

\* A chain of two blocks and a rival first block.
ForkParent   == <<0, 1, 0>>
ForkSlot     == <<1, 2, 3>>
ForkProducer == <<1, 2, 1>>

MCInit ==
    /\ instance \in {"reorganising", "forward", "orderly", "killed"}
    /\ Init
    /\ StorageInit

\* Orderly stops with every block, and kills at any point of a write with every receipt:
\* bounds on what else happens in these two instances.
OrderlyBound == ~killed' /\ stops' <= 2 /\ receipts' \subseteq {101}
KilledBound  == tip' \in {0, 1}

MCNext ==
    /\ \/ instance = "reorganising" /\ Next /\ UNCHANGED stored
       \/ instance = "forward" /\ ForwardStep /\ UNCHANGED stored
       \/ instance = "orderly" /\ StorageNext /\ OrderlyBound /\ UNCHANGED vars
       \/ instance = "killed" /\ StorageNext /\ KilledBound /\ UNCHANGED vars
    /\ UNCHANGED instance

MCSpec ==
    /\ MCInit /\ [][MCNext]_<<instance, vars, stored>>
    /\ instance = "forward" => Fairness

-----------------------------------------------------------------------------
(* Properties.                                                              *)

\* The state of both components is well typed; balances are natural numbers (TxPool), and
\* the tip a restart restores is a block (Storage).
ComponentsTyped == TypeOK /\ StorageTypeOK

\* As long as the chain only grows, no transaction is left behind: what handle_transaction
\* ignores as seen, and is not pending, would be refused anyway, and a pending transaction
\* that stays valid is included (select_transactions_for_block).
NoneLeftBehind == instance = "forward" => []SeenFilterHarmless /\ PendingIncluded
=============================================================================
