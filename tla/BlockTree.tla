----------------------------- MODULE BlockTree -----------------------------
(***************************************************************************)
(* The blocks a run may contain and the static relations between them.     *)
(* A block hash commits to its header, hence to its parent hash, hence to  *)
(* the block's whole ancestry: a block is an opaque value and its ancestry *)
(* is a constant of the run.  The value itself plays the part of the hash: *)
(* a positive integer, ordered as the code orders [u8; 32] hashes, with 0  *)
(* for the all-zero empty_hash() that is the parent of a first block.      *)
(***************************************************************************)
EXTENDS Integers, FiniteSets, FiniteSetsExt

CONSTANTS
    Validators,   \* ids of the validators listed in genesis, integers
    Blocks,       \* hashes of every block proposed during the run
    Parent,       \* header.parent_hash of each block
    Slot,         \* header.slot of each block
    Producer      \* header.proposer_id of each block

\* The hash of "no block": tip of an empty chain, parent of a first block.
Genesis == 0

ASSUME ValidatorsAssumption ==
    /\ Validators \subseteq Nat
    /\ Validators # {}
    /\ IsFiniteSet(Validators)

ASSUME BlocksAssumption ==
    /\ Blocks \subseteq Nat \ {Genesis}
    /\ IsFiniteSet(Blocks)

\* Honest proposers build on a tip of an earlier slot, and one validator owns
\* each slot.
ASSUME TreeAssumption ==
    /\ Parent \in [Blocks -> Blocks \cup {Genesis}]
    /\ Slot \in [Blocks -> Nat \ {0}]
    /\ Producer \in [Blocks -> Validators]
    /\ \A b \in Blocks : Parent[b] # Genesis => Slot[Parent[b]] < Slot[b]
    /\ \A b, c \in Blocks : Slot[b] = Slot[c] => Producer[b] = Producer[c]

\* S contains the parent of each of its blocks.
ParentClosed(S) == \A b \in S : Parent[b] # Genesis => Parent[b] \in S

\* The chain ending in b, as a set: b and all its ancestors, that is, what every
\* parent-closed set that contains b contains; the empty chain for Genesis.
Chain == [b \in Blocks \cup {Genesis} |->
            {c \in Blocks : \A S \in SUBSET Blocks :
                ParentClosed(S) /\ (b # Genesis => b \in S) => c \in S}]

\* header.block_number: a proposer numbers its block one above its tip.
BlockNumber(b) == Cardinality(Chain[b])

SlotOf(b) == IF b = Genesis THEN 0 ELSE Slot[b]

\* One of the two blocks is an ancestor of the other, or they are equal.
OnOneChain(b, c) == b \in Chain[c] \/ c \in Chain[b]

\* quorum_certificate_threshold of a non-empty validator set.
QuorumThreshold == (Cardinality(Validators) * 2) \div 3 + 1

\* Rust's Ord on tuples of one length: the first differing place decides.
LexGreater(x, y) ==
    \E i \in DOMAIN x : x[i] > y[i] /\ \A j \in 1..(i - 1) : x[j] = y[j]

\* max_by(slot, then block_hash) over a non-empty set of blocks.
LatestBlock(S) ==
    CHOOSE b \in S : \A c \in S \ {b} : LexGreater(<<Slot[b], b>>, <<Slot[c], c>>)

\* snapshot_preference of the chain with tip b.
SnapshotPreference(b) == <<BlockNumber(b), SlotOf(b), b>>
=============================================================================
