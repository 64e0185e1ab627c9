-------------------------- MODULE MCConsensusNode --------------------------
(* Instances of ConsensusNode: the block trees of the runs.                  *)
EXTENDS ConsensusNode

\* A race under a certified head: 1 <- 2 <- 4, with 3 the later-slot sibling of 2.
\* Three validators; node 1 owns the slot of block 4.
RaceParent == <<0, 1, 1, 2>>
RaceSlot == <<1, 2, 3, 4>>
RaceProducer == <<2, 3, 2, 1>>

\* The same tree with two validators that both propose.
PairParent == RaceParent
PairSlot == RaceSlot
PairProducer == <<2, 1, 2, 1>>

\* A first block and two rival children, two validators.
ForkParent == <<0, 1, 1>>
ForkSlot == <<1, 2, 3>>
ForkProducer == <<2, 1, 2>>

\* Two first blocks, and a child of the earlier one that node 1 proposes.
RootsParent == <<0, 0, 1>>
RootsSlot == <<1, 2, 3>>
RootsProducer == <<2, 3, 1>>

\* Two rival first blocks.
RivalParent == <<0, 0>>
RivalSlot == <<1, 2>>
RivalProducer == <<1, 2>>
=============================================================================
