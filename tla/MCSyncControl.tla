--------------------------- MODULE MCSyncControl ---------------------------
(***************************************************************************)
(* Small instances of SyncControl, two nodes each, checked in one run: a   *)
(* behaviour is one of the instance that its first state picks.  An        *)
(* instance without losses or restarts starts with the bound used up.      *)
(***************************************************************************)
EXTENDS SyncControl

VARIABLE instance

\* 1 - 2 and the rival 3 of 2.
ForkParent   == <<0, 1, 1>>
ForkSlot     == <<1, 2, 3>>
ForkProducer == <<1, 2, 1>>
ForkSupport  == <<1, 1, 1>>

AllStarts == {[tip |-> t, certs |-> c] : t \in Hash, c \in SUBSET Blocks}
\* Any chain, with a certificate for block 1 or without.
ForkStarts == {s \in AllStarts : s.certs \subseteq Chain[s.tip] /\ s.certs \subseteq {1}}
\* Chains all of whose blocks are certified.
CertifiedStarts == {s \in AllStarts : s.tip \in {0, 1, 2} /\ s.certs = Chain[s.tip]}
AnchoredStarts  == {s \in CertifiedStarts : s.tip # 0}
RunStarts       == ForkStarts \cup CertifiedStarts

\* The hypothesis of the theorem about certificates holds for these chains.
ASSUME StartsAgree

MCInit ==
    \/ /\ instance = "pair" /\ InitFrom(ForkStarts)
       /\ losses = MaxLosses /\ restarts = MaxRestarts
    \/ /\ instance = "lossy" /\ InitFrom(AnchoredStarts)
       /\ losses = 0 /\ restarts = 0
    \/ /\ instance = "growing" /\ InitFrom(CertifiedStarts)
       /\ losses = MaxLosses /\ restarts = MaxRestarts

MCNext ==
    /\ \/ Exchange
       \/ instance = "growing" /\ Grow
    /\ UNCHANGED instance

MCSpec == MCInit /\ [][MCNext]_<<instance, vars>> /\ Fairness

-----------------------------------------------------------------------------
(* Properties.                                                              *)

\* From any two chains, and without loss, the nodes get to one chain, and then fall silent
\* (run_sync_maintenance, should_adopt_chain_snapshot, should_adopt_chain_segment).
PairSettles == instance = "pair" => SyncConverges /\ ExchangesEnd

\* From certified chains, with losses and a restart or while the chains grow, the nodes get
\* to one certified head, and the restarted one past its startup barrier
\* (import_certified_sync_response, startup_sync_blocks_proposal).  On the way there no node
\* gets certificates of rival blocks.
CertifiedRecover ==
    /\ []CertificatesOnOneChain
    /\ instance # "pair" => FrontiersConverge /\ ExchangesEnd
    /\ instance = "lossy" => BarrierLifts
=============================================================================
