--------------------------- MODULE ConsensusNode ---------------------------
(***************************************************************************)
(* Consensus V2 of entangrid-node: how a NodeRunner accepts blocks, votes, *)
(* certifies, chooses between branches, promotes orphans, applies sync     *)
(* payloads and restarts.                                                  *)
(*                                                                         *)
(* A node runs one event at a time on a single task.  Its handlers call    *)
(* each other recursively (a stored vote may certify a block, which may    *)
(* reorganise the chain, which casts another vote, which is imported ...), *)
(* so a handler is modelled by the stack todo[n] of calls still to be      *)
(* made: an event of node n starts only on an empty stack, and every call  *)
(* is one action that does its own updates and pushes the calls it makes.  *)
(*                                                                         *)
(* The messages of the nodes in Node are kept in the sent* sets, from      *)
(* which they may be received in any order, any number of times or never.  *)
(* The other validators are outside the model and may sign anything.       *)
(***************************************************************************)
EXTENDS BlockTree, Sequences

CONSTANTS
    Node,          \* the validators whose code is modelled
    ServiceGating, \* enable_service_gating, past its start epoch
    MaxRestarts    \* bound: how many restarts a behaviour contains

ASSUME NodeAssumption ==
    /\ Node \subseteq Validators
    /\ ServiceGating \in BOOLEAN
    /\ MaxRestarts \in Nat

VARIABLES
    tip,         \* tip[n]: ledger tip hash; `blocks` is the chain ending there
    pending,     \* pending_certified_children
    orphans,     \* orphan_blocks
    votes,       \* proposal_votes, as a set of <<block, validator>>
    buffered,    \* buffered_proposal_votes, likewise
    qcs,         \* quorum_certificates: the voters of each block's QC, {} if none
    todo,        \* the calls the running handler still has to make
    barrier,     \* startup_sync_barrier: "off", or on and by the peers' sync statuses
                 \* some peer is "ahead", none is but some are missing ("waiting"),
                 \* or all are "level" with the node or behind it
    lastSlot,    \* last_processed_slot, as far as the node owns it
    restarts,    \* number of restarts so far, in all
    sentBlocks, sentVotes, sentQcs   \* what the nodes in Node broadcast

chainVars == <<tip, pending, orphans>>
voteVars  == <<votes, buffered>>
runVars   == <<barrier, lastSlot, restarts>>
sent      == <<sentBlocks, sentVotes, sentQcs>>
vars      == <<chainVars, voteVars, qcs, todo, runVars, sent>>

Vote == Blocks \X Validators

\* One pending call: the function, its block argument, who called accept_block
\* (a "peer" message, the "local" proposer or orphan "promotion"), and the votes
\* it still has to go through.
Ops == {"Accept", "ImportBuffered", "ImportVotes", "LocalVote", "Finalize",
        "FinalizeOrSupport", "AdoptCertified", "BetterChild", "SupportPreferred",
        "CompeteUnlessTip", "CompetingVote", "AdoptPreferred", "VoteTip",
        "ReturnTip", "Accepted", "Broadcast", "Orphaned", "Promote",
        "StoreQcVotes", "InsertQc", "ImportQcs", "QcEnd", "DrainBuffered", "RetainChain"}
Callers == {"peer", "local", "promotion", "none"}

Call == {c \in [op : Ops, b : Blocks \cup {Genesis}, from : Callers, vs : SUBSET Vote] :
            c.op # "Promote" => c.b \in Blocks}

Do(op, b)            == [op |-> op, b |-> b, from |-> "none", vs |-> {}]
DoFrom(op, b, from)  == [op |-> op, b |-> b, from |-> from,   vs |-> {}]
DoVotes(op, b, vs)   == [op |-> op, b |-> b, from |-> "none", vs |-> vs]
VotesFor(b, V)       == {b} \X V

\* The types of a node's chain, block stores and vote books, and of what is in flight.
TypeOK ==
    /\ tip \in [Node -> Blocks \cup {Genesis}]
    /\ pending \in [Node -> SUBSET Blocks]
    /\ orphans \in [Node -> SUBSET Blocks]
    /\ votes \in [Node -> SUBSET Vote]
    /\ buffered \in [Node -> SUBSET Vote]
    /\ qcs \in [Node -> [Blocks -> SUBSET Validators]]
    /\ todo \in [Node -> Seq(Call)]
    /\ barrier \in [Node -> {"off", "waiting", "ahead", "level"}]
    /\ lastSlot \in [Node -> Nat]
    /\ restarts \in Nat
    /\ sentBlocks \subseteq Blocks
    /\ sentVotes \subseteq Vote
    /\ sentQcs \subseteq (Blocks \X SUBSET Validators)

-----------------------------------------------------------------------------
(* What a node knows.                                                       *)

\* known_block searches blocks, pending_certified_children and orphan_blocks.
Known(n) == Chain[tip[n]] \cup pending[n] \cup orphans[n]

\* build_chain_to_tip(b) succeeds: every ancestor of b is known.
Complete(n, b) == Chain[b] \subseteq Known(n)

Voters(n, b) == {v \in Validators : <<b, v>> \in votes[n]}

HasQc(n, b) == qcs[n][b] # {}

\* latest_certified_block of the chain ending in t, Genesis if none.
LatestCertified(n, t) ==
    LET certified == {b \in Chain[t] : HasQc(n, b)}
    IN  IF certified = {} THEN Genesis
        ELSE CHOOSE b \in certified : \A c \in certified : c \in Chain[b]

\* highest_locked_qc_hash, current_certified_head and highest_local_qc all
\* walk the canonical chain down to the first certified block.
CertifiedHead(n) == LatestCertified(n, tip[n])

CertifiedHeadOnly(n) == CertifiedHead(n) # Genesis

IsDirectChildOfHead(n, b) == CertifiedHeadOnly(n) /\ Parent[b] = CertifiedHead(n)

RecoverySyncOnly(n) == barrier[n] = "ahead"

\* preferred_pending_child_for_certified_head, Genesis for None.
PreferredPendingChild(n) ==
    LET children == {b \in pending[n] : IsDirectChildOfHead(n, b)}
    IN  IF children = {} THEN Genesis ELSE LatestBlock(children)

KnownUncertifiedChildren(n) ==
    {b \in Known(n) : ~HasQc(n, b) /\ IsDirectChildOfHead(n, b)}

\* current_uncertified_child_for_certified_head: the canonical block right
\* above the certified head.
CurrentChild(n) == {b \in Chain[tip[n]] : IsDirectChildOfHead(n, b)}

-----------------------------------------------------------------------------
(* Branch quality.                                                          *)

\* Votes counted for b, with the node's own vote added for the block `extra`.
VoteCount(n, b, extra) ==
    Cardinality(Voters(n, b) \cup (IF b = extra THEN {n} ELSE {}))

\* branch_quality_with_extra_tip_vote, of the chain ending in t.
BranchQuality(n, t, extra) ==
    LET certified == LatestCertified(n, t)
        tipVotes  == IF t = Genesis THEN 0 ELSE VoteCount(n, t, extra)
        weight    == IF certified = Genesis
                     THEN tipVotes * BlockNumber(t)
                     ELSE MapThenSumSet(LAMBDA b : BlockNumber(b) * VoteCount(n, b, extra),
                                        Chain[t])
    IN  <<BlockNumber(certified), weight, BlockNumber(t), tipVotes, SlotOf(t), t>>

TipCertified(n, t) == IF t # Genesis /\ HasQc(n, t) THEN 1 ELSE 0

\* compare_branch_quality(candidate, current) == Greater.
Better(n, t, u) ==
    LET ct == LatestCertified(n, t)
        cu == LatestCertified(n, u)
        rank(x, cx) == IF ct = Genesis THEN <<BlockNumber(cx), 0, 0>>
                       ELSE <<BlockNumber(cx), TipCertified(n, x), cx>>
    IN  LexGreater(rank(t, ct) \o BranchQuality(n, t, Genesis),
                   rank(u, cu) \o BranchQuality(n, u, Genesis))

-----------------------------------------------------------------------------
(* The vote book: proposal_votes and buffered_proposal_votes together.      *)

Book(n) == votes[n] \cup buffered[n]

\* branch_relation(b, c) = SameChain.
SameChain(n, b, c) == Complete(n, b) /\ Complete(n, c) /\ OnOneChain(b, c)

\* Seeded defect: a vote moves to any other known block.
CanReplaceVoteFreely(n, b, c) == b # c /\ {b, c} \subseteq Known(n)
\* can_replace_conflicting_proposal_vote, existing vote for b, candidate for c.
\* Before the first QC a vote moves to the node's own tip, off a worse branch or
\* off one of unknown ancestry; afterwards only between two direct children of
\* the certified head, towards the later slot.
CanReplaceVote(n, b, c) ==
    IF ~CertifiedHeadOnly(n)
    THEN /\ b # c
         /\ tip[n] = c
         /\ Complete(n, b) => ~OnOneChain(b, c) /\ Better(n, c, b)
    ELSE /\ BlockNumber(b) = BlockNumber(c)
         /\ ~HasQc(n, b)
         /\ {b, c} \subseteq Known(n)
         /\ IsDirectChildOfHead(n, b)
         /\ IsDirectChildOfHead(n, c)
         /\ Slot[c] > Slot[b]

\* The votes of p's validator for other blocks, those that p evicts, and whether
\* one of the rest conflicts with p (resolve_conflicting_proposal_vote).
RivalVotes(n, p)   == {q \in Book(n) : q[2] = p[2] /\ q[1] # p[1]}
EvictedVotes(n, p) == {q \in RivalVotes(n, p) : CanReplaceVote(n, q[1], p[1])}
\* Seeded defect: votes of unknown ancestry count as compatible.
ConflictingVoteLenient(n, p) ==
    \E q \in RivalVotes(n, p) \ EvictedVotes(n, p) :
        ~ /\ BlockNumber(q[1]) # BlockNumber(p[1])
          /\ Slot[q[1]] # Slot[p[1]]
          /\ Complete(n, q[1]) /\ Complete(n, p[1]) => OnOneChain(q[1], p[1])
ConflictingVote(n, p) ==
    \E q \in RivalVotes(n, p) \ EvictedVotes(n, p) :
        ~ /\ BlockNumber(q[1]) # BlockNumber(p[1])
          /\ Slot[q[1]] # Slot[p[1]]
          /\ SameChain(n, q[1], p[1])

\* local_vote_would_scatter_before_qc.
WouldScatter(n, b) ==
    /\ ~CertifiedHeadOnly(n)
    /\ \E q \in Book(n) : /\ q[2] = n
                          /\ q[1] # b
                          /\ ~SameChain(n, q[1], b)
                          /\ ~CanReplaceVote(n, q[1], b)

\* prune_votes_not_extending_certified_block, applied to the votes in S.
PruneVotes(n, S, b) ==
    {p \in S : \/ p[1] \notin Known(n)
               \/ BlockNumber(p[1]) < BlockNumber(b)
               \/ Complete(n, p[1]) /\ b \in Chain[p[1]]
               \/ p[1] = b}

\* remove_conflicting_votes_for_certified_vote, applied to the votes in S.
DropSameHeightVotes(S, p) ==
    {q \in S : ~(q[2] = p[2] /\ q[1] # p[1] /\ BlockNumber(q[1]) = BlockNumber(p[1]))}

\* BTreeMap iteration over votes: by block hash, then by validator.
FirstVote(S) ==
    CHOOSE p \in S : \A q \in S \ {p} : LexGreater(q, p)

-----------------------------------------------------------------------------
(* The call stack.                                                          *)

Idle(n) == todo[n] = <<>>
Top(n, op) == ~Idle(n) /\ Head(todo[n]).op = op
Arg(n) == Head(todo[n])

\* Replace the call on top by the calls it makes / start a handler.
Calls(n, cs) == todo' = [todo EXCEPT ![n] = cs \o Tail(@)]
Start(n, cs) == todo' = [todo EXCEPT ![n] = cs]

\* `?` in a QC import: unwind to the end of the import.
Unwind(n) ==
    LET s == todo[n]
        ends == {i \in DOMAIN s : s[i].op = "QcEnd"}
    IN  todo' = [todo EXCEPT ![n] =
                   IF ends = {} THEN <<>>
                   ELSE SubSeq(s, (CHOOSE i \in ends : \A j \in ends : i <= j) + 1, Len(s))]

\* Seeded defect: parked children survive a reorganisation.
AdoptChainKeepsPending(n, t) ==
    /\ tip' = [tip EXCEPT ![n] = t]
    /\ orphans' = [orphans EXCEPT ![n] = Known(n) \ (Chain[t] \cup pending[n])]
    /\ pending' = [pending EXCEPT ![n] = @ \ Chain[t]]
\* Seeded defect: of the adopted chain only the tip leaves the orphans.
AdoptChainKeepsOrphans(n, t) ==
    /\ tip' = [tip EXCEPT ![n] = t]
    /\ orphans' = [orphans EXCEPT ![n] = Known(n) \ {t}]
    /\ pending' = [pending EXCEPT ![n] = {}]
\* adopt_canonical_chain: the abandoned blocks join the orphans.
AdoptChain(n, t) ==
    /\ tip' = [tip EXCEPT ![n] = t]
    /\ orphans' = [orphans EXCEPT ![n] = Known(n) \ Chain[t]]
    /\ pending' = [pending EXCEPT ![n] = {}]

-----------------------------------------------------------------------------
(* accept_block.  Blocks come from maybe_propose_block, which simulates     *)
(* them, so hash, signature, proposer, roots and ledger checks succeed;     *)
(* whether the proposer's service score passes is left open.                *)

AcceptDuplicate(n) ==
    /\ Top(n, "Accept")
    /\ Arg(n).b \in Known(n)
    /\ Calls(n, <<>>)
    /\ UNCHANGED <<chainVars, voteVars, qcs, runVars, sent>>

\* The block does not extend the ledger tip.
AcceptCompeting(n) ==
    LET b == Arg(n).b
        from == Arg(n).from
    IN  /\ Top(n, "Accept")
        /\ b \notin Known(n)
        /\ Parent[b] # tip[n]
        /\ orphans' = [orphans EXCEPT ![n] = @ \cup {b}]
        /\ Calls(n, <<Do("ImportBuffered", b)>>
                    \o (IF IsDirectChildOfHead(n, b)
                        THEN <<Do("BetterChild", b), DoFrom("CompeteUnlessTip", b, from)>>
                        ELSE <<Do("CompetingVote", b), Do("Finalize", b),
                               DoFrom("AdoptPreferred", b, from)>>))
        /\ UNCHANGED <<tip, pending, voteVars, qcs, runVars, sent>>

\* It extends the tip, but only certified blocks may extend a certified chain.
AcceptUncertified(n) ==
    LET b == Arg(n).b
        from == Arg(n).from
    IN  /\ Top(n, "Accept")
        /\ b \notin Known(n)
        /\ Parent[b] = tip[n]
        /\ CertifiedHeadOnly(n) /\ ~HasQc(n, b)
        /\ IF IsDirectChildOfHead(n, b)
           THEN /\ pending' = [pending EXCEPT ![n] = @ \cup {b}]
                /\ Calls(n, (IF RecoverySyncOnly(n) THEN <<>>
                             ELSE <<Do("ImportBuffered", b), Do("SupportPreferred", b),
                                    Do("Finalize", b)>>)
                            \o <<Do("BetterChild", b), DoFrom("ReturnTip", b, from)>>)
                /\ UNCHANGED orphans
           ELSE /\ orphans' = [orphans EXCEPT ![n] = @ \cup {b}]
                /\ Calls(n, <<DoFrom("Orphaned", b, from)>>)
                /\ UNCHANGED pending
        /\ UNCHANGED <<tip, voteVars, qcs, runVars, sent>>

\* It extends the tip, but this node's evidence says its proposer's service score is
\* too low: accept_block fails, and a promoted orphan is gone.
AcceptGated(n) ==
    /\ Top(n, "Accept")
    /\ Arg(n).b \notin Known(n)
    /\ Parent[Arg(n).b] = tip[n]
    /\ ServiceGating /\ Arg(n).from # "local"
    /\ Calls(n, <<>>)
    /\ UNCHANGED <<chainVars, voteVars, qcs, runVars, sent>>

AcceptExtension(n) ==
    LET b == Arg(n).b
    IN  /\ Top(n, "Accept")
        /\ b \notin Known(n)
        /\ Parent[b] = tip[n]
        /\ ~CertifiedHeadOnly(n) \/ HasQc(n, b)
        /\ tip' = [tip EXCEPT ![n] = b]
        /\ Calls(n, <<Do("ImportBuffered", b), Do("Finalize", b), Do("LocalVote", b),
                      DoFrom("Accepted", b, Arg(n).from)>>)
        /\ UNCHANGED <<pending, orphans, voteVars, qcs, runVars, sent>>

\* `if tip_hash == block_hash { return Ok(Accepted) }` of the competing path.
CompeteUnlessTip(n) ==
    LET b == Arg(n).b
        from == Arg(n).from
    IN  /\ Top(n, "CompeteUnlessTip")
        /\ Calls(n, IF tip[n] = b THEN <<DoFrom("Accepted", b, from)>>
                    ELSE <<Do("CompetingVote", b), Do("Finalize", b),
                           DoFrom("AdoptPreferred", b, from)>>)
        /\ UNCHANGED <<chainVars, voteVars, qcs, runVars, sent>>

\* maybe_broadcast_vote_for_competing_block.
CanVoteForCompeting(n, b) ==
    /\ Complete(n, Parent[b])
    /\ CertifiedHeadOnly(n) => CertifiedHead(n) \in Chain[Parent[b]]
    /\ ~LexGreater(BranchQuality(n, tip[n], Genesis), BranchQuality(n, b, b))

CompetingVote(n) ==
    /\ Top(n, "CompetingVote")
    /\ Calls(n, IF CanVoteForCompeting(n, Arg(n).b) THEN <<Do("LocalVote", Arg(n).b)>> ELSE <<>>)
    /\ UNCHANGED <<chainVars, voteVars, qcs, runVars, sent>>

\* maybe_adopt_preferred_competing_branch and the return that follows it.
AdoptPreferred(n) ==
    LET b == Arg(n).b
        from == Arg(n).from
    IN  /\ Top(n, "AdoptPreferred")
        /\ IF /\ ~CertifiedHeadOnly(n)
              /\ Complete(n, Parent[b])
              /\ Better(n, b, tip[n])
           THEN /\ AdoptChain(n, b)
                /\ Calls(n, <<Do("VoteTip", b), DoFrom("Accepted", b, from)>>)
           ELSE /\ Calls(n, <<DoFrom("ReturnTip", b, from)>>)
                /\ UNCHANGED chainVars
        /\ UNCHANGED <<voteVars, qcs, runVars, sent>>

ReturnTip(n) ==
    /\ Top(n, "ReturnTip")
    /\ Calls(n, <<DoFrom(IF tip[n] = Arg(n).b THEN "Accepted" ELSE "Orphaned",
                         Arg(n).b, Arg(n).from)>>)
    /\ UNCHANGED <<chainVars, voteVars, qcs, runVars, sent>>

\* What the callers do with BlockAcceptance::Accepted: a received or a locally
\* proposed block is followed by orphan promotion, then it is (re)broadcast.
Accepted(n) ==
    /\ Top(n, "Accepted")
    /\ Calls(n, IF Arg(n).from = "promotion" THEN <<>>
                ELSE <<Do("Promote", Genesis), Do("Broadcast", Arg(n).b)>>)
    /\ UNCHANGED <<chainVars, voteVars, qcs, runVars, sent>>

Broadcast(n) ==
    /\ Top(n, "Broadcast")
    /\ Calls(n, <<>>)
    /\ sentBlocks' = sentBlocks \cup {Arg(n).b}
    /\ UNCHANGED <<chainVars, voteVars, qcs, runVars, sentVotes, sentQcs>>

\* ... and with Orphan: a local proposal parked above the certified head is still
\* broadcast; a received one only makes the node ask its sender for sync.
Orphaned(n) ==
    LET b == Arg(n).b
        parked == IsDirectChildOfHead(n, b) /\ b \in pending[n]
    IN  /\ Top(n, "Orphaned")
        /\ Calls(n, <<>>)
        /\ sentBlocks' = IF Arg(n).from = "local" /\ parked
                         THEN sentBlocks \cup {b} ELSE sentBlocks
        /\ UNCHANGED <<chainVars, voteVars, qcs, runVars, sentVotes, sentQcs>>

\* try_promote_orphans: one round of its loop.  The order of orphan_blocks (that
\* of arrival) is abstracted to a choice.
Promote(n) ==
    LET ready == {b \in orphans[n] : Parent[b] = tip[n]}
    IN  /\ Top(n, "Promote")
        /\ \/ /\ ready = {}
              /\ Calls(n, <<>>)
              /\ UNCHANGED orphans
           \/ \E b \in ready :
                /\ orphans' = [orphans EXCEPT ![n] = @ \ {b}]
                /\ Calls(n, <<DoFrom("Accept", b, "promotion"), Do("Promote", Genesis)>>)
        /\ UNCHANGED <<tip, pending, voteVars, qcs, runVars, sent>>

-----------------------------------------------------------------------------
(* Votes.                                                                   *)

\* import_buffered_proposal_votes_for_block.
ImportBuffered(n) ==
    LET vs == {p \in buffered[n] : p[1] = Arg(n).b}
    IN  /\ Top(n, "ImportBuffered")
        /\ buffered' = [buffered EXCEPT ![n] = @ \ vs]
        /\ Calls(n, <<DoVotes("ImportVotes", Arg(n).b, vs)>>)
        /\ UNCHANGED <<chainVars, votes, qcs, runVars, sent>>

\* store_proposal_vote / store_buffered_proposal_vote once p is known not to
\* conflict: the evicted votes leave both maps, p enters the right one.
StoreVote(n, p) ==
    LET out == EvictedVotes(n, p)
    IN  IF p[1] \in Known(n)
        THEN /\ votes' = [votes EXCEPT ![n] = (@ \ out) \cup {p}]
             /\ buffered' = [buffered EXCEPT ![n] = @ \ out]
        ELSE /\ votes' = [votes EXCEPT ![n] = @ \ out]
             /\ buffered' = [buffered EXCEPT ![n] = (@ \ out) \cup {p}]

\* import_proposal_vote(p) followed by the calls `rest`; errors are logged and
\* dropped by every caller.
ImportVote(n, p, rest) ==
    LET deferred == RecoverySyncOnly(n) /\ p[1] \in pending[n]
        inserted == p \notin (IF p[1] \in Known(n) THEN votes[n] ELSE buffered[n])
    IN  IF deferred \/ ConflictingVote(n, p)
        THEN Calls(n, rest) /\ UNCHANGED <<voteVars, sentVotes>>
        ELSE /\ StoreVote(n, p)
             /\ Calls(n, IF inserted /\ p[1] \in Known(n)
                         THEN <<Do("FinalizeOrSupport", p[1])>> \o rest ELSE rest)
             /\ sentVotes' = IF inserted /\ p[2] = n THEN sentVotes \cup {p} ELSE sentVotes

ImportVotes(n) ==
    LET vs == Arg(n).vs
        p == FirstVote(vs)
    IN  /\ Top(n, "ImportVotes")
        /\ IF vs = {}
           THEN Calls(n, <<>>) /\ UNCHANGED <<voteVars, sentVotes>>
           ELSE ImportVote(n, p, <<DoVotes("ImportVotes", Arg(n).b, vs \ {p})>>)
        /\ UNCHANGED <<chainVars, qcs, runVars, sentBlocks, sentQcs>>

\* maybe_broadcast_local_proposal_vote.
LocalVote(n) ==
    /\ Top(n, "LocalVote")
    /\ IF WouldScatter(n, Arg(n).b)
       THEN Calls(n, <<>>) /\ UNCHANGED <<voteVars, sentVotes>>
       ELSE ImportVote(n, <<Arg(n).b, n>>, <<>>)
    /\ UNCHANGED <<chainVars, qcs, runVars, sentBlocks, sentQcs>>

\* maybe_broadcast_local_vote_for_current_pre_qc_tip.
VoteTip(n) ==
    /\ Top(n, "VoteTip")
    /\ Calls(n, IF CertifiedHeadOnly(n) \/ tip[n] = Genesis THEN <<>>
                ELSE <<Do("LocalVote", tip[n])>>)
    /\ UNCHANGED <<chainVars, voteVars, qcs, runVars, sent>>

\* Only the preferred pending child receives the node's vote.
SupportPreferred(n) ==
    /\ Top(n, "SupportPreferred")
    /\ Calls(n, IF PreferredPendingChild(n) = Arg(n).b THEN <<Do("LocalVote", Arg(n).b)>> ELSE <<>>)
    /\ UNCHANGED <<chainVars, voteVars, qcs, runVars, sent>>

-----------------------------------------------------------------------------
(* Quorum certificates and the branch they select.                          *)

QcCalls(b) == <<Do("AdoptCertified", b), Do("BetterChild", b)>>

\* maybe_build_qc finds enough votes for a known block.
CanCertify(n, b) ==
    /\ b \in Known(n)
    /\ Cardinality(Voters(n, b)) >= QuorumThreshold

\* maybe_finalize_quorum_certificate, and for a freshly imported vote the
\* maybe_adopt_vote_supported_branch taken when it yields no certificate.
FinalizeKnownQc(n) ==
    /\ Top(n, "Finalize") \/ Top(n, "FinalizeOrSupport")
    /\ HasQc(n, Arg(n).b)
    /\ Calls(n, QcCalls(Arg(n).b))
    /\ UNCHANGED <<chainVars, voteVars, qcs, runVars, sent>>

BuildQc(n) ==
    LET b == Arg(n).b
    IN  /\ Top(n, "Finalize") \/ Top(n, "FinalizeOrSupport")
        /\ ~HasQc(n, b)
        /\ CanCertify(n, b)
        /\ qcs' = [qcs EXCEPT ![n][b] = Voters(n, b)]
        /\ votes' = [votes EXCEPT ![n] = PruneVotes(n, @, b)]
        /\ buffered' = [buffered EXCEPT ![n] = PruneVotes(n, @, b)]
        /\ sentQcs' = sentQcs \cup {<<b, Voters(n, b)>>}
        /\ Calls(n, QcCalls(b))
        /\ UNCHANGED <<chainVars, runVars, sentBlocks, sentVotes>>

NoQcYet(n) ==
    LET b == Arg(n).b
    IN  /\ Top(n, "Finalize") \/ Top(n, "FinalizeOrSupport")
        /\ ~HasQc(n, b)
        /\ ~CanCertify(n, b)
        /\ IF /\ Top(n, "FinalizeOrSupport")
              /\ ~CertifiedHeadOnly(n)
              /\ Complete(n, b)
              /\ Better(n, b, tip[n])
           THEN AdoptChain(n, b) /\ Calls(n, <<Do("VoteTip", b)>>)
           ELSE UNCHANGED chainVars /\ Calls(n, <<>>)
        /\ UNCHANGED <<voteVars, qcs, runVars, sent>>

\* Seeded defect: a certified block is adopted without comparing the branches.
CertifiedBranchAlwaysWins(n, b) ==
    /\ Complete(n, b)
    /\ b \notin Chain[tip[n]] \/ b = tip[n]
\* maybe_adopt_certified_branch: never back to a block below the tip.
CertifiedBranchWins(n, b) ==
    /\ Complete(n, b)
    /\ b \notin Chain[tip[n]] \/ b = tip[n]
    /\ Better(n, b, tip[n])

AdoptCertified(n) ==
    LET b == Arg(n).b
    IN  /\ Top(n, "AdoptCertified")
        /\ Calls(n, <<>>)
        /\ IF CertifiedBranchWins(n, b)
           THEN AdoptChain(n, b)
           ELSE UNCHANGED chainVars
        /\ UNCHANGED <<voteVars, qcs, runVars, sent>>

\* maybe_adopt_better_uncertified_child_for_certified_head: the later-slot child
\* replaces the current one; without a current child two rivals are needed.
BetterChild(n) ==
    LET children == KnownUncertifiedChildren(n)
        best == LatestBlock(children)
    IN  /\ Top(n, "BetterChild")
        /\ IF /\ children # {}
              /\ \A c \in CurrentChild(n) : best # c /\ Slot[best] > Slot[c]
              /\ CurrentChild(n) = {} => Cardinality(children) >= 2
              /\ Complete(n, best)
           THEN AdoptChain(n, best) /\ Calls(n, <<Do("LocalVote", best)>>)
           ELSE UNCHANGED chainVars /\ Calls(n, <<>>)
        /\ UNCHANGED <<voteVars, qcs, runVars, sent>>

\* import_quorum_certificate: the certificate's votes are stored one by one, each
\* after its validator's other votes at that height are dropped; a vote the book
\* still refuses makes the whole import fail midway.
StoreQcVotes(n) ==
    LET vs == Arg(n).vs
        p == FirstVote(vs)
        rivals == Book(n) \ DropSameHeightVotes(Book(n), p)
    IN  /\ Top(n, "StoreQcVotes")
        /\ \/ /\ vs = {}
              /\ Calls(n, <<>>)
              /\ UNCHANGED voteVars
           \/ /\ vs # {} /\ rivals # {}
              /\ votes' = [votes EXCEPT ![n] = DropSameHeightVotes(@, p)]
              /\ buffered' = [buffered EXCEPT ![n] = DropSameHeightVotes(@, p)]
              /\ UNCHANGED todo
           \/ /\ vs # {} /\ rivals = {} /\ ConflictingVote(n, p)
              /\ Unwind(n)
              /\ UNCHANGED voteVars
           \/ /\ vs # {} /\ rivals = {} /\ ~ConflictingVote(n, p)
              /\ StoreVote(n, p)
              /\ Calls(n, <<DoVotes("StoreQcVotes", Arg(n).b, vs \ {p})>>)
        /\ UNCHANGED <<chainVars, qcs, runVars, sent>>

InsertQc(n) ==
    LET b == Arg(n).b
    IN  /\ Top(n, "InsertQc")
        /\ IF HasQc(n, b)
           THEN Calls(n, <<>>) /\ UNCHANGED <<voteVars, qcs>>
           ELSE /\ qcs' = [qcs EXCEPT ![n][b] = {p[2] : p \in Arg(n).vs}]
                /\ votes' = [votes EXCEPT ![n] = PruneVotes(n, @, b)]
                /\ buffered' = [buffered EXCEPT ![n] = PruneVotes(n, @, b)]
                /\ Calls(n, QcCalls(b))
        /\ UNCHANGED <<chainVars, runVars, sent>>

QcEnd(n) ==
    /\ Top(n, "QcEnd")
    /\ Calls(n, <<>>)
    /\ UNCHANGED <<chainVars, voteVars, qcs, runVars, sent>>

\* import_certified_sync_response imports the certificates of the suffix bottom up.
ImportQcs(n) ==
    LET vs == Arg(n).vs
        b == CHOOSE x \in {p[1] : p \in vs} : \A p \in vs : Slot[x] <= Slot[p[1]]
        now == {p \in vs : p[1] = b}
    IN  /\ Top(n, "ImportQcs")
        /\ Calls(n, IF vs = {} THEN <<>>
                    ELSE <<DoVotes("StoreQcVotes", b, now), DoVotes("InsertQc", b, now),
                           DoVotes("ImportQcs", Arg(n).b, vs \ now)>>)
        /\ UNCHANGED <<chainVars, voteVars, qcs, runVars, sent>>

-----------------------------------------------------------------------------
(* Sync payloads.                                                           *)

\* Tail of apply_chain_snapshot and apply_chain_segment: buffered votes of the
\* applied blocks, then everything about other blocks is forgotten.
DrainBuffered(n) ==
    LET applied == {p \in buffered[n] : p[1] \in Chain[Arg(n).b]}
    IN  /\ Top(n, "DrainBuffered")
        /\ Calls(n, IF applied = {} THEN <<>>
                    ELSE <<Do("ImportBuffered", FirstVote(applied)[1]), Arg(n)>>)
        /\ UNCHANGED <<chainVars, voteVars, qcs, runVars, sent>>

RetainChain(n) ==
    LET applied == Chain[Arg(n).b]
    IN  /\ Top(n, "RetainChain")
        /\ votes' = [votes EXCEPT ![n] = {p \in @ : p[1] \in applied}]
        /\ buffered' = [buffered EXCEPT ![n] = {p \in @ : p[1] \notin applied}]
        /\ qcs' = [qcs EXCEPT ![n] = [b \in Blocks |-> IF b \in applied THEN @[b] ELSE {}]]
        /\ Calls(n, <<>>)
        /\ UNCHANGED <<chainVars, runVars, sent>>

\* Seeded defect: a sync payload does not clear the orphans.
ApplyChainKeepsOrphans(n, t, vs) ==
    /\ tip' = [tip EXCEPT ![n] = t]
    /\ pending' = [pending EXCEPT ![n] = {}]
    /\ UNCHANGED orphans
    /\ Start(n, <<DoVotes("ImportVotes", t, vs), Do("DrainBuffered", t),
                  Do("RetainChain", t), Do("Promote", Genesis)>>)
\* What apply_chain_snapshot and apply_chain_segment do, up to orphan promotion.
ApplyChain(n, t, vs) ==
    /\ tip' = [tip EXCEPT ![n] = t]
    /\ orphans' = [orphans EXCEPT ![n] = {}]
    /\ pending' = [pending EXCEPT ![n] = {}]
    /\ Start(n, <<DoVotes("ImportVotes", t, vs), Do("DrainBuffered", t),
                  Do("RetainChain", t), Do("Promote", Genesis)>>)

-----------------------------------------------------------------------------
(* Events.  What the outside validators may sign, and what has been sent.   *)

Outside == Validators \ Node

BlockAvailable(b) == b \in sentBlocks \/ Producer[b] \in Outside

VoteAvailable(p) == p \in sentVotes \/ (p[2] \in Outside /\ BlockAvailable(p[1]))

\* Seeded defect: certificates with one signer too few validate.
QuorumsTooSmall == {V \in SUBSET Validators : Cardinality(V) >= QuorumThreshold - 1}
\* validate_quorum_certificate: enough distinct validators signed.
Quorums == {V \in SUBSET Validators : Cardinality(V) >= QuorumThreshold}

QcAvailable(b, V) ==
    \/ <<b, V>> \in sentQcs
    \/ Outside # {} /\ \A v \in V : VoteAvailable(<<b, v>>)

ReceiveProposal(n, b) ==
    /\ Idle(n)
    /\ BlockAvailable(b)
    /\ Start(n, <<DoFrom("Accept", b, "peer")>>)
    /\ UNCHANGED <<chainVars, voteVars, qcs, runVars, sent>>

ReceiveVote(n, p) ==
    /\ Idle(n)
    /\ VoteAvailable(p)
    /\ Start(n, <<DoVotes("ImportVotes", p[1], {p})>>)
    /\ UNCHANGED <<chainVars, voteVars, qcs, runVars, sent>>

\* A certificate for an unknown block is refused (and makes the node ask for sync).
ReceiveQc(n, b, V) ==
    /\ Idle(n)
    /\ QcAvailable(b, V)
    /\ b \in Known(n)
    /\ Start(n, <<DoVotes("ImportQcs", b, VotesFor(b, V)), Do("QcEnd", b)>>)
    /\ UNCHANGED <<chainVars, voteVars, qcs, runVars, sent>>

\* process_slot_tick for a live slot the node does not own, or with
\* pause_slot_production: only orphan promotion touches this state.
TickIdle(n) ==
    /\ Idle(n)
    /\ Start(n, <<Do("Promote", Genesis)>>)
    /\ UNCHANGED <<chainVars, voteVars, qcs, runVars, sent>>

\* startup_sync_blocks_proposal.
BarrierBlocks(n) == barrier[n] \in {"waiting", "ahead"}

OwnSlots(n) == {Slot[b] : b \in {c \in Blocks : Producer[c] = n}}

\* maybe_propose_block in an own slot that the node may not use: the startup barrier
\* holds, or it is lifted and service gating rejects the proposal.
TickMissed(n, s) ==
    /\ Idle(n)
    /\ s \in OwnSlots(n) /\ s > lastSlot[n]
    /\ BarrierBlocks(n) \/ ServiceGating
    /\ lastSlot' = [lastSlot EXCEPT ![n] = s]
    /\ barrier' = [barrier EXCEPT ![n] = IF BarrierBlocks(n) THEN @ ELSE "off"]
    /\ Start(n, <<Do("Promote", Genesis)>>)
    /\ UNCHANGED <<chainVars, voteVars, qcs, restarts, sent>>

\* ... and in a slot it may use: a parked child is re-broadcast, else a block is
\* built on the tip.
TickRebroadcast(n, s) ==
    LET child == PreferredPendingChild(n)
    IN  /\ Idle(n)
        /\ s \in OwnSlots(n) /\ s > lastSlot[n]
        /\ ~BarrierBlocks(n)
        /\ child # Genesis
        /\ lastSlot' = [lastSlot EXCEPT ![n] = s]
        /\ barrier' = [barrier EXCEPT ![n] = "off"]
        /\ sentBlocks' = sentBlocks \cup {child}
        /\ Start(n, <<Do("LocalVote", child), Do("Promote", Genesis)>>)
        /\ UNCHANGED <<chainVars, voteVars, qcs, restarts, sentVotes, sentQcs>>

TickPropose(n, b) ==
    /\ Idle(n)
    /\ Slot[b] > lastSlot[n]
    /\ Producer[b] = n
    /\ ~BarrierBlocks(n)
    /\ PreferredPendingChild(n) = Genesis
    /\ Parent[b] = tip[n]
    /\ b \notin Known(n) \cup sentBlocks
    /\ lastSlot' = [lastSlot EXCEPT ![n] = Slot[b]]
    /\ barrier' = [barrier EXCEPT ![n] = "off"]
    /\ Start(n, <<DoFrom("Accept", b, "local"), Do("Promote", Genesis)>>)
    /\ UNCHANGED <<chainVars, voteVars, qcs, restarts, sent>>

\* Votes a sync payload can carry for the blocks in S: those its sender stored.
SyncVotes(S) == {p \in Vote : p[1] \in S /\ VoteAvailable(p)}

\* The blocks of the chain ending in t, above base.
Suffix(base, t) == Chain[t] \ Chain[base]

\* A peer can hold the chain ending in t.
ChainAvailable(t) == \A b \in Chain[t] : BlockAvailable(b)

\* snapshot_branch_quality of a payload with tip t and votes vs.
SnapshotQuality(t, vs) ==
    LET tipVotes == Cardinality({p \in vs : p[1] = t})
    IN  <<0, tipVotes * BlockNumber(t), BlockNumber(t), tipVotes, SlotOf(t), t>>

\* SyncResponse: should_adopt_chain_snapshot, then apply_chain_snapshot.
ReceiveSnapshot(n, t, vs) ==
    /\ Idle(n)
    /\ ChainAvailable(t)
    /\ IF CertifiedHeadOnly(n)
       THEN LexGreater(SnapshotPreference(t), SnapshotPreference(tip[n]))
       ELSE LexGreater(SnapshotQuality(t, vs), BranchQuality(n, tip[n], Genesis))
    /\ ApplyChain(n, t, vs)
    /\ UNCHANGED <<voteVars, qcs, runVars, sent>>

\* SyncBlocks: should_adopt_chain_segment, sync_repair_base_for_segment (a segment
\* based on the certified head replaces the uncertified suffix, any other must
\* contain the local chain), then apply_chain_segment.
ReceiveSegment(n, base, t, vs) ==
    LET repair == /\ CertifiedHeadOnly(n)
                  /\ base = CertifiedHead(n)
                  /\ tip[n] # CertifiedHead(n)
    IN  /\ Idle(n)
        /\ ChainAvailable(t)
        /\ base \in (Chain[t] \ {t}) \cup {Genesis}
        /\ \/ LexGreater(SnapshotPreference(t), SnapshotPreference(tip[n]))
           \/ repair /\ t # tip[n]
        /\ \/ repair
           \/ base \in Chain[tip[n]] \cup {Genesis} /\ Chain[tip[n]] \subseteq Chain[t]
        /\ ApplyChain(n, t, vs)
        /\ UNCHANGED <<voteVars, qcs, runVars, sent>>

\* CertifiedSyncResponse: blocks with certificates above a shared anchor; cert is
\* the votes of those certificates.  should_adopt_certified_snapshot compares the
\* certified heights first.
ReceiveCertified(n, base, t, cert) ==
    /\ Idle(n)
    /\ ChainAvailable(t)
    /\ base \in (Chain[t] \ {t}) \cup {Genesis}
    /\ base \in Chain[tip[n]] \cup {Genesis}
    /\ \A b \in Suffix(base, t) : QcAvailable(b, cert[b])
    /\ LexGreater(<<BlockNumber(t)>> \o SnapshotPreference(t),
                  <<BlockNumber(CertifiedHead(n))>> \o SnapshotPreference(tip[n]))
    /\ AdoptChain(n, t)
    /\ Start(n, <<DoVotes("ImportQcs", t, {p \in Vote : p[1] \in Suffix(base, t) /\ p[2] \in cert[p[1]]}),
                  Do("Promote", Genesis), Do("QcEnd", t)>>)
    /\ UNCHANGED <<voteVars, qcs, runVars, sent>>

\* What the peers' sync statuses say changes when one arrives, and when the node's
\* own chain does, also within a handler; it matters here only behind the barrier.
PeerStatusChange(n) ==
    /\ barrier[n] # "off"
    /\ \E status \in {"waiting", "ahead", "level"} \ {barrier[n]} :
          /\ status = "waiting" => barrier[n] # "level"
          /\ barrier' = [barrier EXCEPT ![n] = status]
    /\ UNCHANGED <<chainVars, voteVars, qcs, todo, lastSlot, restarts, sent>>

\* Seeded defect: the votes of every persisted certificate are restored.
RestoredVotesAll(n) == {p \in Vote : p[2] \in qcs[n][p[1]]}
\* restore_quorum_certificates: the votes of the certificates of canonical blocks.
RestoredVotes(n) == {p \in Vote : p[1] \in Chain[tip[n]] /\ p[2] \in qcs[n][p[1]]}

\* Seeded defect: no saturating_sub, no floor at the tip's slot.
InitialSlotNoFloor(n) == lastSlot[n] - 1
\* initial_last_processed_slot, for a restart in the slot processed last.
InitialLastProcessedSlot(n) ==
    IF lastSlot[n] = 0 THEN SlotOf(tip[n]) ELSE Max({SlotOf(tip[n]), lastSlot[n] - 1})

\* The process stops between two events and run_node starts it again: blocks and
\* the certificates of canonical blocks are restored, everything else is lost.
Restart(n) ==
    /\ restarts < MaxRestarts
    /\ Idle(n)
    /\ restarts' = restarts + 1
    /\ pending' = [pending EXCEPT ![n] = {}]
    /\ orphans' = [orphans EXCEPT ![n] = {}]
    /\ buffered' = [buffered EXCEPT ![n] = {}]
    /\ votes' = [votes EXCEPT ![n] = RestoredVotes(n)]
    /\ qcs' = [qcs EXCEPT ![n] = [b \in Blocks |-> IF b \in Chain[tip[n]] THEN @[b] ELSE {}]]
    /\ barrier' = [barrier EXCEPT ![n] = IF tip[n] = Genesis THEN "off" ELSE "waiting"]
    /\ lastSlot' = [lastSlot EXCEPT ![n] = InitialLastProcessedSlot(n)]
    /\ UNCHANGED <<tip, todo, sent>>

-----------------------------------------------------------------------------
Init ==
    /\ tip = [n \in Node |-> Genesis]
    /\ pending = [n \in Node |-> {}]
    /\ orphans = [n \in Node |-> {}]
    /\ votes = [n \in Node |-> {}]
    /\ buffered = [n \in Node |-> {}]
    /\ qcs = [n \in Node |-> [b \in Blocks |-> {}]]
    /\ todo = [n \in Node |-> <<>>]
    /\ barrier = [n \in Node |-> "off"]
    /\ lastSlot = [n \in Node |-> 0]
    /\ restarts = 0
    /\ sentBlocks = {} /\ sentVotes = {} /\ sentQcs = {}

\* The call on top of node n's stack.
Step(n) ==
    \/ AcceptDuplicate(n) \/ AcceptCompeting(n) \/ AcceptUncertified(n) \/ AcceptExtension(n)
    \/ AcceptGated(n)
    \/ CompeteUnlessTip(n) \/ CompetingVote(n) \/ AdoptPreferred(n) \/ ReturnTip(n)
    \/ Accepted(n) \/ Broadcast(n) \/ Orphaned(n) \/ Promote(n)
    \/ ImportBuffered(n) \/ ImportVotes(n) \/ LocalVote(n) \/ VoteTip(n) \/ SupportPreferred(n)
    \/ FinalizeKnownQc(n) \/ BuildQc(n) \/ NoQcYet(n) \/ AdoptCertified(n) \/ BetterChild(n)
    \/ StoreQcVotes(n) \/ InsertQc(n) \/ QcEnd(n) \/ ImportQcs(n)
    \/ DrainBuffered(n) \/ RetainChain(n)

\* Messages of the consensus protocol and the slot clock.
Gossip(n) ==
    \/ \E b \in Blocks : ReceiveProposal(n, b) \/ TickPropose(n, b)
    \/ \E p \in Vote : ReceiveVote(n, p)
    \/ \E b \in Blocks, V \in Quorums : ReceiveQc(n, b, V)
    \/ TickIdle(n)
    \/ \E s \in OwnSlots(n) : TickMissed(n, s) \/ TickRebroadcast(n, s)

\* Sync payloads.  Bound: a payload carries no vote or every vote sent so far.
Sync(n) ==
    \E t \in Blocks :
        \/ \E vs \in {{}, SyncVotes(Chain[t])} : ReceiveSnapshot(n, t, vs)
        \/ \E base \in Blocks \cup {Genesis} :
              \/ \E vs \in {{}, SyncVotes(Suffix(base, t))} : ReceiveSegment(n, base, t, vs)
              \/ \E cert \in [Suffix(base, t) -> Quorums] : ReceiveCertified(n, base, t, cert)

Recovery(n) == PeerStatusChange(n) \/ Restart(n)

\* Handlers of different nodes only meet in the sent* sets, which grow, so it is
\* enough to interleave whole handlers and the rounds of the promotion loop, which
\* need not end.
MayStart(n) == \A m \in Node \ {n} : Idle(m) \/ Top(m, "Promote")

Event(n)  == MayStart(n) /\ (Gossip(n) \/ Sync(n) \/ Recovery(n))

Next == \E n \in Node : Step(n) \/ Event(n)

Spec == Init /\ [][Next]_vars

\* The protocol without sync payloads.
GossipNext == \E n \in Node : Step(n) \/ (MayStart(n) /\ (Gossip(n) \/ Recovery(n)))

GossipSpec == Init /\ [][GossipNext]_vars

\* A running node executes its handler: Tokio polls the task until it returns.
FairSpec == GossipSpec /\ \A n \in Node : WF_vars(Step(n))

-----------------------------------------------------------------------------
(* Properties.                                                              *)

\* In a node's vote book (proposal_votes with buffered_proposal_votes) no
\* validator supports two blocks of one height or slot, or two blocks on
\* different branches: resolve_conflicting_proposal_vote keeps votes from being
\* counted for rival branches, across evictions, QC imports and late ancestry.
VoteBookConsistent ==
    \A n \in Node : \A p, q \in Book(n) :
        p[2] = q[2] /\ p[1] # q[1] =>
            /\ OnOneChain(p[1], q[1])
            /\ BlockNumber(p[1]) # BlockNumber(q[1])
            /\ Slot[p[1]] # Slot[q[1]]

\* A block is in at most one of blocks, pending_certified_children and
\* orphan_blocks, through every reorganisation and promotion.
BlocksKeptOnce ==
    \A n \in Node :
        /\ pending[n] \cap orphans[n] = {}
        /\ Chain[tip[n]] \cap (pending[n] \cup orphans[n]) = {}

\* Every certificate a node holds was signed by a quorum, and the modelled
\* validators among the signers did broadcast that vote.
CertificatesBacked ==
    \A n \in Node, b \in Blocks : HasQc(n, b) =>
        /\ Cardinality(qcs[n][b]) >= QuorumThreshold
        /\ \A v \in qcs[n][b] \cap Node : <<b, v>> \in sentVotes

\* A child parked in pending_certified_children hangs off a certified block of the
\* node's own chain, through every reorganisation, promotion, sync payload and
\* restart: it is never parked on a branch the node has left.
ParkedOnCertified ==
    \A n \in Node : \A b \in pending[n] :
        Parent[b] \in Chain[tip[n]] /\ HasQc(n, Parent[b])

\* What a node keeps fits together: one vote per validator, height, slot and branch, each
\* block in one place, certificates with a quorum of real votes, and parked children on
\* a certified block (accept_block, import_proposal_vote, adopt_canonical_chain).
NodeConsistent ==
    VoteBookConsistent /\ BlocksKeptOnce /\ CertificatesBacked /\ ParkedOnCertified

\* The certified height of a node's chain never falls (QC-dominant branch
\* choice): no vote, proposal, certificate or restart undoes a certificate.
CertifiedHeightNeverFalls ==
    [][\A n \in Node :
        BlockNumber(CertifiedHead(n)') >= BlockNumber(CertifiedHead(n))]_vars

\* No two nodes ever hold certificates of different blocks at one height.
CertificatesAgree ==
    \A n, m \in Node, b, c \in Blocks :
        HasQc(n, b) /\ HasQc(m, c) /\ BlockNumber(b) = BlockNumber(c) => b = c

\* Between two events a node is on its highest certified branch: no known block
\* with a certificate and a complete ancestry is higher than the certified head
\* (QC-dominant branch choice).
HighestCertificateAdopted ==
    \A n \in Node : Idle(n) =>
        \A b \in Known(n) :
            HasQc(n, b) /\ Complete(n, b) => BlockNumber(b) <= BlockNumber(CertifiedHead(n))

\* Every handler returns, so the node goes on to its next event.
HandlersReturn == \A n \in Node : []<>Idle(n)

=============================================================================
