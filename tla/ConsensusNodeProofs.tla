------------------------ MODULE ConsensusNodeProofs ------------------------
(***************************************************************************)
(* Proofs about ConsensusNode, for every set of validators and nodes and   *)
(* every block tree: its state is well typed, votes never support rival    *)
(* branches, each block is in one place, parked children hang off          *)
(* certified blocks, certificates carry a quorum of real votes, and        *)
(* without sync payloads the certified height never falls.                 *)
(*                                                                         *)
(* A handler is a stack of calls, so each invariant has a part about the   *)
(* calls still to be made.  FollowUps says once what a call may push; the  *)
(* invariants then only look at the calls it allows.                       *)
(***************************************************************************)
EXTENDS ConsensusNode, BlockTreeProofs, SequenceTheorems

-----------------------------------------------------------------------------
(* Types.                                                                   *)

\* The first vote of a non-empty set of votes is one of them.
LEMMA FirstVoteIn ==
    ASSUME NEW S \in SUBSET Vote, S # {}
    PROVE  FirstVote(S) \in S
<1> DEFINE B == {p[1] : p \in S}
<1>1. B \in SUBSET Nat /\ B # {}
  BY BlocksAssumption DEF Vote
<1>2. PICK b \in B : \A c \in B : b <= c
  <2> HIDE DEF B
  <2> QED BY <1>1, LeastNumber
<1> DEFINE V == {v \in Validators : <<b, v>> \in S}
<1>3. V \in SUBSET Nat /\ V # {}
  BY <1>2, ValidatorsAssumption DEF Vote
<1>4. PICK v \in V : \A w \in V : v <= w
  <2> HIDE DEF V
  <2> QED BY <1>3, LeastNumber
<1>5. <<b, v>> \in S
  BY <1>4
<1>6. ASSUME NEW q \in S \ {<<b, v>>}
      PROVE  LexGreater(q, <<b, v>>)
  <2>1. PICK c \in Blocks, w \in Validators : q = <<c, w>>
    BY DEF Vote
  <2>2. c \in Nat /\ w \in Nat /\ b \in Nat /\ v \in Nat
    BY <1>1, <1>3, <2>1, BlocksAssumption, ValidatorsAssumption
  <2>3. b <= c /\ (c = b => v <= w)
    BY <1>2, <1>4, <2>1
  <2>4. c > b \/ (c = b /\ w > v)
    BY <2>1, <2>2, <2>3
  <2> QED BY <2>1, <2>2, <2>4, LexPair
<1> QED BY <1>5, <1>6 DEF FirstVote

\* The latest certified block of a chain is a certified block of it, above all
\* others, or Genesis when there is none.
LEMMA LatestCertifiedIn ==
    ASSUME NEW n \in Node, NEW t \in Blocks \cup {Genesis}
    PROVE  /\ LatestCertified(n, t) = Genesis => \A c \in Chain[t] : ~HasQc(n, c)
           /\ LatestCertified(n, t) # Genesis =>
                /\ LatestCertified(n, t) \in Chain[t] /\ HasQc(n, LatestCertified(n, t))
                /\ \A c \in Chain[t] : HasQc(n, c) => c \in Chain[LatestCertified(n, t)]
<1> DEFINE C == {b \in Chain[t] : HasQc(n, b)}
<1>1. C \in SUBSET Blocks
  BY ChainType
<1>2. CASE C = {}
  BY <1>2 DEF LatestCertified
<1>3. CASE C # {}
  <2>1. LatestBlock(C) \in C /\ \A c \in C : Slot[c] <= Slot[LatestBlock(C)]
    <3> HIDE DEF C
    <3> QED BY <1>1, <1>3, LatestBlockIn
  <2>2. ASSUME NEW c \in C PROVE c \in Chain[LatestBlock(C)]
    <3> DEFINE b == LatestBlock(C)
    <3>0. b \in Blocks /\ c \in Blocks /\ t \in Blocks /\ b \in Chain[t] /\ c \in Chain[t]
      BY <1>1, <2>1, <1>3, ChainType
    <3> HIDE DEF C, b
    <3>1. OnOneChain(c, b)
      BY <3>0, ChainLinear
    <3>2. b \in Chain[c] /\ b # c => Slot[b] < Slot[c]
      BY <3>0, ChainSlots
    <3>3. Slot[c] <= Slot[b] /\ Slot[c] \in Nat /\ Slot[b] \in Nat
      BY <2>1, <2>2, <3>0, TreeAssumption DEF b
    <3>4. b = c => c \in Chain[b]
      BY <3>0, ChainClosed
    <3>5. c \in Chain[b]
      BY <3>1, <3>2, <3>3, <3>4 DEF OnOneChain
    <3> QED BY <3>5 DEF b
  <2>3. \E b \in C : \A c \in C : c \in Chain[b]
    BY <2>1, <2>2
  <2>4. LatestCertified(n, t) = CHOOSE b \in C : \A c \in C : c \in Chain[b]
    BY <1>3 DEF LatestCertified
  <2>5. LatestCertified(n, t) \in C /\ \A c \in C : c \in Chain[LatestCertified(n, t)]
    BY <2>3, <2>4
  <2>6. LatestCertified(n, t) # Genesis
    BY <1>1, <2>5, BlocksAssumption
  <2> QED BY <2>5, <2>6
<1> QED BY <1>2, <1>3

-----------------------------------------------------------------------------
(* Type correctness.                                                        *)

\* The records the handlers push are calls.
LEMMA CallTypes ==
    /\ Do("Promote", Genesis) \in Call
    /\ \A op \in Ops \ {"Promote"}, b \in Blocks :
          /\ Do(op, b) \in Call
          /\ \A from \in Callers : DoFrom(op, b, from) \in Call
          /\ \A vs \in SUBSET Vote : DoVotes(op, b, vs) \in Call
<1>1. "Promote" \in Ops /\ "none" \in Callers /\ Genesis \in Blocks \cup {Genesis}
  BY DEF Ops, Callers
<1> QED BY <1>1 DEF Call, Do, DoFrom, DoVotes

\* The call on top of a stack is well typed, and so is the stack that replaces it.
LEMMA StackTypes ==
    ASSUME TypeOK, NEW n \in Node, todo[n] # <<>>
    PROVE  /\ Arg(n) \in Call
           /\ Arg(n).vs \in SUBSET Vote
           /\ Arg(n).from \in Callers
           /\ Arg(n).op # "Promote" => Arg(n).b \in Blocks
           /\ \A cs \in Seq(Call) : Calls(n, cs) => todo' \in [Node -> Seq(Call)]
<1>1. todo \in [Node -> Seq(Call)] /\ todo[n] \in Seq(Call) /\ todo[n] # <<>>
  BY DEF TypeOK
<1>2. Head(todo[n]) \in Call /\ Tail(todo[n]) \in Seq(Call)
  BY <1>1, HeadTailProperties
<1>3. ASSUME NEW cs \in Seq(Call), Calls(n, cs)
      PROVE  todo' \in [Node -> Seq(Call)]
  <2>1. cs \o Tail(todo[n]) \in Seq(Call)
    BY <1>2, ConcatProperties
  <2> QED BY <1>1, <1>3, <2>1 DEF Calls
<1>4. /\ Head(todo[n]).vs \in SUBSET Vote
      /\ Head(todo[n]).from \in Callers
      /\ Head(todo[n]).op # "Promote" => Head(todo[n]).b \in Blocks
  BY <1>2 DEF Call
<1> QED BY <1>2, <1>3, <1>4 DEF Arg

\* A step that only works on a stack keeps the types.
LEMMA StackStep ==
    ASSUME TypeOK, todo' \in [Node -> Seq(Call)],
           UNCHANGED <<chainVars, voteVars, qcs, runVars, sent>>
    PROVE  TypeOK'
BY DEF TypeOK, chainVars, voteVars, runVars, sent

\* What a node knows are blocks.
LEMMA KnownTypes ==
    ASSUME TypeOK, NEW n \in Node
    PROVE  Known(n) \subseteq Blocks /\ Chain[tip[n]] \subseteq Blocks
BY ChainType DEF TypeOK, Known

\* adopt_canonical_chain keeps the types.
LEMMA AdoptTypes ==
    ASSUME TypeOK, NEW n \in Node, NEW t \in Blocks,
           AdoptChain(n, t) \/ UNCHANGED chainVars,
           todo' \in [Node -> Seq(Call)],
           UNCHANGED <<voteVars, qcs, runVars, sent>>
    PROVE  TypeOK'
<1>1. Known(n) \subseteq Blocks
  BY KnownTypes
<1>2. CASE AdoptChain(n, t)
  <2>1. /\ tip' \in [Node -> Blocks \cup {Genesis}]
        /\ pending' \in [Node -> SUBSET Blocks]
        /\ orphans' \in [Node -> SUBSET Blocks]
    BY <1>1, <1>2 DEF AdoptChain, TypeOK
  <2> QED BY <2>1 DEF TypeOK, voteVars, runVars, sent
<1>3. CASE UNCHANGED chainVars
  BY <1>3, StackStep
<1> QED BY <1>2, <1>3

\* The calls of accept_block and of its continuations keep the types.
LEMMA AcceptTypes ==
    ASSUME TypeOK, NEW n \in Node,
           \/ AcceptDuplicate(n) \/ AcceptCompeting(n) \/ AcceptUncertified(n)
           \/ AcceptExtension(n) \/ AcceptGated(n) \/ CompeteUnlessTip(n)
           \/ CompetingVote(n) \/ AdoptPreferred(n) \/ ReturnTip(n)
           \/ Accepted(n) \/ Broadcast(n) \/ Orphaned(n) \/ Promote(n)
    PROVE  TypeOK'
<1> DEFINE b == Arg(n).b
           from == Arg(n).from
<1>1. todo[n] # <<>>
  BY DEF AcceptDuplicate, AcceptCompeting, AcceptUncertified, AcceptExtension, AcceptGated,
         CompeteUnlessTip, CompetingVote, AdoptPreferred, ReturnTip, Accepted, Broadcast, Orphaned,
         Promote, Top, Idle
<1>2. from \in Callers /\ (Arg(n).op # "Promote" => b \in Blocks)
  BY <1>1, StackTypes
<1>3. \A cs \in Seq(Call) : Calls(n, cs) => todo' \in [Node -> Seq(Call)]
  BY <1>1, StackTypes
<1>4. <<>> \in Seq(Call)
  OBVIOUS
<1>5. <<Do("Promote", Genesis)>> \in Seq(Call)
  BY CallTypes
<1> DEFINE compete == <<Do("CompetingVote", b), Do("Finalize", b),
                        DoFrom("AdoptPreferred", b, from)>>
           better  == <<Do("BetterChild", b), DoFrom("CompeteUnlessTip", b, from)>>
           import  == <<Do("ImportBuffered", b), Do("SupportPreferred", b), Do("Finalize", b)>>
           extend  == <<Do("ImportBuffered", b), Do("Finalize", b), Do("LocalVote", b),
                        DoFrom("Accepted", b, from)>>
           return  == <<Do("BetterChild", b), DoFrom("ReturnTip", b, from)>>
           adopt   == <<Do("VoteTip", b), DoFrom("Accepted", b, from)>>
<1>6. ASSUME b \in Blocks
      PROVE  /\ compete \in Seq(Call) /\ better \in Seq(Call) /\ import \in Seq(Call)
             /\ extend \in Seq(Call) /\ return \in Seq(Call) /\ adopt \in Seq(Call)
             /\ <<Do("ImportBuffered", b)>> \in Seq(Call)
             /\ <<Do("LocalVote", b)>> \in Seq(Call)
             /\ \A op \in {"Accepted", "Orphaned", "ReturnTip"} :
                   <<DoFrom(op, b, from)>> \in Seq(Call)
  BY <1>2, <1>6, CallTypes DEF Ops, Callers
<1>7. ASSUME NEW cs \in Seq(Call), NEW ds \in Seq(Call) PROVE cs \o ds \in Seq(Call)
  BY ConcatProperties
<1>8. CASE AcceptDuplicate(n) \/ AcceptGated(n)
  BY <1>3, <1>4, <1>8, StackStep DEF AcceptDuplicate, AcceptGated
<1>9. CASE AcceptCompeting(n)
  <2>1. b \in Blocks
    BY <1>2, <1>9 DEF AcceptCompeting, Top, Arg
  <2>2. <<Do("ImportBuffered", b)>> \o better \in Seq(Call)
        /\ <<Do("ImportBuffered", b)>> \o compete \in Seq(Call)
    <3> HIDE DEF better, compete
    <3> QED BY <1>6, <1>7, <2>1
  <2>3. todo' \in [Node -> Seq(Call)]
    BY <1>3, <1>9, <2>2 DEF AcceptCompeting
  <2> QED BY <1>9, <2>1, <2>3 DEF AcceptCompeting, TypeOK, voteVars, runVars, sent
<1>10. CASE AcceptUncertified(n)
  <2>1. b \in Blocks
    BY <1>2, <1>10 DEF AcceptUncertified, Top, Arg
  <2>2. <<>> \o return \in Seq(Call) /\ import \o return \in Seq(Call)
    <3> HIDE DEF import, return
    <3> QED BY <1>4, <1>6, <1>7, <2>1
  <2>3. todo' \in [Node -> Seq(Call)]
    BY <1>3, <1>6, <1>10, <2>1, <2>2 DEF AcceptUncertified
  <2>4. pending' \in [Node -> SUBSET Blocks] /\ orphans' \in [Node -> SUBSET Blocks]
    <3>1. pending \in [Node -> SUBSET Blocks] /\ orphans \in [Node -> SUBSET Blocks]
      BY DEF TypeOK
    <3>2. \/ pending' = [pending EXCEPT ![n] = @ \cup {b}] /\ UNCHANGED orphans
          \/ orphans' = [orphans EXCEPT ![n] = @ \cup {b}] /\ UNCHANGED pending
      BY <1>10 DEF AcceptUncertified
    <3> HIDE DEF b
    <3> QED BY <2>1, <3>1, <3>2
  <2> QED BY <1>10, <2>3, <2>4 DEF AcceptUncertified, TypeOK, voteVars, runVars, sent
<1>11. CASE AcceptExtension(n)
  <2>1. b \in Blocks
    BY <1>2, <1>11 DEF AcceptExtension, Top, Arg
  <2>2. todo' \in [Node -> Seq(Call)]
    BY <1>3, <1>6, <1>11, <2>1 DEF AcceptExtension
  <2> QED BY <1>11, <2>1, <2>2 DEF AcceptExtension, TypeOK, voteVars, runVars, sent
<1>12. CASE CompeteUnlessTip(n)
  <2>1. b \in Blocks
    BY <1>2, <1>12 DEF CompeteUnlessTip, Top, Arg
  <2> QED BY <1>3, <1>6, <1>12, <2>1, StackStep DEF CompeteUnlessTip
<1>13. CASE CompetingVote(n)
  <2>1. b \in Blocks
    BY <1>2, <1>13 DEF CompetingVote, Top, Arg
  <2> QED BY <1>3, <1>4, <1>6, <1>13, <2>1, StackStep DEF CompetingVote
<1>14. CASE AdoptPreferred(n)
  <2>1. b \in Blocks
    BY <1>2, <1>14 DEF AdoptPreferred, Top, Arg
  <2>2. todo' \in [Node -> Seq(Call)]
    BY <1>3, <1>6, <1>14, <2>1 DEF AdoptPreferred
  <2>3. AdoptChain(n, b) \/ UNCHANGED chainVars
    BY <1>14 DEF AdoptPreferred
  <2>4. UNCHANGED <<voteVars, qcs, runVars, sent>>
    BY <1>14 DEF AdoptPreferred
  <2> QED BY <2>1, <2>2, <2>3, <2>4, AdoptTypes
<1>15. CASE ReturnTip(n)
  <2>1. b \in Blocks
    BY <1>2, <1>15 DEF ReturnTip, Top, Arg
  <2> QED BY <1>3, <1>6, <1>15, <2>1, StackStep DEF ReturnTip
<1>16. CASE Accepted(n)
  <2>1. b \in Blocks
    BY <1>2, <1>16 DEF Accepted, Top, Arg
  <2>2. <<Do("Promote", Genesis), Do("Broadcast", b)>> \in Seq(Call)
    BY <2>1, CallTypes DEF Ops
  <2>3. todo' \in [Node -> Seq(Call)]
    BY <1>3, <1>4, <1>16, <2>2 DEF Accepted
  <2> QED BY <1>16, <2>3, StackStep DEF Accepted
<1>17. CASE Broadcast(n)
  <2>1. b \in Blocks
    BY <1>2, <1>17 DEF Broadcast, Top, Arg
  <2>2. todo' \in [Node -> Seq(Call)]
    BY <1>3, <1>4, <1>17 DEF Broadcast
  <2> QED BY <1>17, <2>1, <2>2 DEF Broadcast, TypeOK, chainVars, voteVars, runVars
<1>18. CASE Orphaned(n)
  <2>1. b \in Blocks
    BY <1>2, <1>18 DEF Orphaned, Top, Arg
  <2>2. todo' \in [Node -> Seq(Call)]
    BY <1>3, <1>4, <1>18 DEF Orphaned
  <2> QED BY <1>18, <2>1, <2>2 DEF Orphaned, TypeOK, chainVars, voteVars, runVars
<1>19. CASE Promote(n)
  <2>1. UNCHANGED <<tip, pending, voteVars, qcs, runVars, sent>>
    BY <1>19 DEF Promote
  <2>2. CASE Calls(n, <<>>) /\ UNCHANGED orphans
    BY <1>3, <1>4, <2>1, <2>2, StackStep DEF chainVars
  <2>3. ASSUME NEW c \in orphans[n],
               orphans' = [orphans EXCEPT ![n] = @ \ {c}],
               Calls(n, <<DoFrom("Accept", c, "promotion"), Do("Promote", Genesis)>>)
        PROVE  TypeOK'
    <3>1. c \in Blocks
      BY DEF TypeOK
    <3>2. <<DoFrom("Accept", c, "promotion"), Do("Promote", Genesis)>> \in Seq(Call)
      <4>1. "Accept" \in Ops \ {"Promote"} /\ "promotion" \in Callers
        BY DEF Ops, Callers
      <4>2. DoFrom("Accept", c, "promotion") \in Call
        BY <3>1, <4>1, CallTypes
      <4> QED BY <4>2, CallTypes
    <3>3. todo' \in [Node -> Seq(Call)]
      BY <1>3, <2>3, <3>2
    <3>4. orphans' \in [Node -> SUBSET Blocks]
      BY <2>3 DEF TypeOK
    <3> QED BY <2>1, <3>3, <3>4 DEF TypeOK, voteVars, runVars, sent
  <2> QED BY <1>19, <2>2, <2>3 DEF Promote
<1> QED BY <1>8, <1>9, <1>10, <1>11, <1>12, <1>13, <1>14, <1>15, <1>16, <1>17, <1>18, <1>19

\* Storing a vote keeps the types of the vote book.
LEMMA StoreTypes ==
    ASSUME TypeOK, NEW n \in Node, NEW p \in Vote, StoreVote(n, p)
    PROVE  votes' \in [Node -> SUBSET Vote] /\ buffered' \in [Node -> SUBSET Vote]
<1> DEFINE out == EvictedVotes(n, p)
<1>1. votes \in [Node -> SUBSET Vote] /\ buffered \in [Node -> SUBSET Vote]
  BY DEF TypeOK
<1>2. CASE p[1] \in Known(n)
  <2>1. /\ votes' = [votes EXCEPT ![n] = (@ \ out) \cup {p}]
        /\ buffered' = [buffered EXCEPT ![n] = @ \ out]
    BY <1>2 DEF StoreVote
  <2> HIDE DEF out
  <2> QED BY <1>1, <2>1
<1>3. CASE p[1] \notin Known(n)
  <2>1. /\ votes' = [votes EXCEPT ![n] = @ \ out]
        /\ buffered' = [buffered EXCEPT ![n] = (@ \ out) \cup {p}]
    BY <1>3 DEF StoreVote
  <2> HIDE DEF out
  <2> QED BY <1>1, <2>1
<1> QED BY <1>2, <1>3

\* import_proposal_vote keeps the types.
LEMMA ImportTypes ==
    ASSUME TypeOK, NEW n \in Node, todo[n] # <<>>, NEW p \in Vote, NEW rest \in Seq(Call),
           ImportVote(n, p, rest),
           UNCHANGED <<chainVars, qcs, runVars, sentBlocks, sentQcs>>
    PROVE  TypeOK'
<1>1. \A cs \in Seq(Call) : Calls(n, cs) => todo' \in [Node -> Seq(Call)]
  BY StackTypes
<1>2. CASE Calls(n, rest) /\ UNCHANGED <<voteVars, sentVotes>>
  BY <1>1, <1>2, StackStep DEF sent
<1>3. CASE ~(RecoverySyncOnly(n) /\ p[1] \in pending[n]) /\ ~ConflictingVote(n, p)
  <2>1. votes' \in [Node -> SUBSET Vote] /\ buffered' \in [Node -> SUBSET Vote]
    BY <1>3, StoreTypes DEF ImportVote
  <2>2. p[1] \in Blocks /\ "FinalizeOrSupport" \in Ops \ {"Promote"}
    BY DEF Vote, Ops
  <2>3. <<Do("FinalizeOrSupport", p[1])>> \in Seq(Call)
    BY <2>2, CallTypes
  <2>4. <<Do("FinalizeOrSupport", p[1])>> \o rest \in Seq(Call)
    BY <2>3, ConcatProperties
  <2>5. Calls(n, rest) \/ Calls(n, <<Do("FinalizeOrSupport", p[1])>> \o rest)
    BY <1>3 DEF ImportVote
  <2>6. todo' \in [Node -> Seq(Call)]
    BY <1>1, <2>4, <2>5
  <2>7. sentVotes' \in {sentVotes, sentVotes \cup {p}}
    BY <1>3 DEF ImportVote
  <2> QED BY <2>1, <2>6, <2>7 DEF TypeOK, chainVars, runVars
<1> QED BY <1>2, <1>3 DEF ImportVote

\* The calls that handle votes keep the types.
LEMMA VoteTypes ==
    ASSUME TypeOK, NEW n \in Node,
           \/ ImportBuffered(n) \/ ImportVotes(n) \/ LocalVote(n)
           \/ VoteTip(n) \/ SupportPreferred(n)
    PROVE  TypeOK'
<1> DEFINE b == Arg(n).b
<1>1. todo[n] # <<>> /\ Arg(n).op # "Promote"
  BY DEF ImportBuffered, ImportVotes, LocalVote, VoteTip, SupportPreferred, Top, Idle, Arg
<1>2. b \in Blocks /\ Arg(n).vs \in SUBSET Vote
  BY <1>1, StackTypes
<1>3. \A cs \in Seq(Call) : Calls(n, cs) => todo' \in [Node -> Seq(Call)]
  BY <1>1, StackTypes
<1>4. {"LocalVote", "ImportVotes"} \subseteq Ops \ {"Promote"}
  BY DEF Ops
<1>5. <<>> \in Seq(Call) /\ \A c \in Blocks : <<Do("LocalVote", c)>> \in Seq(Call)
  BY <1>4, CallTypes
<1>6. \A vs \in SUBSET Vote : <<DoVotes("ImportVotes", b, vs)>> \in Seq(Call)
  BY <1>2, <1>4, CallTypes
<1> HIDE DEF b
<1>7. CASE ImportBuffered(n)
  <2> DEFINE vs == {p \in buffered[n] : p[1] = b}
  <2>1. vs \in SUBSET Vote
    BY DEF TypeOK
  <2>2. buffered' = [buffered EXCEPT ![n] = @ \ vs] /\ Calls(n, <<DoVotes("ImportVotes", b, vs)>>)
    BY <1>7 DEF ImportBuffered, b
  <2>3. todo' \in [Node -> Seq(Call)]
    BY <1>3, <1>6, <2>1, <2>2
  <2>4. buffered' \in [Node -> SUBSET Vote]
    BY <2>2 DEF TypeOK
  <2> QED BY <1>7, <2>3, <2>4 DEF ImportBuffered, TypeOK, chainVars, runVars, sent
<1>8. CASE ImportVotes(n)
  <2>1. CASE Arg(n).vs = {}
    BY <1>3, <1>5, <1>8, <2>1, StackStep DEF ImportVotes, sent
  <2>2. CASE Arg(n).vs # {}
    <3> DEFINE p == FirstVote(Arg(n).vs)
    <3>1. p \in Vote
      BY <1>2, <2>2, FirstVoteIn
    <3>2. <<DoVotes("ImportVotes", b, Arg(n).vs \ {p})>> \in Seq(Call)
      BY <1>2, <1>6
    <3>3. ImportVote(n, p, <<DoVotes("ImportVotes", b, Arg(n).vs \ {p})>>)
      BY <1>8, <2>2 DEF ImportVotes, b
    <3>4. UNCHANGED <<chainVars, qcs, runVars, sentBlocks, sentQcs>>
      BY <1>8 DEF ImportVotes
    <3> HIDE DEF p
    <3> QED BY <1>1, <3>1, <3>2, <3>3, <3>4, ImportTypes
  <2> QED BY <2>1, <2>2
<1>9. CASE LocalVote(n)
  <2>1. CASE WouldScatter(n, b)
    BY <1>3, <1>5, <1>9, <2>1, StackStep DEF LocalVote, sent, b
  <2>2. CASE ~WouldScatter(n, b)
    <3>1. <<b, n>> \in Vote
      BY <1>2, NodeAssumption DEF Vote
    <3>2. ImportVote(n, <<b, n>>, <<>>)
      BY <1>9, <2>2 DEF LocalVote, b
    <3> QED BY <1>1, <1>5, <1>9, <3>1, <3>2, ImportTypes DEF LocalVote
  <2> QED BY <2>1, <2>2
<1>10. CASE VoteTip(n)
  <2>1. tip[n] # Genesis => tip[n] \in Blocks
    BY DEF TypeOK
  <2> QED BY <1>3, <1>5, <1>10, <2>1, StackStep DEF VoteTip
<1>11. CASE SupportPreferred(n)
  BY <1>2, <1>3, <1>5, <1>11, StackStep DEF SupportPreferred, b
<1> QED BY <1>7, <1>8, <1>9, <1>10, <1>11

\* The block whose certificate is imported first is the lowest of those voted for.
LEMMA LowestBlock ==
    ASSUME NEW vs \in SUBSET Vote, vs # {}
    PROVE  LET c == CHOOSE x \in {p[1] : p \in vs} : \A p \in vs : Slot[x] <= Slot[p[1]]
           IN  c \in {p[1] : p \in vs} /\ c \in Blocks
<1> DEFINE T == {Slot[p[1]] : p \in vs}
<1>1. \A p \in vs : p[1] \in Blocks /\ Slot[p[1]] \in Nat
  BY TreeAssumption DEF Vote
<1>2. T \in SUBSET Nat /\ T # {}
  BY <1>1
<1>3. PICK m \in T : \A k \in T : m <= k
  <2> HIDE DEF T
  <2> QED BY <1>2, LeastNumber
<1>4. \E x \in {p[1] : p \in vs} : \A p \in vs : Slot[x] <= Slot[p[1]]
  BY <1>3
<1> QED BY <1>1, <1>4

\* `?` leaves calls that were on the stack before.
LEMMA UnwindTypes ==
    ASSUME NEW G, todo \in [Node -> Seq(G)], NEW n \in Node, Unwind(n)
    PROVE  todo' \in [Node -> Seq(G)]
<1> DEFINE s == todo[n]
           ends == {i \in DOMAIN s : s[i].op = "QcEnd"}
           end == CHOOSE i \in ends : \A j \in ends : i <= j
<1>1. s \in Seq(G) /\ Len(s) \in Nat /\ DOMAIN s = 1..Len(s)
  OBVIOUS
<1>2. CASE ends = {}
  BY <1>2 DEF Unwind
<1>3. CASE ends # {}
  <2>1. ends \in SUBSET Nat
    BY <1>1
  <2>2. \E i \in ends : \A j \in ends : i <= j
    <3> HIDE DEF ends
    <3> QED BY <1>3, <2>1, LeastNumber
  <2>3. end \in ends
    BY <2>2
  <2>4. end \in 1..Len(s)
    BY <1>1, <2>3
  <2> HIDE DEF end
  <2>5. SubSeq(s, end + 1, Len(s)) \in Seq(G)
    <3>1. \A i \in (end + 1)..Len(s) : s[i] \in G
      BY <1>1, <2>4
    <3> HIDE DEF s
    <3> QED BY <1>1, <2>4, <3>1, SubSeqProperties
  <2>6. todo' = [todo EXCEPT ![n] = SubSeq(s, end + 1, Len(s))]
    BY <1>3 DEF Unwind, end
  <2> QED BY <2>5, <2>6
<1> QED BY <1>2, <1>3

\* The calls that build, import and act on certificates keep the types.
LEMMA QcTypes ==
    ASSUME TypeOK, NEW n \in Node,
           \/ FinalizeKnownQc(n) \/ BuildQc(n) \/ NoQcYet(n) \/ AdoptCertified(n)
           \/ BetterChild(n) \/ StoreQcVotes(n) \/ InsertQc(n) \/ QcEnd(n) \/ ImportQcs(n)
    PROVE  TypeOK'
<1> DEFINE b == Arg(n).b
           vs == Arg(n).vs
<1>1. todo[n] # <<>> /\ Arg(n).op # "Promote"
  BY DEF FinalizeKnownQc, BuildQc, NoQcYet, AdoptCertified, BetterChild, StoreQcVotes,
         InsertQc, QcEnd, ImportQcs, Top, Idle, Arg
<1>2. b \in Blocks /\ vs \in SUBSET Vote
  BY <1>1, StackTypes
<1>3. \A cs \in Seq(Call) : Calls(n, cs) => todo' \in [Node -> Seq(Call)]
  BY <1>1, StackTypes
<1>4. {"LocalVote", "AdoptCertified", "BetterChild", "VoteTip", "StoreQcVotes",
       "InsertQc", "ImportQcs"} \subseteq Ops \ {"Promote"}
  BY DEF Ops
<1>5. /\ <<>> \in Seq(Call)
      /\ <<Do("VoteTip", b)>> \in Seq(Call)
      /\ \A c \in Blocks : <<Do("LocalVote", c)>> \in Seq(Call)
  BY <1>2, <1>4, CallTypes
<1>6. QcCalls(b) \in Seq(Call)
  BY <1>2, <1>4, CallTypes DEF QcCalls
<1>7. /\ votes \in [Node -> SUBSET Vote] /\ buffered \in [Node -> SUBSET Vote]
      /\ qcs \in [Node -> [Blocks -> SUBSET Validators]]
  BY DEF TypeOK
<1>8. \A S \in SUBSET Vote : /\ PruneVotes(n, S, b) \in SUBSET Vote
                             /\ \A p : DropSameHeightVotes(S, p) \in SUBSET Vote
  BY DEF PruneVotes, DropSameHeightVotes
<1> HIDE DEF b, vs
<1>9. CASE FinalizeKnownQc(n)
  BY <1>3, <1>6, <1>9, StackStep DEF FinalizeKnownQc, b
<1>10. CASE BuildQc(n)
  <2>1. todo' \in [Node -> Seq(Call)]
    BY <1>3, <1>6, <1>10 DEF BuildQc, b
  <2>2. Voters(n, b) \in SUBSET Validators
    BY DEF Voters
  <2>3. qcs' = [qcs EXCEPT ![n][b] = Voters(n, b)] /\ sentQcs' = sentQcs \cup {<<b, Voters(n, b)>>}
    BY <1>10 DEF BuildQc, b
  <2>4. qcs' \in [Node -> [Blocks -> SUBSET Validators]]
    BY <1>2, <1>7, <2>2, <2>3
  <2>5. sentQcs' \subseteq (Blocks \X SUBSET Validators)
    BY <1>2, <2>2, <2>3 DEF TypeOK
  <2>6. votes' \in [Node -> SUBSET Vote] /\ buffered' \in [Node -> SUBSET Vote]
    BY <1>7, <1>8, <1>10 DEF BuildQc, b
  <2> QED BY <1>10, <2>1, <2>4, <2>5, <2>6 DEF BuildQc, TypeOK, chainVars, runVars
<1>11. CASE NoQcYet(n)
  <2>1. todo' \in [Node -> Seq(Call)]
    BY <1>3, <1>5, <1>11 DEF NoQcYet, b
  <2>2. AdoptChain(n, b) \/ UNCHANGED chainVars
    BY <1>11 DEF NoQcYet, b
  <2> QED BY <1>2, <1>11, <2>1, <2>2, AdoptTypes DEF NoQcYet
<1>12. CASE AdoptCertified(n)
  <2>1. todo' \in [Node -> Seq(Call)]
    BY <1>3, <1>5, <1>12 DEF AdoptCertified
  <2>2. AdoptChain(n, b) \/ UNCHANGED chainVars
    BY <1>12 DEF AdoptCertified, b
  <2> QED BY <1>2, <1>12, <2>1, <2>2, AdoptTypes DEF AdoptCertified
<1>13. CASE BetterChild(n)
  <2> DEFINE best == LatestBlock(KnownUncertifiedChildren(n))
  <2>1. UNCHANGED <<voteVars, qcs, runVars, sent>>
    BY <1>13 DEF BetterChild
  <2>2. CASE UNCHANGED chainVars /\ Calls(n, <<>>)
    BY <1>3, <1>5, <2>1, <2>2, StackStep
  <2>3. CASE KnownUncertifiedChildren(n) # {} /\ AdoptChain(n, best) /\ Calls(n, <<Do("LocalVote", best)>>)
    <3>1. KnownUncertifiedChildren(n) \in SUBSET Blocks
      BY KnownTypes DEF KnownUncertifiedChildren
    <3>2. best \in Blocks
      BY <2>3, <3>1, LatestBlockIn
    <3> HIDE DEF best
    <3>3. todo' \in [Node -> Seq(Call)]
      BY <1>3, <1>5, <2>3, <3>2
    <3> QED BY <2>1, <2>3, <3>2, <3>3, AdoptTypes
  <2> QED BY <1>13, <2>2, <2>3 DEF BetterChild
<1>14. CASE StoreQcVotes(n)
  <2> DEFINE p == FirstVote(vs)
  <2>0. UNCHANGED <<chainVars, qcs, runVars, sent>>
    BY <1>14 DEF StoreQcVotes
  <2>1. CASE Calls(n, <<>>) /\ UNCHANGED voteVars
    BY <1>3, <1>5, <2>0, <2>1, StackStep
  <2>2. CASE /\ votes' = [votes EXCEPT ![n] = DropSameHeightVotes(@, p)]
             /\ buffered' = [buffered EXCEPT ![n] = DropSameHeightVotes(@, p)]
             /\ UNCHANGED todo
    <3>1. votes' \in [Node -> SUBSET Vote] /\ buffered' \in [Node -> SUBSET Vote]
      BY <1>7, <1>8, <2>2
    <3> QED BY <2>0, <2>2, <3>1 DEF TypeOK, chainVars, runVars, sent
  <2>3. CASE Unwind(n) /\ UNCHANGED voteVars
    BY <2>0, <2>3, UnwindTypes, StackStep DEF TypeOK
  <2>4. CASE /\ vs # {} /\ StoreVote(n, p)
             /\ Calls(n, <<DoVotes("StoreQcVotes", b, vs \ {p})>>)
    <3>1. p \in Vote
      BY <1>2, <2>4, FirstVoteIn
    <3>2. votes' \in [Node -> SUBSET Vote] /\ buffered' \in [Node -> SUBSET Vote]
      BY <2>4, <3>1, StoreTypes
    <3>3. <<DoVotes("StoreQcVotes", b, vs \ {p})>> \in Seq(Call)
      BY <1>2, <1>4, CallTypes
    <3>4. todo' \in [Node -> Seq(Call)]
      BY <1>3, <2>4, <3>3
    <3> QED BY <2>0, <3>2, <3>4 DEF TypeOK, chainVars, runVars, sent
  <2> QED BY <1>14, <2>1, <2>2, <2>3, <2>4 DEF StoreQcVotes, b, vs
<1>15. CASE InsertQc(n)
  <2>0. UNCHANGED <<chainVars, runVars, sent>>
    BY <1>15 DEF InsertQc
  <2>1. CASE Calls(n, <<>>) /\ UNCHANGED <<voteVars, qcs>>
    BY <1>3, <1>5, <2>0, <2>1, StackStep
  <2>2. CASE /\ qcs' = [qcs EXCEPT ![n][b] = {p[2] : p \in vs}]
             /\ votes' = [votes EXCEPT ![n] = PruneVotes(n, @, b)]
             /\ buffered' = [buffered EXCEPT ![n] = PruneVotes(n, @, b)]
             /\ Calls(n, QcCalls(b))
    <3>1. {p[2] : p \in vs} \in SUBSET Validators
      BY <1>2 DEF Vote
    <3>2. qcs' \in [Node -> [Blocks -> SUBSET Validators]]
      BY <1>2, <1>7, <2>2, <3>1
    <3>3. votes' \in [Node -> SUBSET Vote] /\ buffered' \in [Node -> SUBSET Vote]
      BY <1>7, <1>8, <2>2
    <3>4. todo' \in [Node -> Seq(Call)]
      BY <1>3, <1>6, <2>2
    <3> QED BY <2>0, <3>2, <3>3, <3>4 DEF TypeOK, chainVars, runVars, sent
  <2> QED BY <1>15, <2>1, <2>2 DEF InsertQc, b, vs
<1>16. CASE QcEnd(n)
  BY <1>3, <1>5, <1>16, StackStep DEF QcEnd
<1>17. CASE ImportQcs(n)
  <2> DEFINE B == {p[1] : p \in vs}
             c == CHOOSE x \in B : \A p \in vs : Slot[x] <= Slot[p[1]]
             now == {p \in vs : p[1] = c}
             cs == <<DoVotes("StoreQcVotes", c, now), DoVotes("InsertQc", c, now),
                     DoVotes("ImportQcs", b, vs \ now)>>
  <2>1. CASE vs = {}
    BY <1>3, <1>5, <1>17, <2>1, StackStep DEF ImportQcs, vs
  <2>2. CASE vs # {}
    <3>1. c \in Blocks
      BY <1>2, <2>2, LowestBlock
    <3>2. Calls(n, cs)
      BY <1>17, <2>2 DEF ImportQcs, b, vs
    <3>3. cs \in Seq(Call)
      <4> HIDE DEF c
      <4> QED BY <1>2, <1>4, <3>1, CallTypes
    <3> HIDE DEF cs
    <3>4. todo' \in [Node -> Seq(Call)]
      BY <1>3, <3>2, <3>3
    <3> QED BY <1>17, <3>4, StackStep DEF ImportQcs
  <2> QED BY <2>1, <2>2
<1> QED BY <1>9, <1>10, <1>11, <1>12, <1>13, <1>14, <1>15, <1>16, <1>17

\* The tail of applying a sync payload keeps the types.
LEMMA SyncTypes ==
    ASSUME TypeOK, NEW n \in Node, DrainBuffered(n) \/ RetainChain(n)
    PROVE  TypeOK'
<1>1. todo[n] # <<>> /\ Arg(n).op # "Promote"
  BY DEF DrainBuffered, RetainChain, Top, Idle, Arg
<1>2. Arg(n).b \in Blocks /\ Arg(n) \in Call /\ <<>> \in Seq(Call)
  BY <1>1, StackTypes
<1>3. \A cs \in Seq(Call) : Calls(n, cs) => todo' \in [Node -> Seq(Call)]
  BY <1>1, StackTypes
<1>4. CASE DrainBuffered(n)
  <2> DEFINE applied == {p \in buffered[n] : p[1] \in Chain[Arg(n).b]}
  <2>1. CASE applied = {}
    BY <1>2, <1>3, <1>4, <2>1, StackStep DEF DrainBuffered
  <2>2. CASE applied # {}
    <3>1. applied \in SUBSET Vote
      BY DEF TypeOK
    <3>2. FirstVote(applied) \in Vote
      <4> HIDE DEF applied
      <4> QED BY <2>2, <3>1, FirstVoteIn
    <3>3. FirstVote(applied)[1] \in Blocks /\ "ImportBuffered" \in Ops \ {"Promote"}
      BY <3>2 DEF Vote, Ops
    <3>4. <<Do("ImportBuffered", FirstVote(applied)[1]), Arg(n)>> \in Seq(Call)
      BY <1>2, <3>3, CallTypes
    <3>5. Calls(n, <<Do("ImportBuffered", FirstVote(applied)[1]), Arg(n)>>)
      BY <1>4, <2>2 DEF DrainBuffered
    <3> QED BY <1>3, <1>4, <3>4, <3>5, StackStep DEF DrainBuffered
  <2> QED BY <2>1, <2>2
<1>5. CASE RetainChain(n)
  <2>1. todo' \in [Node -> Seq(Call)]
    BY <1>2, <1>3, <1>5 DEF RetainChain
  <2>2. votes' \in [Node -> SUBSET Vote] /\ buffered' \in [Node -> SUBSET Vote]
    BY <1>5 DEF RetainChain, TypeOK
  <2>3. qcs' \in [Node -> [Blocks -> SUBSET Validators]]
    BY <1>5 DEF RetainChain, TypeOK
  <2> QED BY <1>5, <2>1, <2>2, <2>3 DEF RetainChain, TypeOK, chainVars, runVars, sent
<1> QED BY <1>4, <1>5

\* Every call on a stack keeps the types.
LEMMA StepTypes ==
    ASSUME TypeOK, NEW n \in Node, Step(n)
    PROVE  TypeOK'
BY AcceptTypes, VoteTypes, QcTypes, SyncTypes DEF Step

\* Starting a handler gives a well-typed stack.
LEMMA StartTypes ==
    ASSUME TypeOK, NEW n \in Node, NEW cs \in Seq(Call), Start(n, cs)
    PROVE  todo' \in [Node -> Seq(Call)]
BY DEF TypeOK, Start

\* Proposals, votes, certificates and slot ticks keep the types.
LEMMA GossipTypes ==
    ASSUME TypeOK, NEW n \in Node, Gossip(n)
    PROVE  TypeOK'
<1>1. {"Accept", "ImportVotes", "ImportQcs", "QcEnd", "LocalVote"} \subseteq Ops \ {"Promote"}
      /\ {"peer", "local"} \subseteq Callers
  BY DEF Ops, Callers
<1>2. <<Do("Promote", Genesis)>> \in Seq(Call)
  BY CallTypes
<1>3. \A b \in Blocks : /\ <<DoFrom("Accept", b, "peer")>> \in Seq(Call)
                        /\ <<DoFrom("Accept", b, "local"), Do("Promote", Genesis)>> \in Seq(Call)
                        /\ <<Do("LocalVote", b), Do("Promote", Genesis)>> \in Seq(Call)
  BY <1>1, CallTypes
<1>4. ASSUME NEW b \in Blocks, ReceiveProposal(n, b) PROVE TypeOK'
  BY <1>3, <1>4, StartTypes, StackStep DEF ReceiveProposal
<1>5. ASSUME NEW b \in Blocks, TickPropose(n, b) PROVE TypeOK'
  <2>1. todo' \in [Node -> Seq(Call)]
    BY <1>3, <1>5, StartTypes DEF TickPropose
  <2>2. /\ lastSlot' \in [Node -> Nat]
        /\ barrier' \in [Node -> {"off", "waiting", "ahead", "level"}]
    BY <1>5, TreeAssumption DEF TickPropose, TypeOK
  <2> QED BY <1>5, <2>1, <2>2 DEF TickPropose, TypeOK, chainVars, voteVars, sent
<1>6. ASSUME NEW p \in Vote, ReceiveVote(n, p) PROVE TypeOK'
  <2>1. p[1] \in Blocks /\ {p} \in SUBSET Vote
    BY DEF Vote
  <2>2. <<DoVotes("ImportVotes", p[1], {p})>> \in Seq(Call)
    BY <1>1, <2>1, CallTypes
  <2> QED BY <1>6, <2>2, StartTypes, StackStep DEF ReceiveVote
<1>7. ASSUME NEW b \in Blocks, NEW V \in Quorums, ReceiveQc(n, b, V) PROVE TypeOK'
  <2>1. VotesFor(b, V) \in SUBSET Vote
    BY DEF VotesFor, Vote, Quorums
  <2>2. <<DoVotes("ImportQcs", b, VotesFor(b, V)), Do("QcEnd", b)>> \in Seq(Call)
    BY <1>1, <2>1, CallTypes
  <2> QED BY <1>7, <2>2, StartTypes, StackStep DEF ReceiveQc
<1>8. CASE TickIdle(n)
  BY <1>2, <1>8, StartTypes, StackStep DEF TickIdle
<1>9. OwnSlots(n) \subseteq Nat
  BY TreeAssumption DEF OwnSlots
<1>10. ASSUME NEW s \in OwnSlots(n), TickMissed(n, s) PROVE TypeOK'
  <2>1. todo' \in [Node -> Seq(Call)]
    BY <1>2, <1>10, StartTypes DEF TickMissed
  <2>2. /\ lastSlot' \in [Node -> Nat]
        /\ barrier' \in [Node -> {"off", "waiting", "ahead", "level"}]
    BY <1>9, <1>10 DEF TickMissed, TypeOK
  <2> QED BY <1>10, <2>1, <2>2 DEF TickMissed, TypeOK, chainVars, voteVars, sent
<1>11. ASSUME NEW s \in OwnSlots(n), TickRebroadcast(n, s) PROVE TypeOK'
  <2> DEFINE child == PreferredPendingChild(n)
             children == {b \in pending[n] : IsDirectChildOfHead(n, b)}
  <2>1. children \in SUBSET Blocks /\ children # {} /\ child = LatestBlock(children)
    BY <1>11 DEF TickRebroadcast, PreferredPendingChild, TypeOK
  <2>2. child \in Blocks
    <3> HIDE DEF children
    <3> QED BY <2>1, LatestBlockIn
  <2>3. todo' \in [Node -> Seq(Call)]
    BY <1>3, <1>11, <2>2, StartTypes DEF TickRebroadcast
  <2>4. /\ lastSlot' \in [Node -> Nat]
        /\ barrier' \in [Node -> {"off", "waiting", "ahead", "level"}]
        /\ sentBlocks' \subseteq Blocks
    BY <1>9, <1>11, <2>2 DEF TickRebroadcast, TypeOK
  <2> QED BY <1>11, <2>3, <2>4 DEF TickRebroadcast, TypeOK, chainVars, voteVars
<1> QED BY <1>4, <1>5, <1>6, <1>7, <1>8, <1>10, <1>11 DEF Gossip

\* Sync payloads keep the types.
LEMMA SyncPayloadTypes ==
    ASSUME TypeOK, NEW n \in Node, Sync(n)
    PROVE  TypeOK'
<1>1. {"ImportVotes", "DrainBuffered", "RetainChain", "ImportQcs", "QcEnd"}
        \subseteq Ops \ {"Promote"}
  BY DEF Ops
<1>2. ASSUME NEW t \in Blocks, NEW vs \in SUBSET Vote, ApplyChain(n, t, vs),
             UNCHANGED <<voteVars, qcs, runVars, sent>>
      PROVE  TypeOK'
  <2>1. <<DoVotes("ImportVotes", t, vs), Do("DrainBuffered", t),
          Do("RetainChain", t), Do("Promote", Genesis)>> \in Seq(Call)
    BY <1>1, CallTypes
  <2>2. todo' \in [Node -> Seq(Call)]
    BY <1>2, <2>1, StartTypes DEF ApplyChain
  <2>3. /\ tip' \in [Node -> Blocks \cup {Genesis}]
        /\ pending' \in [Node -> SUBSET Blocks]
        /\ orphans' \in [Node -> SUBSET Blocks]
    BY <1>2 DEF ApplyChain, TypeOK
  <2> QED BY <1>2, <2>2, <2>3 DEF TypeOK, voteVars, runVars, sent
<1>3. \A S : SyncVotes(S) \in SUBSET Vote
  BY DEF SyncVotes
<1>4. ASSUME NEW t \in Blocks, NEW vs \in {{}, SyncVotes(Chain[t])}, ReceiveSnapshot(n, t, vs)
      PROVE  TypeOK'
  BY <1>2, <1>3, <1>4 DEF ReceiveSnapshot
<1>5. ASSUME NEW t \in Blocks, NEW base \in Blocks \cup {Genesis},
             NEW vs \in {{}, SyncVotes(Suffix(base, t))}, ReceiveSegment(n, base, t, vs)
      PROVE  TypeOK'
  BY <1>2, <1>3, <1>5 DEF ReceiveSegment
<1>6. ASSUME NEW t \in Blocks, NEW base \in Blocks \cup {Genesis},
             NEW cert \in [Suffix(base, t) -> Quorums], ReceiveCertified(n, base, t, cert)
      PROVE  TypeOK'
  <2> DEFINE vs == {p \in Vote : p[1] \in Suffix(base, t) /\ p[2] \in cert[p[1]]}
  <2>1. vs \in SUBSET Vote
    OBVIOUS
  <2>2. <<DoVotes("ImportQcs", t, vs), Do("Promote", Genesis), Do("QcEnd", t)>> \in Seq(Call)
    <3> HIDE DEF vs
    <3> QED BY <1>1, <2>1, CallTypes
  <2>3. todo' \in [Node -> Seq(Call)]
    BY <1>6, <2>2, StartTypes DEF ReceiveCertified
  <2> QED BY <1>6, <2>3, AdoptTypes DEF ReceiveCertified
<1> QED BY <1>4, <1>5, <1>6 DEF Sync

\* Status changes and restarts keep the types.
LEMMA RecoveryTypes ==
    ASSUME TypeOK, NEW n \in Node, Recovery(n)
    PROVE  TypeOK'
<1>1. CASE PeerStatusChange(n)
  <2>1. barrier' \in [Node -> {"off", "waiting", "ahead", "level"}]
    BY <1>1 DEF PeerStatusChange, TypeOK
  <2> QED BY <1>1, <2>1 DEF PeerStatusChange, TypeOK, chainVars, voteVars, sent
<1>2. CASE Restart(n)
  <2>1. InitialLastProcessedSlot(n) \in Nat
    <3>1. lastSlot[n] \in Nat /\ SlotOf(tip[n]) \in Nat
      BY TreeAssumption DEF TypeOK, SlotOf
    <3>2. CASE lastSlot[n] # 0
      <4> DEFINE T == {SlotOf(tip[n]), lastSlot[n] - 1}
      <4>1. lastSlot[n] - 1 \in Nat
        BY <3>1, <3>2
      <4>2. \E x \in T : \A y \in T : x >= y
        BY <3>1, <4>1
      <4>3. Max(T) \in T
        BY <4>2 DEF Max
      <4> QED BY <3>1, <3>2, <4>1, <4>3 DEF InitialLastProcessedSlot
    <3> QED BY <3>1, <3>2 DEF InitialLastProcessedSlot
  <2>2. RestoredVotes(n) \in SUBSET Vote
    BY DEF RestoredVotes
  <2>3. /\ lastSlot' \in [Node -> Nat] /\ restarts' \in Nat
        /\ barrier' \in [Node -> {"off", "waiting", "ahead", "level"}]
    BY <1>2, <2>1 DEF Restart, TypeOK
  <2>4. votes' \in [Node -> SUBSET Vote] /\ buffered' \in [Node -> SUBSET Vote]
    BY <1>2, <2>2 DEF Restart, TypeOK
  <2>5. pending' \in [Node -> SUBSET Blocks] /\ orphans' \in [Node -> SUBSET Blocks]
    BY <1>2 DEF Restart, TypeOK
  <2>6. qcs' \in [Node -> [Blocks -> SUBSET Validators]]
    BY <1>2 DEF Restart, TypeOK
  <2> QED BY <1>2, <2>3, <2>4, <2>5, <2>6 DEF Restart, TypeOK, sent
<1> QED BY <1>1, <1>2 DEF Recovery

\* Every reachable state is well typed: in particular the restart rule of
\* initial_last_processed_slot never leaves the slot range, and no handler
\* leaves a call without its block behind, through every reorganisation and
\* every failed certificate import.
THEOREM TypeCorrect == Spec => []TypeOK
<1>1. Init => TypeOK
  BY DEF Init, TypeOK
<1>2. TypeOK /\ [Next]_vars => TypeOK'
  <2> SUFFICES ASSUME TypeOK, [Next]_vars PROVE TypeOK'
    OBVIOUS
  <2>1. CASE Next
    BY <2>1, StepTypes, GossipTypes, SyncPayloadTypes, RecoveryTypes DEF Next, Event
  <2>2. CASE UNCHANGED vars
    BY <2>2, StackStep DEF vars, TypeOK
  <2> QED BY <2>1, <2>2
<1> QED BY <1>1, <1>2, PTL DEF Spec

-----------------------------------------------------------------------------
(* No validator's votes support rival branches in a node's vote book.       *)

\* A step that adds no vote to any book keeps the books consistent.
LEMMA BookShrinks ==
    ASSUME VoteBookConsistent, \A m \in Node : Book(m)' \subseteq Book(m)
    PROVE  VoteBookConsistent'
BY DEF VoteBookConsistent

\* The steps of accept_block, of branch choice and of the stack itself leave the
\* vote books alone.
LEMMA QuietSteps ==
    ASSUME NEW n \in Node,
           \/ AcceptDuplicate(n) \/ AcceptCompeting(n) \/ AcceptUncertified(n)
           \/ AcceptExtension(n) \/ AcceptGated(n) \/ CompeteUnlessTip(n)
           \/ CompetingVote(n) \/ AdoptPreferred(n) \/ ReturnTip(n)
           \/ Accepted(n) \/ Broadcast(n) \/ Orphaned(n) \/ Promote(n)
           \/ VoteTip(n) \/ SupportPreferred(n) \/ FinalizeKnownQc(n) \/ NoQcYet(n)
           \/ AdoptCertified(n) \/ BetterChild(n) \/ QcEnd(n) \/ ImportQcs(n) \/ DrainBuffered(n)
           \/ Gossip(n) \/ Sync(n) \/ PeerStatusChange(n)
    PROVE  UNCHANGED voteVars
<1>1. CASE \/ AcceptDuplicate(n) \/ AcceptCompeting(n) \/ AcceptUncertified(n)
           \/ AcceptExtension(n) \/ AcceptGated(n) \/ CompeteUnlessTip(n)
           \/ CompetingVote(n) \/ AdoptPreferred(n) \/ ReturnTip(n)
           \/ Accepted(n) \/ Broadcast(n) \/ Orphaned(n) \/ Promote(n)
  BY <1>1 DEF AcceptDuplicate, AcceptCompeting, AcceptUncertified, AcceptExtension, AcceptGated,
         CompeteUnlessTip, CompetingVote, AdoptPreferred, ReturnTip, Accepted, Broadcast, Orphaned, Promote
<1>2. CASE \/ VoteTip(n) \/ SupportPreferred(n) \/ FinalizeKnownQc(n) \/ NoQcYet(n)
           \/ AdoptCertified(n) \/ BetterChild(n) \/ QcEnd(n) \/ ImportQcs(n) \/ DrainBuffered(n)
  BY <1>2 DEF VoteTip, SupportPreferred, FinalizeKnownQc, NoQcYet, AdoptCertified, BetterChild,
         QcEnd, ImportQcs, DrainBuffered
<1>3. CASE Gossip(n)
  BY <1>3 DEF Gossip, ReceiveProposal, ReceiveVote, ReceiveQc, TickPropose, TickIdle,
         TickMissed, TickRebroadcast
<1>4. CASE Sync(n) \/ PeerStatusChange(n)
  BY <1>4 DEF Sync, ReceiveSnapshot, ReceiveSegment, ReceiveCertified, PeerStatusChange
<1> QED BY <1>1, <1>2, <1>3, <1>4

\* Storing a vote that resolve_conflicting_proposal_vote lets through keeps the
\* books consistent: what could contradict it is evicted first.
LEMMA StoreConsistent ==
    ASSUME TypeOK, VoteBookConsistent, NEW n \in Node, NEW p \in Vote,
           ~ConflictingVote(n, p), StoreVote(n, p)
    PROVE  VoteBookConsistent'
<1> DEFINE out == EvictedVotes(n, p)
           agree(q, r) == /\ OnOneChain(q[1], r[1])
                          /\ BlockNumber(q[1]) # BlockNumber(r[1])
                          /\ Slot[q[1]] # Slot[r[1]]
<1>1. /\ votes \in [Node -> SUBSET Vote] /\ buffered \in [Node -> SUBSET Vote]
      /\ votes' \in [Node -> SUBSET Vote] /\ buffered' \in [Node -> SUBSET Vote]
  BY StoreTypes DEF TypeOK
<1>2. votes'[n] \cup buffered'[n] = (Book(n) \ out) \cup {p}
  BY <1>1 DEF StoreVote, Book
<1>3. \A m \in Node \ {n} : votes'[m] = votes[m] /\ buffered'[m] = buffered[m]
  BY <1>1 DEF StoreVote
<1>4. ASSUME NEW q \in Book(n) \ out, q[2] = p[2], q[1] # p[1]
      PROVE  agree(q, p) /\ agree(p, q)
  <2>1. q \in RivalVotes(n, p) \ EvictedVotes(n, p)
    BY <1>4 DEF RivalVotes
  <2>2. /\ BlockNumber(q[1]) # BlockNumber(p[1])
        /\ Slot[q[1]] # Slot[p[1]]
        /\ SameChain(n, q[1], p[1])
    BY <2>1 DEF ConflictingVote
  <2> QED BY <2>2 DEF SameChain, OnOneChain
<1>5. ASSUME NEW q \in Book(n), NEW r \in Book(n), q[2] = r[2], q[1] # r[1]
      PROVE  agree(q, r)
  BY <1>5 DEF VoteBookConsistent
<1> HIDE DEF out, agree
<1>6. ASSUME NEW q \in votes'[n] \cup buffered'[n], NEW r \in votes'[n] \cup buffered'[n],
             q[2] = r[2], q[1] # r[1]
      PROVE  agree(q, r)
  BY <1>2, <1>4, <1>5, <1>6
<1>7. ASSUME NEW m \in Node, NEW q \in Book(m)', NEW r \in Book(m)', q[2] = r[2], q[1] # r[1]
      PROVE  agree(q, r)
  <2>1. CASE m = n
    BY <1>6, <1>7, <2>1 DEF Book
  <2>2. CASE m # n
    <3>1. q \in Book(m) /\ r \in Book(m)
      BY <1>3, <1>7, <2>2 DEF Book
    <3> QED BY <1>7, <3>1 DEF VoteBookConsistent, agree
  <2> QED BY <2>1, <2>2
<1> QED BY <1>7 DEF VoteBookConsistent, agree

\* import_proposal_vote keeps the books consistent.
LEMMA ImportConsistent ==
    ASSUME TypeOK, VoteBookConsistent, NEW n \in Node, NEW p \in Vote, NEW rest,
           ImportVote(n, p, rest)
    PROVE  VoteBookConsistent'
<1>1. CASE UNCHANGED voteVars
  BY <1>1, BookShrinks DEF voteVars, Book
<1>2. CASE ~ConflictingVote(n, p) /\ StoreVote(n, p)
  BY <1>2, StoreConsistent
<1> QED BY <1>1, <1>2 DEF ImportVote

\* A step that filters the votes of one node keeps the books consistent.
LEMMA FilterConsistent ==
    ASSUME TypeOK, VoteBookConsistent, NEW n \in Node, NEW V, NEW B,
           V \subseteq votes[n], B \subseteq buffered[n],
           votes' = [votes EXCEPT ![n] = V], buffered' = [buffered EXCEPT ![n] = B]
    PROVE  VoteBookConsistent'
<1>1. \A m \in Node : votes'[m] \subseteq votes[m] /\ buffered'[m] \subseteq buffered[m]
  BY DEF TypeOK
<1> QED BY <1>1, BookShrinks DEF Book

\* The votes that restore_quorum_certificates rebuilds belong to one chain.
LEMMA RestartConsistent ==
    ASSUME TypeOK, VoteBookConsistent, NEW n \in Node, Restart(n)
    PROVE  VoteBookConsistent'
<1>1. votes \in [Node -> SUBSET Vote] /\ buffered \in [Node -> SUBSET Vote]
  BY DEF TypeOK
<1>2. /\ votes'[n] = RestoredVotes(n) /\ buffered'[n] = {}
      /\ \A m \in Node \ {n} : votes'[m] = votes[m] /\ buffered'[m] = buffered[m]
  BY <1>1 DEF Restart
<1>3. ASSUME NEW q \in RestoredVotes(n), NEW r \in RestoredVotes(n), q[1] # r[1]
      PROVE  /\ OnOneChain(q[1], r[1])
             /\ BlockNumber(q[1]) # BlockNumber(r[1])
             /\ Slot[q[1]] # Slot[r[1]]
  <2> DEFINE b == q[1]
             c == r[1]
  <2>1. b \in Chain[tip[n]] /\ c \in Chain[tip[n]] /\ tip[n] \in Blocks \cup {Genesis}
    BY <1>3 DEF RestoredVotes, TypeOK
  <2>2. tip[n] \in Blocks /\ b \in Blocks /\ c \in Blocks
    BY <2>1, ChainType
  <2>3. OnOneChain(b, c)
    BY <2>1, <2>2, ChainLinear
  <2>4. /\ BlockNumber(b) \in Nat /\ BlockNumber(c) \in Nat
        /\ Slot[b] \in Nat /\ Slot[c] \in Nat
    BY <2>2, ChainNumbers, TreeAssumption
  <2> HIDE DEF b, c
  <2>5. CASE b \in Chain[c]
    <3>1. b # c
      BY <1>3 DEF b, c
    <3> QED BY <2>2, <2>3, <2>4, <2>5, <3>1, ChainNumbers, ChainSlots DEF b, c
  <2>6. CASE c \in Chain[b]
    <3>1. b # c
      BY <1>3 DEF b, c
    <3> QED BY <2>2, <2>3, <2>4, <2>6, <3>1, ChainNumbers, ChainSlots DEF b, c
  <2> QED BY <2>3, <2>5, <2>6 DEF OnOneChain
<1>4. \A m \in Node \ {n} : Book(m)' = Book(m)
  BY <1>2 DEF Book
<1>5. Book(n)' = RestoredVotes(n)
  BY <1>2 DEF Book
<1>6. ASSUME NEW m \in Node, NEW q \in Book(m)', NEW r \in Book(m)', q[2] = r[2], q[1] # r[1]
      PROVE  /\ OnOneChain(q[1], r[1])
             /\ BlockNumber(q[1]) # BlockNumber(r[1])
             /\ Slot[q[1]] # Slot[r[1]]
  BY <1>3, <1>4, <1>5, <1>6 DEF VoteBookConsistent
<1> QED BY <1>6 DEF VoteBookConsistent

\* Every call on a stack keeps the books consistent.
LEMMA StepConsistent ==
    ASSUME TypeOK, VoteBookConsistent, NEW n \in Node, Step(n)
    PROVE  VoteBookConsistent'
<1>1. todo[n] # <<>>
  BY DEF Step, AcceptDuplicate, AcceptCompeting, AcceptUncertified, AcceptExtension, AcceptGated,
         CompeteUnlessTip, CompetingVote, AdoptPreferred, ReturnTip, Accepted, Broadcast, Orphaned, Promote,
         ImportBuffered, ImportVotes, LocalVote, VoteTip, SupportPreferred, FinalizeKnownQc,
         BuildQc, NoQcYet, AdoptCertified, BetterChild, StoreQcVotes, InsertQc, QcEnd, ImportQcs,
         DrainBuffered, RetainChain, Top, Idle
<1>2. Arg(n).vs \in SUBSET Vote /\ (Arg(n).op # "Promote" => Arg(n).b \in Blocks)
  BY <1>1, StackTypes
<1>3. CASE UNCHANGED voteVars
  BY <1>3, BookShrinks DEF voteVars, Book
<1>4. CASE ImportBuffered(n)
  <2>1. votes' = [votes EXCEPT ![n] = votes[n]]
    BY <1>4 DEF ImportBuffered, TypeOK
  <2> DEFINE B == buffered[n] \ {p \in buffered[n] : p[1] = Arg(n).b}
  <2>2. buffered' = [buffered EXCEPT ![n] = B] /\ B \subseteq buffered[n]
    BY <1>4 DEF ImportBuffered
  <2> HIDE DEF B
  <2> QED BY <2>1, <2>2, FilterConsistent
<1>5. CASE ImportVotes(n)
  <2>1. CASE Arg(n).vs # {}
    BY <1>2, <1>5, <2>1, FirstVoteIn, ImportConsistent DEF ImportVotes
  <2> QED BY <1>3, <1>5, <2>1 DEF ImportVotes
<1>6. CASE LocalVote(n)
  <2>1. <<Arg(n).b, n>> \in Vote
    BY <1>2, <1>6, NodeAssumption DEF LocalVote, Top, Arg, Vote
  <2> QED BY <1>3, <1>6, <2>1, ImportConsistent DEF LocalVote
<1>7. CASE BuildQc(n) \/ InsertQc(n)
  <2>1. PruneVotes(n, votes[n], Arg(n).b) \subseteq votes[n]
        /\ PruneVotes(n, buffered[n], Arg(n).b) \subseteq buffered[n]
    BY DEF PruneVotes
  <2>2. CASE /\ votes' = [votes EXCEPT ![n] = PruneVotes(n, @, Arg(n).b)]
             /\ buffered' = [buffered EXCEPT ![n] = PruneVotes(n, @, Arg(n).b)]
    BY <2>1, <2>2, FilterConsistent
  <2> QED BY <1>3, <1>7, <2>2 DEF BuildQc, InsertQc
<1>8. CASE StoreQcVotes(n)
  <2> DEFINE p == FirstVote(Arg(n).vs)
  <2>1. CASE /\ votes' = [votes EXCEPT ![n] = DropSameHeightVotes(@, p)]
             /\ buffered' = [buffered EXCEPT ![n] = DropSameHeightVotes(@, p)]
    <3>1. DropSameHeightVotes(votes[n], p) \subseteq votes[n]
          /\ DropSameHeightVotes(buffered[n], p) \subseteq buffered[n]
      BY DEF DropSameHeightVotes
    <3> QED BY <2>1, <3>1, FilterConsistent
  <2>2. CASE Arg(n).vs # {} /\ ~ConflictingVote(n, p) /\ StoreVote(n, p)
    <3>1. p \in Vote
      BY <1>2, <2>2, FirstVoteIn
    <3> QED BY <2>2, <3>1, StoreConsistent
  <2> QED BY <1>3, <1>8, <2>1, <2>2 DEF StoreQcVotes
<1>9. CASE RetainChain(n)
  <2> DEFINE V == {p \in votes[n] : p[1] \in Chain[Arg(n).b]}
             B == {p \in buffered[n] : p[1] \notin Chain[Arg(n).b]}
  <2>1. /\ votes' = [votes EXCEPT ![n] = V] /\ V \subseteq votes[n]
        /\ buffered' = [buffered EXCEPT ![n] = B] /\ B \subseteq buffered[n]
    BY <1>9 DEF RetainChain
  <2> HIDE DEF V, B
  <2> QED BY <2>1, FilterConsistent
<1> QED BY <1>3, <1>4, <1>5, <1>6, <1>7, <1>8, <1>9, QuietSteps DEF Step

\* In every reachable state, whatever votes and certificates arrive in whatever
\* order, no validator supports two blocks of one height or slot, or two blocks
\* on different branches, in one node's vote book.
THEOREM VoteBooksConsistent == Spec => []VoteBookConsistent
<1>1. Init => VoteBookConsistent
  BY DEF Init, VoteBookConsistent, Book
<1>2. TypeOK /\ VoteBookConsistent /\ [Next]_vars => VoteBookConsistent'
  <2> SUFFICES ASSUME TypeOK, VoteBookConsistent, [Next]_vars PROVE VoteBookConsistent'
    OBVIOUS
  <2>1. CASE UNCHANGED voteVars
    BY <2>1, BookShrinks DEF voteVars, Book
  <2>2. ASSUME NEW n \in Node, Step(n) PROVE VoteBookConsistent'
    BY <2>2, StepConsistent
  <2>3. ASSUME NEW n \in Node, Event(n) PROVE VoteBookConsistent'
    BY <2>1, <2>3, QuietSteps, RestartConsistent DEF Event, Recovery
  <2>4. CASE UNCHANGED vars
    BY <2>1, <2>4 DEF vars
  <2> QED BY <2>2, <2>3, <2>4 DEF Next
<1> QED BY <1>1, <1>2, TypeCorrect, PTL DEF Spec

-----------------------------------------------------------------------------
(* Calls and what they may push.                                            *)

\* Calls that never lead to another accept_block before they return.
QuietOps == Ops \ {"Accept", "CompeteUnlessTip", "AdoptPreferred", "ReturnTip", "Accepted", "Promote"}

\* The calls that the call on top of n's stack may make: only a sync payload
\* queues RetainChain, a quiet call makes quiet ones, and the votes handed on are
\* the caller's or buffered ones; the certificates of a suffix are handed on whole.
FollowUps(n) ==
    {c \in Call :
        /\ c.op # "RetainChain"
        /\ c.op = "DrainBuffered" => Arg(n).op = "DrainBuffered"
        /\ Arg(n).op \in QuietOps => c.op \in QuietOps
        /\ c.vs \subseteq Arg(n).vs \/ (c.op = "ImportVotes" /\ c.vs \subseteq buffered[n])
        /\ c.op \in {"InsertQc", "ImportQcs"} =>
              /\ Arg(n).op = "ImportQcs"
              /\ \A p \in c.vs : {q \in Arg(n).vs : q[1] = p[1]} \subseteq c.vs
        /\ c.op = "InsertQc" => /\ c.b \in {p[1] : p \in Arg(n).vs}
                                /\ c.vs = {p \in Arg(n).vs : p[1] = c.b}}

\* A call without votes may follow unless it is one of the few that need a reason.
LEMMA PlainFollowUp ==
    ASSUME NEW n \in Node, NEW b \in Blocks, NEW from \in Callers,
           NEW op \in Ops \ {"Promote", "RetainChain", "DrainBuffered", "InsertQc", "ImportQcs"},
           Arg(n).op \in QuietOps => op \in QuietOps
    PROVE  Do(op, b) \in FollowUps(n) /\ DoFrom(op, b, from) \in FollowUps(n)
<1>1. Do(op, b) \in Call /\ DoFrom(op, b, from) \in Call
  BY CallTypes
<1>2. /\ Do(op, b).op = op /\ Do(op, b).vs = {}
      /\ DoFrom(op, b, from).op = op /\ DoFrom(op, b, from).vs = {}
  BY DEF Do, DoFrom
<1> QED BY <1>1, <1>2 DEF FollowUps

\* What accept_block and its continuations push.
LEMMA AcceptPushes ==
    ASSUME TypeOK, NEW n \in Node,
           \/ AcceptDuplicate(n) \/ AcceptCompeting(n) \/ AcceptUncertified(n)
           \/ AcceptExtension(n) \/ AcceptGated(n) \/ CompeteUnlessTip(n)
           \/ CompetingVote(n) \/ AdoptPreferred(n) \/ ReturnTip(n)
           \/ Accepted(n) \/ Broadcast(n) \/ Orphaned(n) \/ Promote(n)
    PROVE  \E cs \in Seq(FollowUps(n)) : Calls(n, cs)
<1> DEFINE b == Arg(n).b
           from == Arg(n).from
           F == FollowUps(n)
<1>1. todo[n] # <<>>
  BY DEF AcceptDuplicate, AcceptCompeting, AcceptUncertified, AcceptExtension, AcceptGated,
         CompeteUnlessTip, CompetingVote, AdoptPreferred, ReturnTip, Accepted, Broadcast, Orphaned,
         Promote, Top, Idle
<1>2. from \in Callers /\ "none" \in Callers /\ (Arg(n).op # "Promote" => b \in Blocks)
  BY <1>1, StackTypes DEF Callers
<1>3. ASSUME b \in Blocks
      PROVE  \A op \in {"ImportBuffered", "ImportVotes", "LocalVote", "Finalize", "BetterChild",
                        "SupportPreferred", "CompetingVote", "VoteTip", "Orphaned", "Broadcast"} :
                Do(op, b) \in F /\ DoFrom(op, b, from) \in F
  BY <1>2, <1>3, PlainFollowUp DEF Ops, QuietOps
<1>4. ASSUME b \in Blocks, Arg(n).op \notin QuietOps
      PROVE  \A op \in {"CompeteUnlessTip", "AdoptPreferred", "ReturnTip", "Accepted"} :
                DoFrom(op, b, from) \in F
  BY <1>2, <1>4, PlainFollowUp DEF Ops, QuietOps
<1>5. ASSUME Arg(n).op \notin QuietOps
      PROVE  /\ Do("Promote", Genesis) \in F
             /\ \A c \in Blocks : DoFrom("Accept", c, "promotion") \in F
  <2>1. Do("Promote", Genesis) \in F
    BY <1>5, CallTypes DEF FollowUps, Do
  <2>2. "Accept" \in Ops /\ "promotion" \in Callers
    BY DEF Ops, Callers
  <2> QED BY <1>5, <2>1, <2>2, PlainFollowUp
<1>6. ASSUME NEW cs \in Seq(F), NEW ds \in Seq(F) PROVE cs \o ds \in Seq(F)
  BY ConcatProperties
<1>7. {"Accept", "CompeteUnlessTip", "AdoptPreferred", "ReturnTip", "Accepted", "Promote"}
        \cap QuietOps = {}
  BY DEF QuietOps
<1>8. CASE AcceptDuplicate(n) \/ AcceptGated(n) \/ Broadcast(n) \/ Orphaned(n)
  <2>1. <<>> \in Seq(F)
    OBVIOUS
  <2>2. Calls(n, <<>>)
    BY <1>8 DEF AcceptDuplicate, AcceptGated, Broadcast, Orphaned
  <2> QED BY <2>1, <2>2
<1> HIDE DEF F
<1>9. CASE AcceptCompeting(n) \/ CompeteUnlessTip(n)
  <2>1. b \in Blocks /\ Arg(n).op \notin QuietOps
    BY <1>2, <1>7, <1>9 DEF AcceptCompeting, CompeteUnlessTip, Top, Arg
  <2> DEFINE import == <<Do("ImportBuffered", b)>>
             compete == <<Do("CompetingVote", b), Do("Finalize", b), DoFrom("AdoptPreferred", b, from)>>
             better == <<Do("BetterChild", b), DoFrom("CompeteUnlessTip", b, from)>>
             accept == <<DoFrom("Accepted", b, from)>>
  <2>2. import \in Seq(F) /\ compete \in Seq(F) /\ better \in Seq(F) /\ accept \in Seq(F)
    BY <1>3, <1>4, <2>1
  <2>3. Calls(n, import \o better) \/ Calls(n, import \o compete) \/ Calls(n, compete) \/ Calls(n, accept)
    BY <1>9 DEF AcceptCompeting, CompeteUnlessTip
  <2> HIDE DEF import, compete, better, accept
  <2> QED BY <1>6, <2>2, <2>3 DEF F
<1>10. CASE AcceptUncertified(n)
  <2>1. b \in Blocks /\ Arg(n).op \notin QuietOps
    BY <1>2, <1>7, <1>10 DEF AcceptUncertified, Top, Arg
  <2> DEFINE import == <<Do("ImportBuffered", b), Do("SupportPreferred", b), Do("Finalize", b)>>
             return == <<Do("BetterChild", b), DoFrom("ReturnTip", b, from)>>
             orphan == <<DoFrom("Orphaned", b, from)>>
             empty == <<>>
  <2>2. import \in Seq(F) /\ return \in Seq(F) /\ orphan \in Seq(F) /\ empty \in Seq(F)
    BY <1>3, <1>4, <2>1
  <2>3. Calls(n, import \o return) \/ Calls(n, empty \o return) \/ Calls(n, orphan)
    BY <1>10 DEF AcceptUncertified
  <2> HIDE DEF import, return, orphan, empty
  <2> QED BY <1>6, <2>2, <2>3 DEF F
<1>11. CASE AcceptExtension(n)
  <2>1. b \in Blocks /\ Arg(n).op \notin QuietOps
    BY <1>2, <1>7, <1>11 DEF AcceptExtension, Top, Arg
  <2>2. <<Do("ImportBuffered", b), Do("Finalize", b), Do("LocalVote", b),
          DoFrom("Accepted", b, from)>> \in Seq(F)
    BY <1>3, <1>4, <2>1
  <2> QED BY <1>11, <2>2 DEF AcceptExtension, F
<1>12. CASE CompetingVote(n)
  <2>1. b \in Blocks
    BY <1>2, <1>12 DEF CompetingVote, Top, Arg
  <2>2. <<Do("LocalVote", b)>> \in Seq(F) /\ <<>> \in Seq(F)
    BY <1>3, <2>1
  <2> QED BY <1>12, <2>2 DEF CompetingVote, F
<1>13. CASE AdoptPreferred(n) \/ ReturnTip(n)
  <2>1. b \in Blocks /\ Arg(n).op \notin QuietOps
    BY <1>2, <1>7, <1>13 DEF AdoptPreferred, ReturnTip, Top, Arg
  <2>2. /\ <<Do("VoteTip", b), DoFrom("Accepted", b, from)>> \in Seq(F)
        /\ <<DoFrom("ReturnTip", b, from)>> \in Seq(F)
        /\ <<DoFrom("Accepted", b, from)>> \in Seq(F)
        /\ <<DoFrom("Orphaned", b, from)>> \in Seq(F)
    BY <1>3, <1>4, <2>1
  <2> QED BY <1>13, <2>2 DEF AdoptPreferred, ReturnTip, F
<1>14. CASE Accepted(n)
  <2>1. b \in Blocks /\ Arg(n).op \notin QuietOps
    BY <1>2, <1>7, <1>14 DEF Accepted, Top, Arg
  <2>2. <<Do("Promote", Genesis), Do("Broadcast", b)>> \in Seq(F) /\ <<>> \in Seq(F)
    BY <1>3, <1>5, <2>1
  <2> QED BY <1>14, <2>2 DEF Accepted, F
<1>15. CASE Promote(n)
  <2>1. Arg(n).op \notin QuietOps
    BY <1>7, <1>15 DEF Promote, Top, Arg
  <2>2. \/ Calls(n, <<>>)
        \/ \E c \in orphans[n] :
              Calls(n, <<DoFrom("Accept", c, "promotion"), Do("Promote", Genesis)>>)
    BY <1>15 DEF Promote
  <2>3. ASSUME NEW c \in orphans[n]
        PROVE  <<DoFrom("Accept", c, "promotion"), Do("Promote", Genesis)>> \in Seq(F)
    <3>1. c \in Blocks
      BY DEF TypeOK
    <3> QED BY <1>5, <2>1, <3>1
  <2>4. <<>> \in Seq(F)
    OBVIOUS
  <2> QED BY <2>2, <2>3, <2>4 DEF F
<1> QED BY <1>8, <1>9, <1>10, <1>11, <1>12, <1>13, <1>14, <1>15

\* What the calls that handle votes push.
LEMMA VotePushes ==
    ASSUME TypeOK, NEW n \in Node,
           \/ ImportBuffered(n) \/ ImportVotes(n) \/ LocalVote(n)
           \/ VoteTip(n) \/ SupportPreferred(n)
    PROVE  \E cs \in Seq(FollowUps(n)) : Calls(n, cs)
<1> DEFINE b == Arg(n).b
           vs == Arg(n).vs
           F == FollowUps(n)
<1>1. todo[n] # <<>> /\ Arg(n).op \in {"ImportBuffered", "ImportVotes", "LocalVote", "VoteTip", "SupportPreferred"}
  BY DEF ImportBuffered, ImportVotes, LocalVote, VoteTip, SupportPreferred, Top, Idle, Arg
<1>2. b \in Blocks /\ vs \in SUBSET Vote
  BY <1>1, StackTypes
<1>3. \A op \in {"LocalVote", "FinalizeOrSupport"}, c \in Blocks : Do(op, c) \in F
  BY PlainFollowUp DEF Ops, QuietOps, Callers
<1>4. ASSUME NEW us \in SUBSET Vote, us \subseteq vs \/ us \subseteq buffered[n]
      PROVE  <<DoVotes("ImportVotes", b, us)>> \in Seq(F)
  <2>1. DoVotes("ImportVotes", b, us) \in Call /\ "ImportVotes" \in QuietOps
    BY <1>2, CallTypes DEF Ops, QuietOps
  <2>2. DoVotes("ImportVotes", b, us).op = "ImportVotes" /\ DoVotes("ImportVotes", b, us).vs = us
    BY DEF DoVotes
  <2>3. DoVotes("ImportVotes", b, us) \in F
    BY <1>4, <2>1, <2>2 DEF FollowUps
  <2> QED BY <2>3
<1>5. ASSUME NEW p \in Vote, NEW rest \in Seq(F), ImportVote(n, p, rest)
      PROVE  \E cs \in Seq(F) : Calls(n, cs)
  <2>1. p[1] \in Blocks
    BY DEF Vote
  <2>2. <<Do("FinalizeOrSupport", p[1])>> \in Seq(F)
    BY <1>3, <2>1
  <2>3. <<Do("FinalizeOrSupport", p[1])>> \o rest \in Seq(F)
    BY <2>2, ConcatProperties
  <2>4. Calls(n, rest) \/ Calls(n, <<Do("FinalizeOrSupport", p[1])>> \o rest)
    BY <1>5 DEF ImportVote
  <2> QED BY <2>3, <2>4
<1>6. <<>> \in Seq(F) /\ \A c \in Blocks : <<Do("LocalVote", c)>> \in Seq(F)
  BY <1>3
<1> HIDE DEF b, vs, F
<1>7. CASE ImportBuffered(n)
  <2> DEFINE us == {p \in buffered[n] : p[1] = b}
  <2>1. us \in SUBSET Vote /\ us \subseteq buffered[n]
    BY DEF TypeOK
  <2>2. Calls(n, <<DoVotes("ImportVotes", b, us)>>)
    BY <1>7 DEF ImportBuffered, b
  <2> HIDE DEF us
  <2> QED BY <1>4, <2>1, <2>2 DEF F
<1>8. CASE ImportVotes(n)
  <2>1. CASE vs = {}
    BY <1>6, <1>8, <2>1 DEF ImportVotes, vs, F
  <2>2. CASE vs # {}
    <3> DEFINE p == FirstVote(vs)
    <3>1. p \in Vote
      BY <1>2, <2>2, FirstVoteIn
    <3>2. ImportVote(n, p, <<DoVotes("ImportVotes", b, vs \ {p})>>)
      BY <1>8, <2>2 DEF ImportVotes, b, vs
    <3> HIDE DEF p
    <3>3. vs \ {p} \in SUBSET Vote /\ vs \ {p} \subseteq vs
      BY <1>2
    <3> QED BY <1>4, <1>5, <3>1, <3>2, <3>3 DEF F
  <2> QED BY <2>1, <2>2
<1>9. CASE LocalVote(n)
  <2>1. <<b, n>> \in Vote
    BY <1>2, NodeAssumption DEF Vote
  <2>2. Calls(n, <<>>) \/ ImportVote(n, <<b, n>>, <<>>)
    BY <1>9 DEF LocalVote, b
  <2> QED BY <1>5, <1>6, <2>1, <2>2 DEF F
<1>10. CASE VoteTip(n)
  <2>1. tip[n] # Genesis => tip[n] \in Blocks
    BY DEF TypeOK
  <2> QED BY <1>6, <1>10, <2>1 DEF VoteTip, F
<1>11. CASE SupportPreferred(n)
  BY <1>2, <1>6, <1>11 DEF SupportPreferred, b, F
<1> QED BY <1>7, <1>8, <1>9, <1>10, <1>11

\* What the calls that build, import and act on certificates push.
LEMMA QcPushes ==
    ASSUME TypeOK, NEW n \in Node,
           \/ FinalizeKnownQc(n) \/ BuildQc(n) \/ NoQcYet(n) \/ AdoptCertified(n)
           \/ BetterChild(n) \/ InsertQc(n) \/ QcEnd(n) \/ ImportQcs(n)
           \/ StoreQcVotes(n) /\ todo' # todo /\ ~Unwind(n)
    PROVE  \E cs \in Seq(FollowUps(n)) : Calls(n, cs)
<1> DEFINE b == Arg(n).b
           vs == Arg(n).vs
           F == FollowUps(n)
<1>1. todo[n] # <<>> /\ Arg(n).op # "Promote"
  BY DEF FinalizeKnownQc, BuildQc, NoQcYet, AdoptCertified, BetterChild, StoreQcVotes,
         InsertQc, QcEnd, ImportQcs, Top, Idle, Arg
<1>2. b \in Blocks /\ vs \in SUBSET Vote
  BY <1>1, StackTypes
<1>3. \A op \in {"LocalVote", "VoteTip", "AdoptCertified", "BetterChild"}, c \in Blocks : Do(op, c) \in F
  BY PlainFollowUp DEF Ops, QuietOps, Callers
<1>4. /\ <<>> \in Seq(F) /\ <<Do("VoteTip", b)>> \in Seq(F)
      /\ QcCalls(b) \in Seq(F)
      /\ \A c \in Blocks : <<Do("LocalVote", c)>> \in Seq(F)
  BY <1>2, <1>3 DEF QcCalls
<1> HIDE DEF b, vs, F
<1>5. CASE \/ FinalizeKnownQc(n) \/ BuildQc(n) \/ NoQcYet(n) \/ AdoptCertified(n)
           \/ InsertQc(n) \/ QcEnd(n)
  <2>1. Calls(n, <<>>) \/ Calls(n, QcCalls(b)) \/ Calls(n, <<Do("VoteTip", b)>>)
    BY <1>5 DEF FinalizeKnownQc, BuildQc, NoQcYet, AdoptCertified, InsertQc, QcEnd, b
  <2> QED BY <1>4, <2>1 DEF F
<1>6. CASE BetterChild(n)
  <2> DEFINE best == LatestBlock(KnownUncertifiedChildren(n))
  <2>1. \/ Calls(n, <<>>)
        \/ KnownUncertifiedChildren(n) # {} /\ Calls(n, <<Do("LocalVote", best)>>)
    BY <1>6 DEF BetterChild
  <2>2. KnownUncertifiedChildren(n) \in SUBSET Blocks
    BY KnownTypes DEF KnownUncertifiedChildren
  <2>3. KnownUncertifiedChildren(n) # {} => best \in Blocks
    BY <2>2, LatestBlockIn
  <2> HIDE DEF best
  <2> QED BY <1>4, <2>1, <2>3 DEF F
<1>7. CASE StoreQcVotes(n) /\ todo' # todo /\ ~Unwind(n)
  <2> DEFINE us == vs \ {FirstVote(vs)}
             c == DoVotes("StoreQcVotes", b, us)
  <2>1. Calls(n, <<>>) \/ Calls(n, <<c>>)
    BY <1>7 DEF StoreQcVotes, b, vs
  <2>2. us \in SUBSET Vote /\ us \subseteq vs
    BY <1>2
  <2> HIDE DEF us
  <2>3. c \in Call /\ c.op = "StoreQcVotes" /\ c.vs = us /\ c.op \in QuietOps
    BY <1>2, <2>2, CallTypes DEF Ops, QuietOps, DoVotes
  <2> HIDE DEF c
  <2>4. c \in F
    BY <2>2, <2>3 DEF FollowUps, F, vs
  <2>5. <<c>> \in Seq(F)
    BY <2>4
  <2> QED BY <1>4, <2>1, <2>5 DEF F
<1>8. CASE ImportQcs(n)
  <2>1. CASE vs = {}
    BY <1>4, <1>8, <2>1 DEF ImportQcs, vs, F
  <2>2. CASE vs # {}
    <3> DEFINE x == CHOOSE y \in {p[1] : p \in vs} : \A p \in vs : Slot[y] <= Slot[p[1]]
               now == {p \in vs : p[1] = x}
               store == DoVotes("StoreQcVotes", x, now)
               insert == DoVotes("InsertQc", x, now)
               import == DoVotes("ImportQcs", b, vs \ now)
    <3>1. x \in {p[1] : p \in vs} /\ x \in Blocks
      BY <1>2, <2>2, LowestBlock
    <3>2. Calls(n, <<store, insert, import>>)
      BY <1>8, <2>2 DEF ImportQcs, b, vs
    <3>3. Arg(n).op = "ImportQcs"
      BY <1>8 DEF ImportQcs, Top, Arg
    <3> HIDE DEF x
    <3>4. now \in SUBSET Vote /\ vs \ now \in SUBSET Vote
      BY <1>2
    <3>5. /\ store \in Call /\ store.op = "StoreQcVotes" /\ store.vs = now
          /\ insert \in Call /\ insert.op = "InsertQc" /\ insert.vs = now /\ insert.b = x
          /\ import \in Call /\ import.op = "ImportQcs" /\ import.vs = vs \ now
      <4> HIDE DEF now
      <4> QED BY <1>2, <3>1, <3>4, CallTypes DEF Ops, DoVotes
    <3>6. {"StoreQcVotes", "InsertQc", "ImportQcs"} \subseteq QuietOps
      BY DEF Ops, QuietOps
    <3>7. now = {p \in vs : p[1] = x}
      OBVIOUS
    <3>8. /\ \A p \in now : {q \in vs : q[1] = p[1]} \subseteq now
          /\ \A p \in vs \ now : {q \in vs : q[1] = p[1]} \subseteq vs \ now
          /\ now \subseteq vs
      OBVIOUS
    <3> HIDE DEF now, store, insert, import
    <3>9. store \in F /\ insert \in F /\ import \in F
      BY <3>1, <3>3, <3>5, <3>6, <3>7, <3>8 DEF FollowUps, F, vs
    <3>10. <<store, insert, import>> \in Seq(F)
      BY <3>9
    <3> QED BY <3>2, <3>10 DEF F
  <2> QED BY <2>1, <2>2
<1> QED BY <1>5, <1>6, <1>7, <1>8

\* A call replaces itself by follow-ups, goes on, or fails and unwinds the import.
LEMMA StepPushes ==
    ASSUME TypeOK, NEW n \in Node, Step(n)
    PROVE  /\ todo[n] # <<>>
           /\ UNCHANGED todo \/ Unwind(n) \/ \E cs \in Seq(FollowUps(n)) : Calls(n, cs)
<1>1. todo[n] # <<>>
  BY DEF Step, AcceptDuplicate, AcceptCompeting, AcceptUncertified, AcceptExtension, AcceptGated,
         CompeteUnlessTip, CompetingVote, AdoptPreferred, ReturnTip, Accepted, Broadcast, Orphaned, Promote,
         ImportBuffered, ImportVotes, LocalVote, VoteTip, SupportPreferred, FinalizeKnownQc,
         BuildQc, NoQcYet, AdoptCertified, BetterChild, StoreQcVotes, InsertQc, QcEnd, ImportQcs,
         DrainBuffered, RetainChain, Top, Idle
<1>2. CASE DrainBuffered(n)
  <2> DEFINE applied == {p \in buffered[n] : p[1] \in Chain[Arg(n).b]}
             c == FirstVote(applied)[1]
  <2>1. Arg(n) \in Call /\ Arg(n).op = "DrainBuffered"
    BY <1>1, <1>2, StackTypes DEF DrainBuffered, Top, Arg
  <2>2. Arg(n) \in FollowUps(n)
    BY <2>1 DEF FollowUps
  <2>3. ASSUME applied # {} PROVE Do("ImportBuffered", c) \in FollowUps(n)
    <3>1. applied \in SUBSET Vote
      BY DEF TypeOK
    <3> HIDE DEF applied
    <3>2. c \in Blocks
      BY <2>3, <3>1, FirstVoteIn DEF Vote
    <3> QED BY <3>2, PlainFollowUp DEF Ops, QuietOps, Callers
  <2>4. Calls(n, <<>>) \/ (applied # {} /\ Calls(n, <<Do("ImportBuffered", c), Arg(n)>>))
    BY <1>2 DEF DrainBuffered
  <2> HIDE DEF applied, c
  <2>5. <<>> \in Seq(FollowUps(n))
    OBVIOUS
  <2>6. applied # {} => <<Do("ImportBuffered", c), Arg(n)>> \in Seq(FollowUps(n))
    BY <2>2, <2>3
  <2> QED BY <1>1, <2>4, <2>5, <2>6
<1>3. CASE RetainChain(n)
  <2>1. <<>> \in Seq(FollowUps(n)) /\ Calls(n, <<>>)
    BY <1>3 DEF RetainChain
  <2> QED BY <1>1, <2>1
<1> QED BY <1>1, <1>2, <1>3, AcceptPushes, VotePushes, QcPushes DEF Step

-----------------------------------------------------------------------------
(* Where the blocks are.                                                    *)

\* How one node's blocks, parked children and orphans change: a new block is
\* orphaned, parked under the certified head or appended; an orphan is taken out;
\* a branch is adopted; a payload or a restart leaves only the chain.
StoreMoves(n) ==
    \/ UNCHANGED chainVars
    \/ \E b \in Blocks \ Known(n) :
          \/ /\ orphans' = [orphans EXCEPT ![n] = @ \cup {b}]
             /\ UNCHANGED <<tip, pending>>
          \/ /\ IsDirectChildOfHead(n, b) /\ Arg(n).op = "Accept"
             /\ pending' = [pending EXCEPT ![n] = @ \cup {b}]
             /\ UNCHANGED <<tip, orphans>>
          \/ /\ Parent[b] = tip[n]
             /\ tip' = [tip EXCEPT ![n] = b]
             /\ UNCHANGED <<pending, orphans>>
    \/ \E b \in orphans[n] : /\ orphans' = [orphans EXCEPT ![n] = @ \ {b}]
                             /\ UNCHANGED <<tip, pending>>
    \/ \E t \in Blocks : AdoptChain(n, t)
    \/ \E t \in Blocks \cup {Genesis} : /\ tip' = [tip EXCEPT ![n] = t]
                                        /\ orphans' = [orphans EXCEPT ![n] = {}]
                                        /\ pending' = [pending EXCEPT ![n] = {}]

\* The calls on a stack move blocks in these ways only.
LEMMA StepMoves ==
    ASSUME TypeOK, NEW n \in Node, Step(n)
    PROVE  StoreMoves(n)
<1> DEFINE b == Arg(n).b
<1>1. Arg(n).op # "Promote" => b \in Blocks
  BY StepPushes, StackTypes
<1>2. CASE UNCHANGED chainVars
  BY <1>2 DEF StoreMoves
<1>3. CASE AcceptCompeting(n) \/ AcceptUncertified(n) \/ AcceptExtension(n)
  <2>1. b \in Blocks /\ Arg(n).op = "Accept"
    BY <1>1, <1>3 DEF AcceptCompeting, AcceptUncertified, AcceptExtension, Top, Arg
  <2>2. b \in Blocks \ Known(n)
    BY <1>3, <2>1 DEF AcceptCompeting, AcceptUncertified, AcceptExtension
  <2>3. \/ /\ orphans' = [orphans EXCEPT ![n] = @ \cup {b}]
           /\ UNCHANGED <<tip, pending>>
        \/ /\ IsDirectChildOfHead(n, b)
           /\ pending' = [pending EXCEPT ![n] = @ \cup {b}]
           /\ UNCHANGED <<tip, orphans>>
        \/ /\ Parent[b] = tip[n]
           /\ tip' = [tip EXCEPT ![n] = b]
           /\ UNCHANGED <<pending, orphans>>
    BY <1>3 DEF AcceptCompeting, AcceptUncertified, AcceptExtension
  <2> HIDE DEF b
  <2> QED BY <2>1, <2>2, <2>3 DEF StoreMoves
<1>4. CASE Promote(n)
  <2>1. \/ UNCHANGED chainVars
        \/ \E c \in orphans[n] : /\ orphans' = [orphans EXCEPT ![n] = @ \ {c}]
                                 /\ UNCHANGED <<tip, pending>>
    BY <1>4 DEF Promote, chainVars
  <2> QED BY <2>1 DEF StoreMoves
<1>5. CASE AdoptPreferred(n) \/ NoQcYet(n) \/ AdoptCertified(n)
  <2>1. b \in Blocks
    BY <1>1, <1>5 DEF AdoptPreferred, NoQcYet, AdoptCertified, Top, Arg
  <2>2. UNCHANGED chainVars \/ AdoptChain(n, b)
    BY <1>5 DEF AdoptPreferred, NoQcYet, AdoptCertified
  <2> QED BY <2>1, <2>2 DEF StoreMoves
<1>6. CASE BetterChild(n)
  <2> DEFINE best == LatestBlock(KnownUncertifiedChildren(n))
  <2>1. UNCHANGED chainVars \/ (KnownUncertifiedChildren(n) # {} /\ AdoptChain(n, best))
    BY <1>6 DEF BetterChild
  <2>2. KnownUncertifiedChildren(n) \in SUBSET Blocks
    BY KnownTypes DEF KnownUncertifiedChildren
  <2>3. KnownUncertifiedChildren(n) # {} => best \in Blocks
    BY <2>2, LatestBlockIn
  <2> HIDE DEF best
  <2> QED BY <2>1, <2>3 DEF StoreMoves
<1>7. CASE \/ AcceptDuplicate(n) \/ AcceptGated(n) \/ CompeteUnlessTip(n) \/ CompetingVote(n)
           \/ ReturnTip(n) \/ Accepted(n) \/ Broadcast(n) \/ Orphaned(n)
  BY <1>2, <1>7 DEF AcceptDuplicate, AcceptGated, CompeteUnlessTip, CompetingVote, ReturnTip,
         Accepted, Broadcast, Orphaned
<1>8. CASE \/ ImportBuffered(n) \/ ImportVotes(n) \/ LocalVote(n) \/ VoteTip(n) \/ SupportPreferred(n)
           \/ FinalizeKnownQc(n) \/ BuildQc(n) \/ StoreQcVotes(n) \/ InsertQc(n) \/ QcEnd(n)
           \/ ImportQcs(n) \/ DrainBuffered(n) \/ RetainChain(n)
  BY <1>2, <1>8 DEF ImportBuffered, ImportVotes, LocalVote, VoteTip, SupportPreferred, FinalizeKnownQc,
         BuildQc, StoreQcVotes, InsertQc, QcEnd, ImportQcs, DrainBuffered, RetainChain
<1> QED BY <1>3, <1>4, <1>5, <1>6, <1>7, <1>8 DEF Step

\* ... and so do messages, ticks, payloads and restarts.
LEMMA EventMoves ==
    ASSUME TypeOK, NEW n \in Node, Event(n)
    PROVE  StoreMoves(n)
<1>1. CASE Gossip(n) \/ PeerStatusChange(n)
  <2>1. UNCHANGED chainVars
    BY <1>1 DEF Gossip, ReceiveProposal, TickPropose, ReceiveVote, ReceiveQc, TickIdle, TickMissed,
           TickRebroadcast, PeerStatusChange
  <2> QED BY <2>1 DEF StoreMoves
<1>2. CASE Sync(n)
  <2>1. \E t \in Blocks :
           \/ AdoptChain(n, t)
           \/ /\ tip' = [tip EXCEPT ![n] = t]
              /\ orphans' = [orphans EXCEPT ![n] = {}]
              /\ pending' = [pending EXCEPT ![n] = {}]
    BY <1>2 DEF Sync, ReceiveSnapshot, ReceiveSegment, ReceiveCertified, ApplyChain
  <2> QED BY <2>1 DEF StoreMoves
<1>3. CASE Restart(n)
  <2>1. /\ tip' = [tip EXCEPT ![n] = tip[n]] /\ tip[n] \in Blocks \cup {Genesis}
        /\ orphans' = [orphans EXCEPT ![n] = {}]
        /\ pending' = [pending EXCEPT ![n] = {}]
    BY <1>3 DEF Restart, TypeOK
  <2> QED BY <2>1 DEF StoreMoves
<1> QED BY <1>1, <1>2, <1>3 DEF Event, Recovery

\* Moves keep every block in one place.
LEMMA MovesKeepOnce ==
    ASSUME TypeOK, BlocksKeptOnce, NEW n \in Node, StoreMoves(n)
    PROVE  BlocksKeptOnce'
<1>1. /\ tip \in [Node -> Blocks \cup {Genesis}]
      /\ pending \in [Node -> SUBSET Blocks] /\ orphans \in [Node -> SUBSET Blocks]
  BY DEF TypeOK
<1> DEFINE Once(m) == /\ pending'[m] \cap orphans'[m] = {}
                      /\ Chain[tip'[m]] \cap (pending'[m] \cup orphans'[m]) = {}
<1>2. \A m \in Node \ {n} : tip'[m] = tip[m] /\ pending'[m] = pending[m] /\ orphans'[m] = orphans[m]
  BY <1>1 DEF StoreMoves, AdoptChain, chainVars
<1>3. \A m \in Node \ {n} : Once(m)
  BY <1>2 DEF BlocksKeptOnce
<1>4. Once(n)
  <2>0. /\ pending[n] \cap orphans[n] = {}
        /\ Chain[tip[n]] \cap (pending[n] \cup orphans[n]) = {}
    BY DEF BlocksKeptOnce
  <2>1. CASE UNCHANGED chainVars
    BY <2>0, <2>1 DEF chainVars
  <2>2. ASSUME NEW b \in Blocks \ Known(n),
               \/ orphans' = [orphans EXCEPT ![n] = @ \cup {b}] /\ UNCHANGED <<tip, pending>>
               \/ pending' = [pending EXCEPT ![n] = @ \cup {b}] /\ UNCHANGED <<tip, orphans>>
        PROVE  Once(n)
    BY <1>1, <2>0, <2>2 DEF Known
  <2>3. ASSUME NEW b \in Blocks \ Known(n), Parent[b] = tip[n],
               tip' = [tip EXCEPT ![n] = b], UNCHANGED <<pending, orphans>>
        PROVE  Once(n)
    <3>1. Chain[b] = {b} \cup Chain[tip[n]]
      BY <2>3, ChainExtends
    <3> QED BY <1>1, <2>0, <2>3, <3>1 DEF Known
  <2>4. ASSUME NEW b, orphans' = [orphans EXCEPT ![n] = @ \ {b}], UNCHANGED <<tip, pending>>
        PROVE  Once(n)
    BY <1>1, <2>0, <2>4
  <2>5. ASSUME NEW t \in Blocks, AdoptChain(n, t) PROVE Once(n)
    BY <1>1, <2>5 DEF AdoptChain
  <2>6. CASE orphans' = [orphans EXCEPT ![n] = {}] /\ pending' = [pending EXCEPT ![n] = {}]
    BY <1>1, <2>6
  <2> QED BY <2>1, <2>2, <2>3, <2>4, <2>5, <2>6 DEF StoreMoves
<1> QED BY <1>3, <1>4 DEF BlocksKeptOnce

\* In every reachable state a block is in at most one of blocks,
\* pending_certified_children and orphan_blocks: accept_block, promotion,
\* adopt_canonical_chain and sync payloads never duplicate one.
THEOREM BlocksStayOnce == Spec => []BlocksKeptOnce
<1>1. Init => BlocksKeptOnce
  BY ChainType DEF Init, BlocksKeptOnce
<1>2. TypeOK /\ BlocksKeptOnce /\ [Next]_vars => BlocksKeptOnce'
  <2> SUFFICES ASSUME TypeOK, BlocksKeptOnce, [Next]_vars PROVE BlocksKeptOnce'
    OBVIOUS
  <2>1. CASE Next
    BY <2>1, StepMoves, EventMoves, MovesKeepOnce DEF Next
  <2>2. CASE UNCHANGED vars
    BY <2>2 DEF vars, chainVars, BlocksKeptOnce
  <2> QED BY <2>1, <2>2
<1> QED BY <1>1, <1>2, TypeCorrect, PTL DEF Spec

-----------------------------------------------------------------------------
(* Who signed the certificates.                                             *)

\* A modelled validator broadcast the vote p, if p is in its name.
Backed(p) == p[2] \in Node => p \in sentVotes

\* The validators whose votes for b are in vs.
Signers(b, vs) == {p[2] : p \in {q \in vs : q[1] = b}}

\* Calls that hand on real votes only, and quorums of them where a certificate
\* is to be stored.
BackedCalls ==
    {c \in Call :
        /\ \A p \in c.vs : Backed(p)
        /\ c.op = "InsertQc" => /\ \A p \in c.vs : p[1] = c.b
                                /\ Cardinality(Signers(c.b, c.vs)) >= QuorumThreshold
        /\ c.op = "ImportQcs" =>
              \A b \in {p[1] : p \in c.vs} : Cardinality(Signers(b, c.vs)) >= QuorumThreshold}

\* The inductive invariant: the votes in the books and on the stacks and the
\* certificates in flight are as real as the stored certificates.
BackedInv ==
    /\ \A n \in Node : \A p \in Book(n) : Backed(p)
    /\ todo \in [Node -> Seq(BackedCalls)]
    /\ \A qc \in sentQcs : /\ Cardinality(qc[2]) >= QuorumThreshold
                           /\ \A v \in qc[2] \cap Node : <<qc[1], v>> \in sentVotes
    /\ CertificatesBacked

\* A stack of good calls stays one if the follow-ups are good.
LEMMA StackGrows ==
    ASSUME TypeOK, NEW G, NEW H, G \subseteq H, todo \in [Node -> Seq(G)],
           NEW n \in Node, Step(n), FollowUps(n) \subseteq H
    PROVE  todo' \in [Node -> Seq(H)]
<1>1. todo \in [Node -> Seq(H)]
  <2>1. \A s \in Seq(G) : s \in Seq(H)
    OBVIOUS
  <2> QED BY <2>1
<1>2. CASE UNCHANGED todo
  BY <1>1, <1>2
<1>3. CASE Unwind(n)
  BY <1>1, <1>3, UnwindTypes
<1>4. ASSUME NEW cs \in Seq(FollowUps(n)), Calls(n, cs)
      PROVE  todo' \in [Node -> Seq(H)]
  <2>1. cs \in Seq(H)
    OBVIOUS
  <2>2. Tail(todo[n]) \in Seq(H)
    BY <1>1, StepPushes, HeadTailProperties
  <2>3. cs \o Tail(todo[n]) \in Seq(H)
    BY <2>1, <2>2, ConcatProperties
  <2> QED BY <1>1, <1>4, <2>3 DEF Calls
<1> QED BY <1>2, <1>3, <1>4, StepPushes

\* Broadcast votes stay broadcast, so what is backed stays backed.
LEMMA BackedStays ==
    ASSUME sentVotes \subseteq sentVotes'
    PROVE  /\ \A p : Backed(p) => Backed(p)'
           /\ BackedCalls \subseteq BackedCalls'
<1>1. \A p : Backed(p) => Backed(p)'
  BY DEF Backed
<1> QED BY <1>1 DEF BackedCalls

\* The calls made by a backed call are backed.
LEMMA BackedFollowUps ==
    ASSUME TypeOK, BackedInv, NEW n \in Node, todo[n] # <<>>
    PROVE  Arg(n) \in BackedCalls /\ FollowUps(n) \subseteq BackedCalls
<1>1. Arg(n) \in BackedCalls
  BY HeadTailProperties DEF BackedInv, Arg
<1>2. \A p \in buffered[n] : Backed(p)
  BY DEF BackedInv, Book
<1>3. ASSUME NEW c \in FollowUps(n) PROVE c \in BackedCalls
  <2> DEFINE vs == Arg(n).vs
  <2>1. \A p \in c.vs : Backed(p)
    BY <1>1, <1>2 DEF BackedCalls, FollowUps
  <2>2. ASSUME c.op = "InsertQc"
        PROVE  /\ \A p \in c.vs : p[1] = c.b
               /\ Cardinality(Signers(c.b, c.vs)) >= QuorumThreshold
    <3>1. /\ Arg(n).op = "ImportQcs" /\ c.b \in {p[1] : p \in vs}
          /\ c.vs = {p \in vs : p[1] = c.b}
      BY <2>2 DEF FollowUps
    <3>2. {p \in c.vs : p[1] = c.b} = {p \in vs : p[1] = c.b}
      BY <3>1
    <3>3. Signers(c.b, c.vs) = Signers(c.b, vs)
      BY <3>2 DEF Signers
    <3>4. Cardinality(Signers(c.b, vs)) >= QuorumThreshold
      BY <1>1, <3>1 DEF BackedCalls
    <3> QED BY <3>1, <3>3, <3>4
  <2>3. ASSUME c.op = "ImportQcs", NEW b \in {p[1] : p \in c.vs}
        PROVE  Cardinality(Signers(b, c.vs)) >= QuorumThreshold
    <3>1. Arg(n).op = "ImportQcs" /\ c.vs \subseteq vs
          /\ \A p \in c.vs : {q \in vs : q[1] = p[1]} \subseteq c.vs
      BY <2>3 DEF FollowUps
    <3>2. {p \in c.vs : p[1] = b} = {p \in vs : p[1] = b}
      BY <2>3, <3>1
    <3>3. Signers(b, c.vs) = Signers(b, vs)
      BY <3>2 DEF Signers
    <3>4. Cardinality(Signers(b, vs)) >= QuorumThreshold
      BY <1>1, <2>3, <3>1 DEF BackedCalls
    <3> QED BY <3>3, <3>4
  <2>4. c \in Call
    BY DEF FollowUps
  <2> QED BY <2>1, <2>2, <2>3, <2>4 DEF BackedCalls
<1> QED BY <1>1, <1>3

\* A vote enters a node's book from the call at hand, or it is the node's own and
\* has been broadcast.
LEMMA BookGrows ==
    ASSUME TypeOK, NEW n \in Node, Step(n)
    PROVE  \A m \in Node : \A p \in Book(m)' :
              p \in Book(m) \/ p \in Arg(n).vs \/ p \in sentVotes'
<1> DEFINE Old(p) == p \in Arg(n).vs \/ p \in sentVotes'
<1>1. votes \in [Node -> SUBSET Vote] /\ buffered \in [Node -> SUBSET Vote] /\ Arg(n).vs \in SUBSET Vote
  BY StepPushes, StackTypes DEF TypeOK
<1>2. ASSUME NEW V, NEW B, votes' = [votes EXCEPT ![n] = V], buffered' = [buffered EXCEPT ![n] = B],
             \A p \in V \cup B : p \in Book(n) \/ Old(p)
      PROVE  \A m \in Node : \A p \in Book(m)' : p \in Book(m) \/ Old(p)
  BY <1>1, <1>2 DEF Book
<1>3. CASE UNCHANGED voteVars
  BY <1>3 DEF voteVars, Book
<1>4. ASSUME NEW p, StoreVote(n, p), p \in Book(n) \/ Old(p)
      PROVE  \A m \in Node : \A q \in Book(m)' : q \in Book(m) \/ Old(q)
  <2> DEFINE out == EvictedVotes(n, p)
  <2>1. CASE p[1] \in Known(n)
    <3> DEFINE V == (votes[n] \ out) \cup {p}
               B == buffered[n] \ out
    <3>1. votes' = [votes EXCEPT ![n] = V] /\ buffered' = [buffered EXCEPT ![n] = B]
      BY <1>4, <2>1 DEF StoreVote
    <3>2. \A q \in V \cup B : q \in Book(n) \/ Old(q)
      BY <1>4 DEF Book
    <3> HIDE DEF V, B, Old
    <3> QED BY <1>2, <3>1, <3>2
  <2>2. CASE p[1] \notin Known(n)
    <3> DEFINE V == votes[n] \ out
               B == (buffered[n] \ out) \cup {p}
    <3>1. votes' = [votes EXCEPT ![n] = V] /\ buffered' = [buffered EXCEPT ![n] = B]
      BY <1>4, <2>2 DEF StoreVote
    <3>2. \A q \in V \cup B : q \in Book(n) \/ Old(q)
      BY <1>4 DEF Book
    <3> HIDE DEF V, B, Old
    <3> QED BY <1>2, <3>1, <3>2
  <2> QED BY <2>1, <2>2
<1> HIDE DEF Old
<1>5. CASE ImportBuffered(n) \/ BuildQc(n) \/ InsertQc(n) \/ RetainChain(n)
  <2>1. \A m \in Node : votes'[m] \subseteq votes[m] /\ buffered'[m] \subseteq buffered[m]
    BY <1>1, <1>5 DEF ImportBuffered, BuildQc, InsertQc, RetainChain, PruneVotes, voteVars
  <2> QED BY <2>1 DEF Book
<1>6. CASE ImportVotes(n)
  <2>1. CASE Arg(n).vs = {}
    BY <1>3, <1>6, <2>1 DEF ImportVotes, Old
  <2>2. CASE Arg(n).vs # {}
    <3> DEFINE p == FirstVote(Arg(n).vs)
    <3>1. p \in Arg(n).vs
      BY <1>1, <2>2, FirstVoteIn
    <3>2. UNCHANGED voteVars \/ StoreVote(n, p)
      BY <1>6, <2>2 DEF ImportVotes, ImportVote
    <3> HIDE DEF p
    <3> QED BY <1>3, <1>4, <3>1, <3>2 DEF Old
  <2> QED BY <2>1, <2>2
<1>7. CASE LocalVote(n)
  <2> DEFINE p == <<Arg(n).b, n>>
  <2>1. CASE UNCHANGED voteVars
    BY <1>3, <2>1 DEF Old
  <2>2. CASE ~UNCHANGED voteVars
    <3>1. /\ StoreVote(n, p)
          /\ LET inserted == p \notin (IF p[1] \in Known(n) THEN votes[n] ELSE buffered[n])
             IN  sentVotes' = IF inserted /\ p[2] = n THEN sentVotes \cup {p} ELSE sentVotes
      BY <1>7, <2>2 DEF LocalVote, ImportVote
    <3>2. p \in Book(n) \/ p \in sentVotes'
      BY <3>1 DEF Book
    <3> HIDE DEF p
    <3> QED BY <1>4, <3>1, <3>2 DEF Old
  <2> QED BY <2>1, <2>2
<1>8. CASE StoreQcVotes(n)
  <2> DEFINE p == FirstVote(Arg(n).vs)
  <2>1. CASE Arg(n).vs = {}
    BY <1>3, <1>8, <2>1 DEF StoreQcVotes, Old
  <2>2. CASE Arg(n).vs # {}
    <3>1. p \in Arg(n).vs
      BY <1>1, <2>2, FirstVoteIn
    <3>2. \/ UNCHANGED voteVars
          \/ StoreVote(n, p)
          \/ /\ votes' = [votes EXCEPT ![n] = DropSameHeightVotes(@, p)]
             /\ buffered' = [buffered EXCEPT ![n] = DropSameHeightVotes(@, p)]
      BY <1>8 DEF StoreQcVotes
    <3> HIDE DEF p
    <3>3. DropSameHeightVotes(votes[n], p) \subseteq votes[n]
          /\ DropSameHeightVotes(buffered[n], p) \subseteq buffered[n]
      BY DEF DropSameHeightVotes
    <3>4. CASE /\ votes' = [votes EXCEPT ![n] = DropSameHeightVotes(@, p)]
               /\ buffered' = [buffered EXCEPT ![n] = DropSameHeightVotes(@, p)]
      BY <1>2, <3>3, <3>4 DEF Book
    <3> QED BY <1>3, <1>4, <3>1, <3>2, <3>4 DEF Old
  <2> QED BY <2>1, <2>2
<1> QED BY <1>3, <1>5, <1>6, <1>7, <1>8, QuietSteps DEF Step, Old

\* Only the finalisation and the import of a certificate store one, and applying
\* a payload forgets some; only finalisation sends one.
LEMMA QcMoves ==
    ASSUME NEW n \in Node, Step(n)
    PROVE  /\ sentVotes \subseteq sentVotes'
           /\ BuildQc(n) \/ InsertQc(n) \/ RetainChain(n) \/ UNCHANGED qcs
           /\ BuildQc(n) \/ UNCHANGED sentQcs
<1>1. CASE \/ AcceptDuplicate(n) \/ AcceptCompeting(n) \/ AcceptUncertified(n)
           \/ AcceptExtension(n) \/ AcceptGated(n) \/ CompeteUnlessTip(n)
           \/ CompetingVote(n) \/ AdoptPreferred(n) \/ ReturnTip(n)
           \/ Accepted(n) \/ Broadcast(n) \/ Orphaned(n) \/ Promote(n)
  BY <1>1 DEF AcceptDuplicate, AcceptCompeting, AcceptUncertified, AcceptExtension, AcceptGated,
         CompeteUnlessTip, CompetingVote, AdoptPreferred, ReturnTip, Accepted, Broadcast, Orphaned,
         Promote, sent
<1>2. CASE ImportVotes(n) \/ LocalVote(n)
  BY <1>2 DEF ImportVotes, LocalVote, ImportVote
<1>3. CASE \/ ImportBuffered(n) \/ VoteTip(n) \/ SupportPreferred(n) \/ FinalizeKnownQc(n)
           \/ NoQcYet(n) \/ AdoptCertified(n) \/ BetterChild(n) \/ StoreQcVotes(n)
           \/ QcEnd(n) \/ ImportQcs(n) \/ DrainBuffered(n)
  BY <1>3 DEF ImportBuffered, VoteTip, SupportPreferred, FinalizeKnownQc, NoQcYet, AdoptCertified,
         BetterChild, StoreQcVotes, QcEnd, ImportQcs, DrainBuffered, sent
<1>4. CASE BuildQc(n) \/ InsertQc(n) \/ RetainChain(n)
  BY <1>4 DEF BuildQc, InsertQc, RetainChain, sent
<1> QED BY <1>1, <1>2, <1>3, <1>4 DEF Step

\* Every call keeps votes and certificates backed.
LEMMA BackedStep ==
    ASSUME TypeOK, BackedInv, NEW n \in Node, Step(n)
    PROVE  BackedInv'
<1>1. sentVotes \subseteq sentVotes'
  BY QcMoves
<1>2. Arg(n) \in BackedCalls /\ FollowUps(n) \subseteq BackedCalls
  BY StepPushes, BackedFollowUps
<1>3. BackedCalls \subseteq BackedCalls' /\ \A p : Backed(p) => Backed(p)'
  BY <1>1, BackedStays
<1>4. todo' \in [Node -> Seq(BackedCalls')]
  <2> DEFINE G == BackedCalls
             H == BackedCalls'
  <2>1. G \subseteq H /\ FollowUps(n) \subseteq H /\ todo \in [Node -> Seq(G)]
    BY <1>2, <1>3 DEF BackedInv
  <2> HIDE DEF G, H
  <2>2. todo' \in [Node -> Seq(H)]
    BY <2>1, StackGrows
  <2> QED BY <2>2 DEF H
<1>5. \A m \in Node : \A p \in Book(m)' : Backed(p)'
  <2>1. \A p \in Arg(n).vs : Backed(p)
    BY <1>2 DEF BackedCalls
  <2> QED BY <1>3, <2>1, BookGrows DEF BackedInv, Backed
<1>6. qcs \in [Node -> [Blocks -> SUBSET Validators]]
  BY DEF TypeOK
<1> DEFINE Real(b, V) == /\ Cardinality(V) >= QuorumThreshold
                         /\ \A v \in V \cap Node : <<b, v>> \in sentVotes'
<1>7. \A m \in Node, b \in Blocks : qcs[m][b] # {} => Real(b, qcs[m][b])
  BY <1>1 DEF BackedInv, CertificatesBacked, HasQc
<1>8. \A qc \in sentQcs : Real(qc[1], qc[2])
  BY <1>1 DEF BackedInv
<1>9. CASE BuildQc(n)
  <2> DEFINE b == Arg(n).b
             V == Voters(n, b)
  <2>1. /\ qcs' = [qcs EXCEPT ![n][b] = V] /\ sentQcs' = sentQcs \cup {<<b, V>>}
        /\ Cardinality(V) >= QuorumThreshold
    BY <1>9 DEF BuildQc, CanCertify
  <2>2. \A v \in V \cap Node : <<b, v>> \in sentVotes'
    BY <1>1 DEF Voters, BackedInv, Backed, Book
  <2>3. Real(b, V)
    BY <2>1, <2>2
  <2> HIDE DEF b, V, Real
  <2>4. \A m \in Node, c \in Blocks : qcs'[m][c] = qcs[m][c] \/ (c = b /\ qcs'[m][c] = V)
    BY <1>6, <2>1
  <2>5. \A m \in Node, c \in Blocks : qcs'[m][c] # {} => Real(c, qcs'[m][c])
    BY <1>7, <2>3, <2>4
  <2>6. \A qc \in sentQcs' : Real(qc[1], qc[2])
    BY <1>8, <2>1, <2>3
  <2> QED BY <1>4, <1>5, <2>5, <2>6 DEF BackedInv, CertificatesBacked, HasQc, Real
<1>10. CASE ~BuildQc(n)
  <2>1. UNCHANGED sentQcs
    BY <1>10, QcMoves
  <2>2. \A m \in Node, c \in Blocks : qcs'[m][c] # {} => Real(c, qcs'[m][c])
    <3>1. CASE UNCHANGED qcs
      BY <1>7, <3>1
    <3>2. CASE RetainChain(n)
      <4>1. \A m \in Node, c \in Blocks : qcs'[m][c] \in {qcs[m][c], {}}
        BY <1>6, <3>2 DEF RetainChain
      <4> HIDE DEF Real
      <4> QED BY <1>7, <4>1
    <3>3. CASE InsertQc(n) /\ ~UNCHANGED qcs
      <4> DEFINE b == Arg(n).b
                 V == {p[2] : p \in Arg(n).vs}
      <4>1. qcs' = [qcs EXCEPT ![n][b] = V] /\ Arg(n).op = "InsertQc"
        BY <3>3 DEF InsertQc, Top, Arg
      <4>2. \A p \in Arg(n).vs : p[1] = b /\ Backed(p) /\ p \in Vote
        BY <1>2, <4>1 DEF BackedCalls, Call
      <4>3. Signers(b, Arg(n).vs) = V /\ Cardinality(Signers(b, Arg(n).vs)) >= QuorumThreshold
        BY <1>2, <4>1, <4>2 DEF Signers, BackedCalls
      <4>4. \A v \in V \cap Node : <<b, v>> \in sentVotes'
        <5> TAKE v \in V \cap Node
        <5>1. PICK p \in Arg(n).vs : p[2] = v
          OBVIOUS
        <5>2. p = <<b, v>>
          BY <4>2, <5>1 DEF Vote
        <5> QED BY <1>1, <4>2, <5>1, <5>2 DEF Backed
      <4>5. Real(b, V)
        BY <4>3, <4>4
      <4> HIDE DEF b, V, Real
      <4>6. \A m \in Node, c \in Blocks : qcs'[m][c] = qcs[m][c] \/ (c = b /\ qcs'[m][c] = V)
        BY <1>6, <4>1
      <4> QED BY <1>7, <4>5, <4>6
    <3> QED BY <1>10, <3>1, <3>2, <3>3, QcMoves
  <2> QED BY <1>4, <1>5, <1>8, <2>1, <2>2 DEF BackedInv, CertificatesBacked, HasQc
<1> QED BY <1>9, <1>10

\* Starting a handler with good calls gives good stacks.
LEMMA StartGrows ==
    ASSUME NEW G, NEW H, G \subseteq H, todo \in [Node -> Seq(G)],
           NEW n \in Node, NEW cs \in Seq(H), Start(n, cs)
    PROVE  todo' \in [Node -> Seq(H)]
<1>1. \A s \in Seq(G) : s \in Seq(H)
  OBVIOUS
<1> QED BY <1>1 DEF Start

\* The signers of all of V's votes for b are V.
LEMMA SignersOfProduct ==
    ASSUME NEW b, NEW V, NEW vs, {p \in vs : p[1] = b} = {b} \X V
    PROVE  Signers(b, vs) = V
<1>1. \A v \in V : <<b, v>> \in {p \in vs : p[1] = b} /\ <<b, v>>[2] = v
  OBVIOUS
<1>2. \A p \in {p \in vs : p[1] = b} : p[2] \in V
  OBVIOUS
<1> QED BY <1>1, <1>2 DEF Signers

\* What a message, a tick or a payload makes a node do first: the certificates
\* and votes it brings are real.
LEMMA BackedEvents ==
    ASSUME TypeOK, BackedInv, NEW n \in Node, Gossip(n) \/ Sync(n)
    PROVE  todo' \in [Node -> Seq(BackedCalls)] /\ UNCHANGED <<qcs, sentVotes, sentQcs>>
<1>1. UNCHANGED <<qcs, sentVotes, sentQcs>>
  <2>1. CASE Gossip(n)
    BY <2>1 DEF Gossip, ReceiveProposal, TickPropose, ReceiveVote, ReceiveQc, TickIdle, TickMissed,
           TickRebroadcast, sent
  <2>2. CASE Sync(n)
    BY <2>2 DEF Sync, ReceiveSnapshot, ReceiveSegment, ReceiveCertified, sent
  <2> QED BY <2>1, <2>2
<1>2. \A cs \in Seq(BackedCalls) : Start(n, cs) => todo' \in [Node -> Seq(BackedCalls)]
  BY StartGrows DEF BackedInv
<1>3. Do("Promote", Genesis) \in BackedCalls
  BY CallTypes DEF BackedCalls, Do
<1>4. \A op \in {"Accept", "QcEnd", "LocalVote", "DrainBuffered", "RetainChain"}, b \in Blocks :
         /\ Do(op, b) \in BackedCalls
         /\ \A from \in Callers : DoFrom(op, b, from) \in BackedCalls
  BY CallTypes DEF BackedCalls, Do, DoFrom, Ops
<1>5. ASSUME NEW b \in Blocks, NEW vs \in SUBSET Vote, \A p \in vs : Backed(p)
      PROVE  DoVotes("ImportVotes", b, vs) \in BackedCalls
  BY <1>5, CallTypes DEF BackedCalls, DoVotes, Ops
<1>6. ASSUME NEW b \in Blocks, NEW vs \in SUBSET Vote, \A p \in vs : Backed(p),
             \A c \in {p[1] : p \in vs} : Cardinality(Signers(c, vs)) >= QuorumThreshold
      PROVE  DoVotes("ImportQcs", b, vs) \in BackedCalls
  BY <1>6, CallTypes DEF BackedCalls, DoVotes, Ops
<1>7. \A p \in Vote : VoteAvailable(p) => Backed(p)
  BY DEF VoteAvailable, Backed, Outside
<1>8. ASSUME NEW b \in Blocks, NEW V \in Quorums, QcAvailable(b, V)
      PROVE  \A v \in V : Backed(<<b, v>>)
  <2>1. CASE <<b, V>> \in sentQcs
    BY <2>1 DEF BackedInv, Backed
  <2>2. CASE \A v \in V : VoteAvailable(<<b, v>>)
    BY <1>7, <2>2 DEF Quorums, Vote
  <2> QED BY <1>8, <2>1, <2>2 DEF QcAvailable
<1>9. ASSUME NEW b \in Blocks, ReceiveProposal(n, b) \/ TickPropose(n, b)
      PROVE  todo' \in [Node -> Seq(BackedCalls)]
  <2>1. /\ <<DoFrom("Accept", b, "peer")>> \in Seq(BackedCalls)
        /\ <<DoFrom("Accept", b, "local"), Do("Promote", Genesis)>> \in Seq(BackedCalls)
    BY <1>3, <1>4 DEF Callers
  <2> QED BY <1>2, <1>9, <2>1 DEF ReceiveProposal, TickPropose
<1>10. ASSUME NEW p \in Vote, ReceiveVote(n, p)
       PROVE  todo' \in [Node -> Seq(BackedCalls)]
  <2>1. p[1] \in Blocks /\ {p} \in SUBSET Vote /\ \A q \in {p} : Backed(q)
    BY <1>7, <1>10 DEF ReceiveVote, Vote
  <2>2. <<DoVotes("ImportVotes", p[1], {p})>> \in Seq(BackedCalls)
    BY <1>5, <2>1
  <2> QED BY <1>2, <1>10, <2>2 DEF ReceiveVote
<1>11. ASSUME NEW b \in Blocks, NEW V \in Quorums, ReceiveQc(n, b, V)
       PROVE  todo' \in [Node -> Seq(BackedCalls)]
  <2> DEFINE vs == VotesFor(b, V)
  <2>1. vs \in SUBSET Vote /\ \A p \in vs : p[1] = b
    BY DEF VotesFor, Vote, Quorums
  <2>2. \A p \in vs : Backed(p)
    BY <1>8, <1>11 DEF ReceiveQc, VotesFor
  <2>3. {p \in vs : p[1] = b} = {b} \X V
    BY DEF VotesFor
  <2>4. \A c \in {p[1] : p \in vs} : Cardinality(Signers(c, vs)) >= QuorumThreshold
    <3>1. Signers(b, vs) = V
      BY <2>3, SignersOfProduct
    <3>2. \A c \in {p[1] : p \in vs} : c = b
      BY <2>1
    <3> HIDE DEF vs
    <3> QED BY <3>1, <3>2 DEF Quorums
  <2>5. Start(n, <<DoVotes("ImportQcs", b, vs), Do("QcEnd", b)>>)
    BY <1>11 DEF ReceiveQc
  <2> HIDE DEF vs
  <2>6. <<DoVotes("ImportQcs", b, vs), Do("QcEnd", b)>> \in Seq(BackedCalls)
    BY <1>4, <1>6, <2>1, <2>2, <2>4
  <2> QED BY <1>2, <2>5, <2>6
<1>12. ASSUME TickIdle(n) \/ \E s \in OwnSlots(n) : TickMissed(n, s) \/ TickRebroadcast(n, s)
       PROVE  todo' \in [Node -> Seq(BackedCalls)]
  <2> DEFINE child == PreferredPendingChild(n)
             children == {b \in pending[n] : IsDirectChildOfHead(n, b)}
  <2>1. <<Do("Promote", Genesis)>> \in Seq(BackedCalls)
    BY <1>3
  <2>2. \/ Start(n, <<Do("Promote", Genesis)>>)
        \/ child # Genesis /\ Start(n, <<Do("LocalVote", child), Do("Promote", Genesis)>>)
    BY <1>12 DEF TickIdle, TickMissed, TickRebroadcast
  <2>3. ASSUME child # Genesis PROVE child \in Blocks
    <3>1. children \in SUBSET Blocks /\ children # {} /\ child = LatestBlock(children)
      BY <2>3 DEF PreferredPendingChild, TypeOK
    <3> HIDE DEF children
    <3> QED BY <3>1, LatestBlockIn
  <2> HIDE DEF child
  <2>4. child # Genesis => <<Do("LocalVote", child), Do("Promote", Genesis)>> \in Seq(BackedCalls)
    BY <1>3, <1>4, <2>3
  <2> QED BY <1>2, <2>1, <2>2, <2>4
<1>13. ASSUME NEW t \in Blocks, NEW S, NEW vs \in {{}, SyncVotes(S)}, ApplyChain(n, t, vs)
       PROVE  todo' \in [Node -> Seq(BackedCalls)]
  <2>1. vs \in SUBSET Vote /\ \A p \in vs : Backed(p)
    BY <1>7 DEF SyncVotes
  <2>2. <<DoVotes("ImportVotes", t, vs), Do("DrainBuffered", t),
          Do("RetainChain", t), Do("Promote", Genesis)>> \in Seq(BackedCalls)
    BY <1>3, <1>4, <1>5, <2>1
  <2> QED BY <1>2, <1>13, <2>2 DEF ApplyChain
<1>14. ASSUME NEW t \in Blocks, NEW base \in Blocks \cup {Genesis},
              NEW cert \in [Suffix(base, t) -> Quorums], ReceiveCertified(n, base, t, cert)
       PROVE  todo' \in [Node -> Seq(BackedCalls)]
  <2> DEFINE vs == {p \in Vote : p[1] \in Suffix(base, t) /\ p[2] \in cert[p[1]]}
  <2>1. \A b \in Suffix(base, t) : b \in Blocks /\ cert[b] \in Quorums /\ QcAvailable(b, cert[b])
    BY <1>14, ChainType DEF ReceiveCertified, Suffix
  <2>2. \A p \in vs : Backed(p)
    <3> TAKE p \in vs
    <3>1. p[1] \in Blocks /\ p = <<p[1], p[2]>> /\ p[2] \in cert[p[1]]
      BY DEF Vote
    <3> QED BY <1>8, <2>1, <3>1
  <2>3. ASSUME NEW c \in {p[1] : p \in vs} PROVE Cardinality(Signers(c, vs)) >= QuorumThreshold
    <3>1. c \in Suffix(base, t) /\ c \in Blocks /\ cert[c] \in Quorums
      BY <2>1
    <3>2. {p \in vs : p[1] = c} = {c} \X cert[c]
      BY <3>1 DEF Vote, Quorums
    <3>3. Signers(c, vs) = cert[c]
      BY <3>2, SignersOfProduct
    <3> QED BY <3>1, <3>3 DEF Quorums
  <2>4. Start(n, <<DoVotes("ImportQcs", t, vs), Do("Promote", Genesis), Do("QcEnd", t)>>)
    BY <1>14 DEF ReceiveCertified
  <2>5. vs \in SUBSET Vote
    OBVIOUS
  <2> HIDE DEF vs
  <2>6. <<DoVotes("ImportQcs", t, vs), Do("Promote", Genesis), Do("QcEnd", t)>> \in Seq(BackedCalls)
    BY <1>3, <1>4, <1>6, <2>2, <2>3, <2>5
  <2> QED BY <1>2, <2>4, <2>6
<1>15. CASE Gossip(n)
  BY <1>1, <1>9, <1>10, <1>11, <1>12, <1>15 DEF Gossip
<1>16. CASE Sync(n)
  BY <1>1, <1>13, <1>14, <1>16 DEF Sync, ReceiveSnapshot, ReceiveSegment
<1> QED BY <1>15, <1>16

\* A restart restores the votes of stored certificates, which are backed.
LEMMA BackedRestart ==
    ASSUME TypeOK, BackedInv, NEW n \in Node, Restart(n)
    PROVE  BackedInv'
<1>1. UNCHANGED <<todo, sentVotes, sentQcs>>
  BY DEF Restart, sent
<1>2. /\ votes \in [Node -> SUBSET Vote] /\ buffered \in [Node -> SUBSET Vote]
      /\ qcs \in [Node -> [Blocks -> SUBSET Validators]]
  BY DEF TypeOK
<1>3. \A m \in Node, b \in Blocks : qcs'[m][b] \in {qcs[m][b], {}}
  BY <1>2 DEF Restart
<1>4. CertificatesBacked'
  BY <1>1, <1>3 DEF BackedInv, CertificatesBacked, HasQc
<1>5. \A p \in RestoredVotes(n) : Backed(p)
  <2> TAKE p \in RestoredVotes(n)
  <2>1. p = <<p[1], p[2]>> /\ p[1] \in Blocks /\ p[2] \in qcs[n][p[1]]
    BY DEF RestoredVotes, Vote
  <2> QED BY <2>1 DEF BackedInv, CertificatesBacked, HasQc, Backed
<1>6. \A m \in Node : \A p \in Book(m)' : p \in Book(m) \/ p \in RestoredVotes(n)
  BY <1>2 DEF Restart, Book
<1>7. \A m \in Node : \A p \in Book(m)' : Backed(p)'
  BY <1>1, <1>5, <1>6 DEF BackedInv, Backed
<1>8. BackedCalls' = BackedCalls
  BY <1>1 DEF BackedCalls, Backed
<1> QED BY <1>1, <1>4, <1>7, <1>8 DEF BackedInv

\* Every certificate a node ever holds was signed by a quorum, and every modelled
\* validator among the signers did broadcast that vote: votes are neither invented
\* nor lost between import_proposal_vote, maybe_build_qc, the import of
\* certificates, sync payloads and restore_quorum_certificates.
THEOREM CertificatesStayBacked == Spec => []CertificatesBacked
<1>1. Init => BackedInv
  BY DEF Init, BackedInv, Book, CertificatesBacked, HasQc
<1>2. TypeOK /\ BackedInv /\ [Next]_vars => BackedInv'
  <2> SUFFICES ASSUME TypeOK, BackedInv, [Next]_vars PROVE BackedInv'
    OBVIOUS
  <2>1. ASSUME NEW n \in Node, Gossip(n) \/ Sync(n) PROVE BackedInv'
    <3>1. todo' \in [Node -> Seq(BackedCalls)] /\ UNCHANGED <<qcs, sentVotes, sentQcs>>
      BY <2>1, BackedEvents
    <3>2. UNCHANGED voteVars
      BY <2>1, QuietSteps
    <3>3. BackedCalls' = BackedCalls
      BY <3>1 DEF BackedCalls, Backed
    <3> QED BY <3>1, <3>2, <3>3 DEF BackedInv, Backed, Book, CertificatesBacked, HasQc, voteVars
  <2>2. CASE UNCHANGED <<votes, buffered, todo, qcs, sentVotes, sentQcs>>
    <3>1. BackedCalls' = BackedCalls
      BY <2>2 DEF BackedCalls, Backed
    <3> QED BY <2>2, <3>1 DEF BackedInv, Backed, Book, CertificatesBacked, HasQc
  <2>3. ASSUME NEW n \in Node, PeerStatusChange(n) PROVE BackedInv'
    BY <2>2, <2>3 DEF PeerStatusChange, voteVars, sent
  <2>4. CASE Next
    BY <2>1, <2>3, <2>4, BackedStep, BackedRestart DEF Next, Event, Recovery
  <2>5. CASE UNCHANGED vars
    BY <2>2, <2>5 DEF vars, voteVars, sent
  <2> QED BY <2>4, <2>5
<1>3. BackedInv => CertificatesBacked
  BY DEF BackedInv
<1> QED BY <1>1, <1>2, <1>3, TypeCorrect, PTL DEF Spec

\* Two certificates share more than a third of the validators.
LEMMA QuorumsIntersect ==
    ASSUME NEW P \in SUBSET Validators, Cardinality(P) >= QuorumThreshold,
           NEW Q \in SUBSET Validators, Cardinality(Q) >= QuorumThreshold
    PROVE  3 * Cardinality(P \cap Q) > Cardinality(Validators)
<1>1. IsFiniteSet(Validators) /\ IsFiniteSet(P) /\ IsFiniteSet(Q) /\ IsFiniteSet(P \cap Q)
  BY ValidatorsAssumption, FS_Subset
<1>2. Cardinality(P \cup Q) <= Cardinality(Validators)
  BY <1>1, FS_Subset
<1>3. Cardinality(P \cup Q) = Cardinality(P) + Cardinality(Q) - Cardinality(P \cap Q)
  BY <1>1, FS_Union
<1>4. /\ Cardinality(Validators) \in Nat /\ Cardinality(P) \in Nat /\ Cardinality(Q) \in Nat
      /\ Cardinality(P \cap Q) \in Nat /\ Cardinality(P \cup Q) \in Nat
  BY <1>1, FS_CardinalityType, FS_Union
<1>5. 3 * QuorumThreshold > 2 * Cardinality(Validators) /\ QuorumThreshold \in Nat
  BY <1>4 DEF QuorumThreshold
<1> HIDE DEF QuorumThreshold
<1> QED BY <1>2, <1>3, <1>4, <1>5

\* The validators that need not follow the code, or that have voted for two blocks of one
\* height.
DoubleVoters ==
    {v \in Validators : v \in Node =>
        \E b, c \in Blocks : /\ b # c /\ BlockNumber(b) = BlockNumber(c)
                             /\ <<b, v>> \in sentVotes /\ <<c, v>> \in sentVotes}

\* Nodes certify different blocks of one height only if more than a third of the
\* validators have voted for both: that quorum_certificate_threshold is large enough, and
\* that certificates are made of votes really cast, carries agreement as far as a
\* validator's vote is final.  Before the first certificate it is not
\* (can_replace_pre_qc_conflicting_vote), nor across a restart, which forgets votes.
THEOREM DisagreementNeedsDoubleVotes ==
    Spec => [](3 * Cardinality(DoubleVoters) <= Cardinality(Validators) => CertificatesAgree)
<1>1. ASSUME TypeOK, CertificatesBacked, 3 * Cardinality(DoubleVoters) <= Cardinality(Validators)
      PROVE  CertificatesAgree
  <2> SUFFICES ASSUME NEW n \in Node, NEW m \in Node, NEW b \in Blocks, NEW c \in Blocks,
                      HasQc(n, b), HasQc(m, c), BlockNumber(b) = BlockNumber(c), b # c
               PROVE  FALSE
    BY DEF CertificatesAgree
  <2> DEFINE P == qcs[n][b]
             Q == qcs[m][c]
  <2>1. P \in SUBSET Validators /\ Q \in SUBSET Validators
    BY <1>1 DEF TypeOK
  <2>2. 3 * Cardinality(P \cap Q) > Cardinality(Validators)
    BY <1>1, <2>1, QuorumsIntersect DEF CertificatesBacked
  <2>3. P \cap Q \subseteq DoubleVoters
    BY <1>1, <2>1 DEF CertificatesBacked, DoubleVoters
  <2>4. IsFiniteSet(DoubleVoters) /\ IsFiniteSet(P \cap Q)
    BY <2>1, ValidatorsAssumption, FS_Subset DEF DoubleVoters
  <2>5. Cardinality(P \cap Q) <= Cardinality(DoubleVoters)
    BY <2>3, <2>4, FS_Subset
  <2>6. Cardinality(P \cap Q) \in Nat /\ Cardinality(DoubleVoters) \in Nat /\ Cardinality(Validators) \in Nat
    BY <2>4, ValidatorsAssumption, FS_CardinalityType
  <2> HIDE DEF P, Q
  <2> QED BY <1>1, <2>2, <2>5, <2>6
<1> QED BY <1>1, TypeCorrect, CertificatesStayBacked, PTL

-----------------------------------------------------------------------------
(* Parked children.                                                         *)

\* Until a sync payload has been applied (RetainChain forgets the certificates of
\* other blocks) nothing is parked and no call can park a block.
PayloadInv ==
    \A n \in Node : \A i \in DOMAIN todo[n] :
        todo[n][i].op = "RetainChain" =>
            /\ pending[n] = {}
            /\ \A j \in 1..(i - 1) : todo[n][j].op \in QuietOps

\* Only accept_block parks a block.
LEMMA ParkingStep ==
    ASSUME TypeOK, NEW n \in Node, StoreMoves(n)
    PROVE  /\ \A m \in Node \ {n} : pending'[m] = pending[m] /\ tip'[m] = tip[m]
           /\ Arg(n).op # "Accept" /\ pending[n] = {} => pending'[n] = {}
<1>1. tip \in [Node -> Blocks \cup {Genesis}] /\ pending \in [Node -> SUBSET Blocks]
  BY DEF TypeOK
<1> QED BY <1>1 DEF StoreMoves, AdoptChain, chainVars

\* Where the elements of a concatenation and of a suffix come from.
LEMMA ConcatAt ==
    ASSUME NEW S, NEW s \in Seq(S), NEW t \in Seq(S)
    PROVE  /\ Len(s) \in Nat /\ Len(t) \in Nat /\ DOMAIN (s \o t) = 1..(Len(s) + Len(t))
           /\ \A i \in 1..Len(s) : (s \o t)[i] = s[i]
           /\ \A i \in (Len(s) + 1)..(Len(s) + Len(t)) : (s \o t)[i] = t[i - Len(s)]
<1> DEFINE q == s \o t
<1>1. /\ q \in Seq(S) /\ Len(q) = Len(s) + Len(t)
      /\ \A i \in 1..(Len(s) + Len(t)) : q[i] = IF i <= Len(s) THEN s[i] ELSE t[i - Len(s)]
  BY ConcatProperties
<1>2. Len(s) \in Nat /\ Len(t) \in Nat
  OBVIOUS
<1> HIDE DEF q
<1>3. DOMAIN q = 1..(Len(s) + Len(t))
  BY <1>1
<1>4. \A i \in 1..Len(s) : q[i] = s[i]
  BY <1>1, <1>2
<1>5. \A i \in (Len(s) + 1)..(Len(s) + Len(t)) : q[i] = t[i - Len(s)]
  BY <1>1, <1>2
<1> QED BY <1>2, <1>3, <1>4, <1>5 DEF q

LEMMA SuffixAt ==
    ASSUME NEW S, NEW s \in Seq(S), NEW e \in 1..Len(s)
    PROVE  /\ DOMAIN SubSeq(s, e + 1, Len(s)) = 1..(Len(s) - e)
           /\ \A i \in 1..(Len(s) - e) : SubSeq(s, e + 1, Len(s))[i] = s[i + e]
<1> DEFINE q == SubSeq(s, e + 1, Len(s))
<1>1. e \in Int /\ e + 1 \in Int /\ Len(s) \in Int /\ \A i \in (e + 1)..Len(s) : s[i] \in S
  OBVIOUS
<1>2. /\ q \in Seq(S) /\ Len(q) = IF e + 1 <= Len(s) THEN Len(s) - (e + 1) + 1 ELSE 0
      /\ \A i \in 1..(Len(s) - (e + 1) + 1) : q[i] = s[e + 1 + i - 1]
  BY <1>1, SubSeqProperties
<1> HIDE DEF q
<1>3. DOMAIN q = 1..(Len(s) - e)
  BY <1>1, <1>2
<1>4. \A i \in 1..(Len(s) - e) : q[i] = s[i + e]
  <2> TAKE i \in 1..(Len(s) - e)
  <2>1. i \in 1..(Len(s) - (e + 1) + 1) /\ e + 1 + i - 1 = i + e
    BY <1>1
  <2> QED BY <1>2, <2>1
<1> QED BY <1>3, <1>4 DEF q

\* Every call keeps PayloadInv.
LEMMA PayloadStep ==
    ASSUME TypeOK, PayloadInv, NEW n \in Node, Step(n)
    PROVE  PayloadInv'
<1> DEFINE s == todo[n]
           Guarded(q, P) == \A i \in DOMAIN q : q[i].op = "RetainChain" =>
                                P = {} /\ \A j \in 1..(i - 1) : q[j].op \in QuietOps
<1>1. /\ todo \in [Node -> Seq(Call)] /\ s \in Seq(Call) /\ s # <<>> /\ Arg(n) = s[1]
      /\ Len(s) \in Nat /\ DOMAIN s = 1..Len(s) /\ 1 \in DOMAIN s
  BY StepPushes, HeadTailProperties DEF TypeOK, Arg
<1>2. \A m \in Node : Guarded(todo[m], pending[m])
  BY DEF PayloadInv
<1>3. /\ \A m \in Node \ {n} : pending'[m] = pending[m]
      /\ Arg(n).op # "Accept" /\ pending[n] = {} => pending'[n] = {}
  BY StepMoves, ParkingStep
<1>4. \A m \in Node \ {n} : todo'[m] = todo[m]
  BY <1>1, StepPushes DEF Unwind, Calls
<1>5. ASSUME NEW i \in DOMAIN s, s[i].op = "RetainChain"
      PROVE  /\ pending'[n] = {} /\ \A j \in 1..(i - 1) : s[j].op \in QuietOps
             /\ i > 1 => Arg(n).op \in QuietOps
  <2>1. pending[n] = {} /\ \A j \in 1..(i - 1) : s[j].op \in QuietOps
    BY <1>2, <1>5
  <2>2. i > 1 => Arg(n).op \in QuietOps
    BY <1>1, <2>1
  <2>3. Arg(n).op # "Accept"
    BY <1>1, <1>5, <2>2 DEF QuietOps
  <2> QED BY <1>3, <2>1, <2>2, <2>3
<1>6. Guarded(todo'[n], pending'[n])
  <2>1. CASE UNCHANGED todo
    BY <1>5, <2>1
  <2>2. CASE Unwind(n)
    <3> DEFINE ends == {i \in DOMAIN s : s[i].op = "QcEnd"}
               end == CHOOSE i \in ends : \A j \in ends : i <= j
    <3>1. CASE ends = {}
      BY <1>1, <2>2, <3>1 DEF Unwind
    <3>2. CASE ends # {}
      <4>1. ends \in SUBSET Nat
        BY <1>1
      <4>2. \E i \in ends : \A j \in ends : i <= j
        <5> HIDE DEF ends
        <5> QED BY <3>2, <4>1, LeastNumber
      <4>3. end \in 1..Len(s)
        BY <1>1, <4>2
      <4>4. todo'[n] = SubSeq(s, end + 1, Len(s))
        BY <1>1, <2>2, <3>2 DEF Unwind
      <4> HIDE DEF end, ends
      <4> DEFINE q == SubSeq(s, end + 1, Len(s))
      <4>5. DOMAIN q = 1..(Len(s) - end) /\ \A i \in DOMAIN q : q[i] = s[i + end]
        <5> HIDE DEF s
        <5> QED BY <1>1, <4>3, SuffixAt
      <4> HIDE DEF q
      <4>6. ASSUME NEW i \in DOMAIN q, q[i].op = "RetainChain"
            PROVE  pending'[n] = {} /\ \A j \in 1..(i - 1) : q[j].op \in QuietOps
        <5> DEFINE k == i + end
        <5>1. k \in DOMAIN s /\ s[k].op = "RetainChain" /\ k \in Nat
          BY <1>1, <4>3, <4>5, <4>6
        <5>2. \A j \in 1..(i - 1) : j \in DOMAIN q /\ j + end \in 1..(k - 1)
          BY <1>1, <4>3, <4>5, <4>6
        <5> HIDE DEF k
        <5>3. pending'[n] = {} /\ \A j \in 1..(k - 1) : s[j].op \in QuietOps
          BY <1>5, <5>1
        <5> QED BY <4>5, <5>2, <5>3
      <4> QED BY <4>4, <4>6 DEF q
    <3> QED BY <3>1, <3>2
  <2>3. ASSUME NEW cs \in Seq(FollowUps(n)), Calls(n, cs)
        PROVE  Guarded(todo'[n], pending'[n])
    <3> DEFINE t == Tail(s)
               q == cs \o t
    <3>1. todo'[n] = q
      BY <1>1, <2>3 DEF Calls
    <3>2. t \in Seq(Call) /\ Len(t) = Len(s) - 1 /\ \A i \in 1..Len(t) : t[i] = s[i + 1]
      BY <1>1, HeadTailProperties
    <3>3. cs \in Seq(Call)
      BY DEF FollowUps
    <3> HIDE DEF t
    <3>4. /\ Len(cs) \in Nat /\ Len(t) \in Nat /\ DOMAIN q = 1..(Len(cs) + Len(t))
          /\ \A i \in 1..Len(cs) : q[i] = cs[i]
          /\ \A i \in (Len(cs) + 1)..(Len(cs) + Len(t)) : q[i] = t[i - Len(cs)]
      BY <3>2, <3>3, ConcatAt
    <3>5. \A i \in 1..Len(cs) : cs[i] \in FollowUps(n)
      OBVIOUS
    <3> HIDE DEF q
    <3>6. ASSUME NEW i \in DOMAIN q, q[i].op = "RetainChain"
          PROVE  pending'[n] = {} /\ \A j \in 1..(i - 1) : q[j].op \in QuietOps
      <4>1. ~(i \in 1..Len(cs))
        BY <3>4, <3>5, <3>6 DEF FollowUps
      <4> DEFINE k == i - Len(cs) + 1
      <4>2. i - Len(cs) \in 1..Len(t) /\ k \in 2..Len(s)
        BY <1>1, <3>2, <3>4, <4>1
      <4>3. k \in DOMAIN s /\ k > 1 /\ s[k] = q[i]
        <5>1. q[i] = t[i - Len(cs)]
          BY <3>4, <4>1
        <5>2. t[i - Len(cs)] = s[k]
          BY <3>2, <4>2
        <5> QED BY <1>1, <4>2, <5>1, <5>2
      <4>4. /\ pending'[n] = {} /\ \A j \in 1..(k - 1) : s[j].op \in QuietOps
            /\ Arg(n).op \in QuietOps
        BY <1>5, <3>6, <4>3
      <4>5. ASSUME NEW j \in 1..(i - 1) PROVE q[j].op \in QuietOps
        <5>1. CASE j \in 1..Len(cs)
          BY <3>4, <3>5, <4>4, <5>1 DEF FollowUps
        <5>2. CASE ~(j \in 1..Len(cs))
          <6>1. /\ j \in (Len(cs) + 1)..(Len(cs) + Len(t)) /\ j - Len(cs) \in 1..Len(t)
                /\ j - Len(cs) + 1 \in 1..(k - 1)
            BY <3>4, <4>1, <5>2
          <6>2. q[j] = s[j - Len(cs) + 1]
            BY <3>2, <3>4, <6>1
          <6> QED BY <4>4, <6>1, <6>2
        <5> QED BY <5>1, <5>2
      <4> QED BY <4>4, <4>5
    <3> QED BY <3>1, <3>6
  <2> QED BY <2>1, <2>2, <2>3, StepPushes
<1>7. \A m \in Node : Guarded(todo'[m], pending'[m])
  BY <1>2, <1>3, <1>4, <1>6
<1> QED BY <1>7 DEF PayloadInv

\* The calls outside the application of a sync payload.
PlainCalls == {c \in Call : c.op \notin {"RetainChain", "DrainBuffered"}}

\* Consensus messages and ticks start a handler with such calls.
LEMMA GossipStarts ==
    ASSUME TypeOK, NEW n \in Node, Gossip(n)
    PROVE  \E cs \in Seq(PlainCalls) : Start(n, cs)
<1> DEFINE F == PlainCalls
<1>0. /\ Do("Promote", Genesis) \in F
      /\ \A op \in {"Accept", "LocalVote", "QcEnd"}, b \in Blocks :
            Do(op, b) \in F /\ \A from \in Callers : DoFrom(op, b, from) \in F
      /\ \A op \in {"ImportVotes", "ImportQcs"}, b \in Blocks, vs \in SUBSET Vote : DoVotes(op, b, vs) \in F
  BY CallTypes DEF Do, DoFrom, DoVotes, Ops, PlainCalls
<1> HIDE DEF F
<1>1. ASSUME NEW b \in Blocks, ReceiveProposal(n, b) \/ TickPropose(n, b)
      PROVE  \E cs \in Seq(F) : Start(n, cs)
  <2>1. /\ <<DoFrom("Accept", b, "peer")>> \in Seq(F)
        /\ <<DoFrom("Accept", b, "local"), Do("Promote", Genesis)>> \in Seq(F)
    BY <1>0 DEF Callers
  <2> QED BY <1>1, <2>1 DEF ReceiveProposal, TickPropose
<1>2. ASSUME NEW p \in Vote, ReceiveVote(n, p) PROVE \E cs \in Seq(F) : Start(n, cs)
  <2>1. p[1] \in Blocks /\ {p} \in SUBSET Vote
    BY DEF Vote
  <2>2. <<DoVotes("ImportVotes", p[1], {p})>> \in Seq(F)
    BY <1>0, <2>1
  <2> QED BY <1>2, <2>2 DEF ReceiveVote
<1>3. ASSUME NEW b \in Blocks, NEW V \in Quorums, ReceiveQc(n, b, V)
      PROVE  \E cs \in Seq(F) : Start(n, cs)
  <2>1. VotesFor(b, V) \in SUBSET Vote
    BY DEF VotesFor, Vote, Quorums
  <2>2. <<DoVotes("ImportQcs", b, VotesFor(b, V)), Do("QcEnd", b)>> \in Seq(F)
    BY <1>0, <2>1
  <2> QED BY <1>3, <2>2 DEF ReceiveQc
<1>4. ASSUME TickIdle(n) \/ \E s \in OwnSlots(n) : TickMissed(n, s) \/ TickRebroadcast(n, s)
      PROVE  \E cs \in Seq(F) : Start(n, cs)
  <2> DEFINE child == PreferredPendingChild(n)
             children == {b \in pending[n] : IsDirectChildOfHead(n, b)}
  <2>1. <<Do("Promote", Genesis)>> \in Seq(F)
    BY <1>0
  <2>2. \/ Start(n, <<Do("Promote", Genesis)>>)
        \/ child # Genesis /\ Start(n, <<Do("LocalVote", child), Do("Promote", Genesis)>>)
    BY <1>4 DEF TickIdle, TickMissed, TickRebroadcast
  <2>3. ASSUME child # Genesis PROVE child \in Blocks
    <3>1. children \in SUBSET Blocks /\ children # {} /\ child = LatestBlock(children)
      BY <2>3 DEF PreferredPendingChild, TypeOK
    <3> HIDE DEF children
    <3> QED BY <3>1, LatestBlockIn
  <2> HIDE DEF child
  <2>4. child # Genesis => <<Do("LocalVote", child), Do("Promote", Genesis)>> \in Seq(F)
    BY <1>0, <2>3
  <2> QED BY <2>1, <2>2, <2>4
<1>5. \E cs \in Seq(F) : Start(n, cs)
  BY <1>1, <1>2, <1>3, <1>4 DEF Gossip
<1> QED BY <1>5 DEF F

\* An event starts a handler on an empty stack; only a payload queues RetainChain.
LEMMA PayloadEvent ==
    ASSUME TypeOK, PayloadInv, NEW n \in Node, Event(n)
    PROVE  PayloadInv'
<1> DEFINE Guarded(q, P) == \A i \in DOMAIN q : q[i].op = "RetainChain" =>
                                P = {} /\ \A j \in 1..(i - 1) : q[j].op \in QuietOps
<1>1. \A m \in Node : Guarded(todo[m], pending[m])
  BY DEF PayloadInv
<1>2. todo \in [Node -> Seq(Call)] /\ pending \in [Node -> SUBSET Blocks]
  BY DEF TypeOK
<1>3. \A m \in Node \ {n} : todo'[m] = todo[m] /\ pending'[m] = pending[m]
  <2>1. \A m \in Node \ {n} : pending'[m] = pending[m]
    BY EventMoves, ParkingStep
  <2>2. \A m \in Node \ {n} : todo'[m] = todo[m]
    <3>1. CASE Gossip(n)
      BY <1>2, <3>1 DEF Gossip, ReceiveProposal, TickPropose, ReceiveVote, ReceiveQc, TickIdle,
             TickMissed, TickRebroadcast, Start
    <3>2. CASE Sync(n)
      BY <1>2, <3>2 DEF Sync, ReceiveSnapshot, ReceiveSegment, ReceiveCertified, ApplyChain, Start
    <3>3. CASE Recovery(n)
      BY <3>3 DEF Recovery, PeerStatusChange, Restart
    <3> QED BY <3>1, <3>2, <3>3 DEF Event
  <2> QED BY <2>1, <2>2
<1>4. Guarded(todo'[n], pending'[n])
  <2>1. ASSUME NEW cs \in Seq({c \in Call : c.op # "RetainChain"}), Start(n, cs)
        PROVE  Guarded(todo'[n], pending'[n])
    BY <1>2, <2>1 DEF Start
  <2> DEFINE F == {c \in Call : c.op # "RetainChain"}
  <2>2. /\ Do("Promote", Genesis) \in F
        /\ \A op \in {"Accept", "LocalVote", "QcEnd"}, b \in Blocks :
              Do(op, b) \in F /\ \A from \in Callers : DoFrom(op, b, from) \in F
        /\ \A op \in {"ImportVotes", "ImportQcs"}, b \in Blocks, vs \in SUBSET Vote : DoVotes(op, b, vs) \in F
    BY CallTypes DEF Do, DoFrom, DoVotes, Ops
  <2> HIDE DEF F
  <2>3. CASE Gossip(n)
    <3>1. \A cs \in Seq(PlainCalls) : cs \in Seq(F)
      BY DEF PlainCalls, F
    <3> QED BY <2>1, <2>3, <3>1, GossipStarts DEF F
  <2>4. ASSUME NEW t \in Blocks, NEW vs, ApplyChain(n, t, vs)
        PROVE  Guarded(todo'[n], pending'[n])
    <3>1. /\ todo'[n] = <<DoVotes("ImportVotes", t, vs), Do("DrainBuffered", t),
                          Do("RetainChain", t), Do("Promote", Genesis)>>
          /\ pending'[n] = {}
      BY <1>2, <2>4 DEF ApplyChain, Start
    <3>2. /\ DoVotes("ImportVotes", t, vs).op = "ImportVotes" /\ Do("DrainBuffered", t).op = "DrainBuffered"
          /\ Do("Promote", Genesis).op = "Promote"
      BY DEF DoVotes, Do
    <3>3. "ImportVotes" \in QuietOps /\ "DrainBuffered" \in QuietOps
      BY DEF QuietOps, Ops
    <3> QED BY <3>1, <3>2, <3>3
  <2>5. ASSUME NEW t \in Blocks, NEW base \in Blocks \cup {Genesis},
               NEW cert \in [Suffix(base, t) -> Quorums], ReceiveCertified(n, base, t, cert)
        PROVE  Guarded(todo'[n], pending'[n])
    <3> DEFINE vs == {p \in Vote : p[1] \in Suffix(base, t) /\ p[2] \in cert[p[1]]}
    <3>1. vs \in SUBSET Vote
      OBVIOUS
    <3>2. Start(n, <<DoVotes("ImportQcs", t, vs), Do("Promote", Genesis), Do("QcEnd", t)>>)
      BY <2>5 DEF ReceiveCertified
    <3> HIDE DEF vs
    <3>3. <<DoVotes("ImportQcs", t, vs), Do("Promote", Genesis), Do("QcEnd", t)>> \in Seq(F)
      BY <2>2, <3>1
    <3> QED BY <2>1, <3>2, <3>3 DEF F
  <2>6. CASE Sync(n)
    BY <2>4, <2>5, <2>6 DEF Sync, ReceiveSnapshot, ReceiveSegment
  <2>7. CASE Recovery(n)
    BY <1>1, <1>2, <2>7 DEF Recovery, PeerStatusChange, Restart, chainVars
  <2> QED BY <2>3, <2>6, <2>7 DEF Event
<1>5. \A m \in Node : Guarded(todo'[m], pending'[m])
  BY <1>1, <1>3, <1>4
<1> QED BY <1>5 DEF PayloadInv

\* Certificates are only forgotten when a payload has been applied or on a restart.
LEMMA QcsStay ==
    ASSUME TypeOK, NEW n \in Node, (Step(n) /\ ~RetainChain(n)) \/ Gossip(n) \/ Sync(n) \/ PeerStatusChange(n)
    PROVE  \A m \in Node, b \in Blocks : qcs[m][b] # {} => qcs'[m][b] = qcs[m][b]
<1>1. qcs \in [Node -> [Blocks -> SUBSET Validators]]
  BY DEF TypeOK
<1>2. CASE BuildQc(n) \/ InsertQc(n)
  BY <1>1, <1>2 DEF BuildQc, InsertQc, HasQc
<1>3. CASE Gossip(n) \/ Sync(n) \/ PeerStatusChange(n)
  BY <1>3 DEF Gossip, ReceiveProposal, TickPropose, ReceiveVote, ReceiveQc, TickIdle, TickMissed,
         TickRebroadcast, Sync, ReceiveSnapshot, ReceiveSegment, ReceiveCertified, PeerStatusChange
<1> QED BY <1>2, <1>3, QcMoves

\* A move keeps parked children on certified blocks when no certificate is lost.
LEMMA MovesKeepParked ==
    ASSUME TypeOK, ParkedOnCertified, NEW n \in Node, StoreMoves(n),
           \A m \in Node, b \in Blocks : qcs[m][b] # {} => qcs'[m][b] = qcs[m][b]
    PROVE  ParkedOnCertified'
<1>1. /\ tip \in [Node -> Blocks \cup {Genesis}]
      /\ pending \in [Node -> SUBSET Blocks] /\ orphans \in [Node -> SUBSET Blocks]
  BY DEF TypeOK
<1>2. \A m \in Node : Chain[tip[m]] \subseteq Blocks
  BY <1>1, ChainType
<1> DEFINE On(c, m, t) == Parent[c] \in Chain[t] /\ qcs[m][Parent[c]] # {}
<1>3. \A m \in Node : \A c \in pending[m] : On(c, m, tip[m])
  BY DEF ParkedOnCertified, HasQc
<1>4. \A m \in Node \ {n} : pending'[m] = pending[m] /\ tip'[m] = tip[m]
  BY ParkingStep
<1>5. \A c \in pending'[n] : On(c, n, tip'[n]) /\ Parent[c] \in Blocks
  <2>1. CASE UNCHANGED <<tip, pending>>
    BY <1>2, <1>3, <2>1
  <2>2. ASSUME NEW b \in Blocks, IsDirectChildOfHead(n, b),
               pending' = [pending EXCEPT ![n] = @ \cup {b}], UNCHANGED tip
        PROVE  \A c \in pending'[n] : On(c, n, tip'[n]) /\ Parent[c] \in Blocks
    <3>1. Parent[b] = LatestCertified(n, tip[n]) /\ LatestCertified(n, tip[n]) # Genesis
      BY <2>2 DEF IsDirectChildOfHead, CertifiedHeadOnly, CertifiedHead
    <3>2. On(b, n, tip[n])
      BY <1>1, <3>1, LatestCertifiedIn DEF HasQc
    <3> HIDE DEF On
    <3>3. \A c \in pending'[n] : On(c, n, tip[n])
      BY <1>1, <1>3, <2>2, <3>2
    <3> QED BY <1>2, <2>2, <3>3 DEF On
  <2>3. ASSUME NEW b \in Blocks, Parent[b] = tip[n],
               tip' = [tip EXCEPT ![n] = b], UNCHANGED pending
        PROVE  \A c \in pending'[n] : On(c, n, tip'[n]) /\ Parent[c] \in Blocks
    <3>1. Chain[b] = {b} \cup Chain[tip[n]] /\ tip'[n] = b
      BY <1>1, <2>3, ChainExtends
    <3> QED BY <1>2, <1>3, <2>3, <3>1
  <2>4. CASE pending' = [pending EXCEPT ![n] = {}]
    BY <1>1, <2>4
  <2> QED BY <2>1, <2>2, <2>3, <2>4 DEF StoreMoves, AdoptChain, chainVars
<1>6. ASSUME NEW m \in Node, NEW c \in pending'[m]
      PROVE  Parent[c] \in Chain[tip'[m]] /\ qcs'[m][Parent[c]] # {}
  <2>1. On(c, m, tip'[m]) /\ Parent[c] \in Blocks
    BY <1>2, <1>3, <1>4, <1>5, <1>6
  <2> QED BY <2>1
<1> QED BY <1>6 DEF ParkedOnCertified, HasQc

\* In every reachable state a parked child hangs off a certified block of the
\* node's own chain: adopt_canonical_chain and sync payloads clear the parked
\* children before a certificate they hang off can leave the chain.
THEOREM ParkedStayOnCertified == Spec => []ParkedOnCertified
<1>1. Init => PayloadInv /\ ParkedOnCertified
  BY DEF Init, PayloadInv, ParkedOnCertified
<1>2. TypeOK /\ PayloadInv /\ ParkedOnCertified /\ [Next]_vars => PayloadInv' /\ ParkedOnCertified'
  <2> SUFFICES ASSUME TypeOK, PayloadInv, ParkedOnCertified, [Next]_vars
               PROVE  PayloadInv' /\ ParkedOnCertified'
    OBVIOUS
  <2>1. PayloadInv'
    <3>1. CASE UNCHANGED vars
      BY <3>1 DEF vars, chainVars, PayloadInv
    <3> QED BY <3>1, PayloadStep, PayloadEvent DEF Next
  <2>2. ASSUME NEW n \in Node, RetainChain(n) PROVE ParkedOnCertified'
    <3>1. 1 \in DOMAIN todo[n] /\ todo[n][1].op = "RetainChain"
      BY <2>2 DEF RetainChain, Top, Idle, TypeOK
    <3>2. pending[n] = {}
      BY <3>1 DEF PayloadInv
    <3>3. UNCHANGED <<tip, pending>> /\ \A m \in Node \ {n} : qcs'[m] = qcs[m]
      BY <2>2 DEF RetainChain, chainVars, TypeOK
    <3> QED BY <3>2, <3>3 DEF ParkedOnCertified, HasQc
  <2>3. ASSUME NEW n \in Node, Restart(n) PROVE ParkedOnCertified'
    <3>1. /\ UNCHANGED tip /\ pending'[n] = {}
          /\ \A m \in Node \ {n} : pending'[m] = pending[m] /\ qcs'[m] = qcs[m]
      BY <2>3 DEF Restart, TypeOK
    <3> QED BY <3>1 DEF ParkedOnCertified, HasQc
  <2>4. ASSUME NEW n \in Node, Step(n) /\ ~RetainChain(n) PROVE ParkedOnCertified'
    BY <2>4, StepMoves, QcsStay, MovesKeepParked
  <2>5. ASSUME NEW n \in Node, Event(n), ~Restart(n) PROVE ParkedOnCertified'
    BY <2>5, EventMoves, QcsStay, MovesKeepParked DEF Event, Recovery
  <2>6. ASSUME UNCHANGED vars PROVE ParkedOnCertified'
    BY <2>6 DEF vars, chainVars, ParkedOnCertified, HasQc
  <2>7. ASSUME Next PROVE ParkedOnCertified'
    <3>1. PICK n \in Node : Step(n) \/ Event(n)
      BY <2>7 DEF Next
    <3>2. CASE Step(n)
      BY <2>2, <2>4, <3>2
    <3>3. CASE Event(n)
      BY <2>3, <2>5, <3>3
    <3> QED BY <3>1, <3>2, <3>3
  <2>8. ParkedOnCertified'
    BY <2>6, <2>7
  <2> QED BY <2>1, <2>8
<1> QED BY <1>1, <1>2, TypeCorrect, PTL DEF Spec

\* What a node keeps fits together in every reachable state, whatever proposals,
\* votes, certificates, sync payloads and restarts it meets in whatever order.
THEOREM NodeStaysConsistent == Spec => []NodeConsistent
<1>1. VoteBookConsistent /\ BlocksKeptOnce /\ CertificatesBacked /\ ParkedOnCertified => NodeConsistent
  BY DEF NodeConsistent
<1> QED BY <1>1, VoteBooksConsistent, BlocksStayOnce, CertificatesStayBacked, ParkedStayOnCertified, PTL

-----------------------------------------------------------------------------
(* The certified height.                                                    *)

\* A certified block of a chain is not above the chain's latest certified block.
HeightBound ==
    \A n \in Node, t \in Blocks \cup {Genesis} :
        /\ LatestCertified(n, t) \in Chain[t] \cup {Genesis}
        /\ \A b \in Chain[t] : HasQc(n, b) => BlockNumber(b) <= BlockNumber(LatestCertified(n, t))

\* ... in every state.
LEMMA CertifiedHeight == HeightBound
<1> SUFFICES ASSUME NEW n \in Node, NEW t \in Blocks \cup {Genesis}
             PROVE  /\ LatestCertified(n, t) \in Chain[t] \cup {Genesis}
                    /\ \A b \in Chain[t] : HasQc(n, b) => BlockNumber(b) <= BlockNumber(LatestCertified(n, t))
  BY DEF HeightBound
<1> DEFINE c == LatestCertified(n, t)
<1>1. Chain[t] \subseteq Blocks
  BY ChainType
<1>2. c \in Chain[t] \cup {Genesis}
  BY LatestCertifiedIn
<1>3. ASSUME NEW b \in Chain[t], HasQc(n, b) PROVE BlockNumber(b) <= BlockNumber(c)
  <2>1. c \in Blocks /\ b \in Chain[c] /\ b \in Blocks
    BY <1>1, <1>3, LatestCertifiedIn
  <2> HIDE DEF c
  <2>2. BlockNumber(b) \in Nat /\ BlockNumber(c) \in Nat /\ (b # c => BlockNumber(b) < BlockNumber(c))
    BY <2>1, ChainNumbers
  <2> QED BY <2>2
<1> QED BY <1>2, <1>3

\* A tuple that is greater is no smaller in its first place.
LEMMA LexFirst ==
    ASSUME NEW x, NEW y, NEW k \in Nat, DOMAIN x = 1..k,
           x[1] \in Nat, y[1] \in Nat, LexGreater(x, y)
    PROVE  x[1] >= y[1]
<1>1. PICK i \in 1..k : x[i] > y[i] /\ \A j \in 1..(i - 1) : x[j] = y[j]
  BY DEF LexGreater
<1>2. CASE i = 1
  BY <1>1, <1>2
<1>3. CASE i # 1
  <2>1. 1 \in 1..(i - 1)
    BY <1>3
  <2> QED BY <1>1, <2>1
<1> QED BY <1>2, <1>3

\* The first thing two branches are compared by is their certified height.
LEMMA BetterIsNotLower ==
    ASSUME NEW n \in Node, NEW t \in Blocks \cup {Genesis}, NEW u \in Blocks \cup {Genesis},
           Better(n, t, u)
    PROVE  BlockNumber(LatestCertified(n, t)) >= BlockNumber(LatestCertified(n, u))
<1> DEFINE ct == LatestCertified(n, t)
           cu == LatestCertified(n, u)
           rank(x, cx) == IF ct = Genesis THEN <<BlockNumber(cx), 0, 0>>
                          ELSE <<BlockNumber(cx), TipCertified(n, x), cx>>
           qt == BranchQuality(n, t, Genesis)
           qu == BranchQuality(n, u, Genesis)
           x == rank(t, ct) \o qt
           y == rank(u, cu) \o qu
<1>1. BlockNumber(ct) \in Nat /\ BlockNumber(cu) \in Nat
  BY CertifiedHeight, ChainType, ChainNumbers DEF HeightBound
<1>2. LexGreater(x, y)
  BY DEF Better
<1>3. \A z, cz, q1, q2, q3, q4, q5, q6 :
         LET w == rank(z, cz) \o <<q1, q2, q3, q4, q5, q6>>
         IN  DOMAIN w = 1..9 /\ w[1] = BlockNumber(cz)
  <2> TAKE z, cz, q1, q2, q3, q4, q5, q6
  <2> DEFINE r == rank(z, cz)
             q == <<q1, q2, q3, q4, q5, q6>>
             S == {BlockNumber(cz), 0, TipCertified(n, z), cz, q1, q2, q3, q4, q5, q6}
  <2>1. r \in Seq(S) /\ Len(r) = 3 /\ r[1] = BlockNumber(cz)
    <3>1. CASE ct = Genesis
      BY <3>1
    <3>2. CASE ct # Genesis
      BY <3>2
    <3> QED BY <3>1, <3>2
  <2>2. q \in Seq(S) /\ Len(q) = 6
    OBVIOUS
  <2> HIDE DEF r, q, S
  <2>3. /\ r \o q \in Seq(S) /\ Len(r \o q) = Len(r) + Len(q)
        /\ \A i \in 1..(Len(r) + Len(q)) : (r \o q)[i] = IF i <= Len(r) THEN r[i] ELSE q[i - Len(r)]
    BY <2>1, <2>2, ConcatProperties
  <2>4. DOMAIN (r \o q) = 1..9
    <3> DEFINE w == r \o q
    <3>1. w \in Seq(S) /\ Len(w) = 9
      BY <2>1, <2>2, <2>3
    <3> HIDE DEF w
    <3>2. DOMAIN w = 1..9
      BY <3>1
    <3> QED BY <3>2 DEF w
  <2>5. (r \o q)[1] = r[1]
    BY <2>1, <2>2, <2>3
  <2> QED BY <2>1, <2>4, <2>5 DEF r, q
<1>4. \A v : \E q1, q2, q3, q4, q5, q6 : BranchQuality(n, v, Genesis) = <<q1, q2, q3, q4, q5, q6>>
  BY DEF BranchQuality
<1> HIDE DEF rank, ct, cu
<1>5. DOMAIN x = 1..9 /\ x[1] = BlockNumber(ct) /\ y[1] = BlockNumber(cu)
  <2>1. PICK p1, p2, p3, p4, p5, p6 : qt = <<p1, p2, p3, p4, p5, p6>>
    BY <1>4
  <2>2. PICK q1, q2, q3, q4, q5, q6 : qu = <<q1, q2, q3, q4, q5, q6>>
    BY <1>4
  <2> HIDE DEF qt, qu
  <2>3. DOMAIN x = 1..9 /\ x[1] = BlockNumber(ct)
    BY <1>3, <2>1
  <2>4. y[1] = BlockNumber(cu)
    BY <1>3, <2>2
  <2> QED BY <2>3, <2>4
<1> HIDE DEF x, y
<1>6. x[1] >= y[1]
  BY <1>1, <1>2, <1>5, LexFirst
<1> QED BY <1>5, <1>6 DEF ct, cu

\* A node whose next chain still contains its certified head, certificate
\* included, loses no certified height.
LEMMA HeightKept ==
    ASSUME TypeOK, TypeOK', NEW n \in Node,
           CertifiedHead(n) # Genesis =>
              CertifiedHead(n) \in Chain[tip'[n]] /\ qcs'[n][CertifiedHead(n)] # {}
    PROVE  BlockNumber(CertifiedHead(n)') >= BlockNumber(CertifiedHead(n))
<1> DEFINE h == CertifiedHead(n)
           k == CertifiedHead(n)'
<1>1. tip[n] \in Blocks \cup {Genesis} /\ tip'[n] \in Blocks \cup {Genesis}
  BY DEF TypeOK
<1>2. HeightBound'
  BY CertifiedHeight, PTL
<1>3. /\ k \in Chain[tip'[n]] \cup {Genesis}
      /\ \A b \in Chain[tip'[n]] : qcs'[n][b] # {} => BlockNumber(b) <= BlockNumber(k)
  BY <1>1, <1>2 DEF HeightBound, CertifiedHead, HasQc
<1>4. Chain[tip'[n]] \subseteq Blocks
  BY <1>1, ChainType
<1> HIDE DEF h, k
<1>5. BlockNumber(k) \in Nat
  BY <1>3, <1>4, ChainNumbers
<1>6. CASE h = Genesis
  <2>1. BlockNumber(h) = 0
    BY <1>6, ChainType, FS_EmptySet DEF BlockNumber
  <2> QED BY <1>5, <2>1 DEF h, k
<1>7. CASE h # Genesis
  <2>1. BlockNumber(h) <= BlockNumber(k) /\ BlockNumber(h) \in Nat
    BY <1>3, <1>4, <1>7, ChainNumbers DEF h
  <2> QED BY <1>5, <2>1 DEF h, k
<1> QED BY <1>6, <1>7

\* How a call changes a chain with a certified head: it extends the chain, replaces
\* what is above the head, or moves to a better branch.
LEMMA HeadMoves ==
    ASSUME TypeOK, NEW n \in Node, Step(n), CertifiedHeadOnly(n)
    PROVE  \/ CertifiedHead(n) \in Chain[tip'[n]]
           \/ Better(n, tip'[n], tip[n]) /\ tip'[n] \in Blocks /\ UNCHANGED qcs
<1> DEFINE h == CertifiedHead(n)
           b == Arg(n).b
<1>1. tip \in [Node -> Blocks \cup {Genesis}]
  BY DEF TypeOK
<1>2. h \in Chain[tip[n]] /\ h \in Blocks
  BY <1>1, LatestCertifiedIn, ChainType DEF CertifiedHeadOnly, CertifiedHead
<1>3. CASE UNCHANGED tip
  BY <1>2, <1>3
<1>4. CASE AcceptExtension(n)
  <2>1. b \in Blocks /\ Parent[b] = tip[n] /\ tip' = [tip EXCEPT ![n] = b]
    BY <1>4, StepPushes, StackTypes DEF AcceptExtension, Top, Arg
  <2> HIDE DEF b, h
  <2>2. tip'[n] = b /\ Chain[b] = {b} \cup Chain[tip[n]]
    BY <1>1, <2>1, ChainExtends
  <2> QED BY <1>2, <2>2 DEF h
<1>5. CASE AdoptPreferred(n) \/ NoQcYet(n)
  <2>1. UNCHANGED tip
    BY <1>5 DEF AdoptPreferred, NoQcYet, chainVars
  <2> QED BY <1>3, <2>1
<1>6. CASE AdoptCertified(n) /\ ~UNCHANGED tip
  <2>1. b \in Blocks
    BY <1>6, StepPushes, StackTypes DEF AdoptCertified, Top, Arg
  <2>2. tip' = [tip EXCEPT ![n] = b] /\ Better(n, b, tip[n]) /\ UNCHANGED qcs
    BY <1>6 DEF AdoptCertified, CertifiedBranchWins, AdoptChain, chainVars
  <2>3. tip'[n] = b
    BY <1>1, <2>2
  <2> QED BY <2>1, <2>2, <2>3
<1>7. CASE BetterChild(n) /\ ~UNCHANGED tip
  <2> DEFINE C == KnownUncertifiedChildren(n)
             best == LatestBlock(C)
  <2>1. C # {} /\ tip' = [tip EXCEPT ![n] = best]
    BY <1>7 DEF BetterChild, AdoptChain, chainVars
  <2>2. C \in SUBSET Blocks /\ \A c \in C : Parent[c] = h
    BY KnownTypes DEF KnownUncertifiedChildren, IsDirectChildOfHead
  <2> HIDE DEF C
  <2>3. best \in Blocks /\ Parent[best] = h
    BY <2>1, <2>2, LatestBlockIn
  <2> HIDE DEF best, h
  <2>4. tip'[n] = best
    BY <1>1, <2>1
  <2>5. Chain[best] = {best} \cup Chain[h] /\ h \in Chain[h]
    BY <1>2, <2>3, ChainExtends, ChainClosed
  <2> QED BY <2>4, <2>5 DEF h
<1>8. CASE \/ AcceptDuplicate(n) \/ AcceptCompeting(n) \/ AcceptUncertified(n) \/ AcceptGated(n)
           \/ CompeteUnlessTip(n) \/ CompetingVote(n) \/ ReturnTip(n) \/ Accepted(n) \/ Broadcast(n)
           \/ Orphaned(n) \/ Promote(n)
  BY <1>3, <1>8 DEF AcceptDuplicate, AcceptCompeting, AcceptUncertified, AcceptGated, CompeteUnlessTip,
         CompetingVote, ReturnTip, Accepted, Broadcast, Orphaned, Promote, chainVars
<1>9. CASE \/ ImportBuffered(n) \/ ImportVotes(n) \/ LocalVote(n) \/ VoteTip(n) \/ SupportPreferred(n)
           \/ FinalizeKnownQc(n) \/ BuildQc(n) \/ StoreQcVotes(n) \/ InsertQc(n) \/ QcEnd(n)
           \/ ImportQcs(n) \/ DrainBuffered(n) \/ RetainChain(n)
  BY <1>3, <1>9 DEF ImportBuffered, ImportVotes, LocalVote, VoteTip, SupportPreferred, FinalizeKnownQc,
         BuildQc, StoreQcVotes, InsertQc, QcEnd, ImportQcs, DrainBuffered, RetainChain, chainVars
<1> QED BY <1>3, <1>4, <1>5, <1>6, <1>7, <1>8, <1>9 DEF Step

\* Without payloads the stacks hold plain calls only, so no call forgets certificates.
Payloadless == TypeOK /\ todo \in [Node -> Seq(PlainCalls)]

\* ... which every step of the protocol without payloads keeps true.
LEMMA PayloadlessStep ==
    ASSUME Payloadless, [GossipNext]_vars
    PROVE  Payloadless'
<1> USE DEF Payloadless
<1>1. ASSUME NEW n \in Node, Step(n) PROVE Payloadless'
  <2>1. Arg(n) \in PlainCalls
    BY <1>1, StepPushes, HeadTailProperties DEF Arg
  <2>2. FollowUps(n) \subseteq PlainCalls
    BY <2>1 DEF FollowUps, PlainCalls
  <2>3. todo' \in [Node -> Seq(PlainCalls)]
    BY <1>1, <2>2, StackGrows
  <2> QED BY <1>1, <2>3, StepTypes
<1>2. ASSUME NEW n \in Node, Gossip(n) PROVE Payloadless'
  <2>1. todo' \in [Node -> Seq(PlainCalls)]
    BY <1>2, GossipStarts, StartGrows
  <2> QED BY <1>2, <2>1, GossipTypes
<1>3. ASSUME NEW n \in Node, Recovery(n) PROVE Payloadless'
  <2>1. UNCHANGED todo
    BY <1>3 DEF Recovery, PeerStatusChange, Restart
  <2> QED BY <1>3, <2>1, RecoveryTypes
<1>4. ASSUME UNCHANGED vars PROVE Payloadless'
  <2>1. UNCHANGED todo /\ TypeOK'
    BY <1>4, StackStep DEF vars, TypeOK
  <2> QED BY <2>1
<1> QED BY <1>1, <1>2, <1>3, <1>4 DEF GossipNext

\* No step of the protocol without payloads lowers a certified height.
LEMMA HeightStep ==
    ASSUME Payloadless, GossipNext, NEW m \in Node
    PROVE  BlockNumber(CertifiedHead(m)') >= BlockNumber(CertifiedHead(m))
<1>1. TypeOK /\ TypeOK'
  BY PayloadlessStep DEF Payloadless
<1>2. /\ tip \in [Node -> Blocks \cup {Genesis}]
      /\ qcs \in [Node -> [Blocks -> SUBSET Validators]]
  BY <1>1 DEF TypeOK
<1> DEFINE h == CertifiedHead(m)
<1>3. h # Genesis => h \in Chain[tip[m]] /\ h \in Blocks /\ qcs[m][h] # {}
  BY <1>2, LatestCertifiedIn, ChainType DEF CertifiedHead, HasQc
<1>4. PICK n \in Node : Step(n) \/ Gossip(n) \/ PeerStatusChange(n) \/ Restart(n)
  BY DEF GossipNext, Recovery
<1>5. CASE Restart(n)
  <2>1. UNCHANGED tip /\ \A c \in Chain[tip[m]] : qcs'[m][c] = qcs[m][c]
    BY <1>2, <1>5, ChainType DEF Restart
  <2> QED BY <1>1, <1>3, <2>1, HeightKept
<1>6. CASE Gossip(n) \/ PeerStatusChange(n)
  <2>1. UNCHANGED tip
    BY <1>6 DEF Gossip, ReceiveProposal, TickPropose, ReceiveVote, ReceiveQc, TickIdle, TickMissed,
           TickRebroadcast, PeerStatusChange, chainVars
  <2>2. \A c \in Blocks : qcs[m][c] # {} => qcs'[m][c] = qcs[m][c]
    BY <1>1, <1>6, QcsStay
  <2> QED BY <1>1, <1>3, <2>1, <2>2, HeightKept
<1>7. CASE Step(n)
  <2>1. ~RetainChain(n)
    <3>1. Arg(n) \in PlainCalls
      BY <1>1, <1>7, StepPushes, HeadTailProperties DEF Arg, Payloadless
    <3> QED BY <3>1 DEF RetainChain, Top, Arg, PlainCalls
  <2>2. \A c \in Blocks : qcs[m][c] # {} => qcs'[m][c] = qcs[m][c]
    BY <1>1, <1>7, <2>1, QcsStay
  <2>3. CASE h \in Chain[tip'[m]] \/ h = Genesis
    BY <1>1, <1>3, <2>2, <2>3, HeightKept
  <2>4. CASE h \notin Chain[tip'[m]] /\ h # Genesis
    <3>1. m = n
      <4> SUFFICES ASSUME m # n PROVE FALSE
        OBVIOUS
      <4>1. StoreMoves(n)
        BY <1>1, <1>7, StepMoves
      <4>2. tip'[m] = tip[m]
        BY <1>1, <4>1, ParkingStep
      <4> QED BY <1>3, <2>4, <4>2
    <3>2. Better(m, tip'[m], tip[m]) /\ tip'[m] \in Blocks /\ UNCHANGED qcs
      BY <1>1, <1>7, <2>4, <3>1, HeadMoves DEF CertifiedHeadOnly
    <3>3. BlockNumber(LatestCertified(m, tip'[m])) >= BlockNumber(LatestCertified(m, tip[m]))
      BY <1>2, <3>2, BetterIsNotLower
    <3>4. CertifiedHead(m)' = LatestCertified(m, tip'[m])
      BY <3>2 DEF CertifiedHead, LatestCertified, HasQc
    <3> QED BY <3>3, <3>4 DEF CertifiedHead
  <2> QED BY <2>3, <2>4
<1> QED BY <1>4, <1>5, <1>6, <1>7

\* While no sync payload is applied the certified height of a node's chain never
\* falls: not by a vote, a proposal, a certificate, a promoted orphan or a restart,
\* in whatever order they come.
THEOREM HeightNeverFalls == GossipSpec => CertifiedHeightNeverFalls
<1>1. Init => Payloadless
  BY DEF Init, Payloadless, TypeOK
<1>2. Payloadless /\ [GossipNext]_vars => Payloadless'
  BY PayloadlessStep
<1>3. Payloadless /\ [GossipNext]_vars =>
        [\A n \in Node : BlockNumber(CertifiedHead(n)') >= BlockNumber(CertifiedHead(n))]_vars
  BY HeightStep
<1> QED BY <1>1, <1>2, <1>3, PTL DEF GossipSpec, CertifiedHeightNeverFalls
=============================================================================
