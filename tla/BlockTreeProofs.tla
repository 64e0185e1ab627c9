-------------------------- MODULE BlockTreeProofs --------------------------
(***************************************************************************)
(* Facts about the block tree, for every tree of finitely many blocks, and *)
(* the induction principles that they and the facts about a node need.     *)
(***************************************************************************)
EXTENDS BlockTree, SequenceTheorems, FiniteSetTheorems, WellFoundedInduction, TLAPS

-----------------------------------------------------------------------------
(* Induction, stated for sets instead of predicates: the library's theorems *)
(* take an operator as a parameter, which no backend instantiates.          *)

\* A non-empty set of natural numbers has a least element.
LEMMA LeastNumber ==
    ASSUME NEW T \in SUBSET Nat, T # {}
    PROVE  \E m \in T : \A k \in T : m <= k
<1> DEFINE R == {p \in Nat \X Nat : p[1] < p[2]}
<1>1. IsWellFoundedOn(R, Nat)
  BY NatLessThanWellFounded DEF OpToRel
<1> HIDE DEF R
<1>2. PICK m \in T : \A k \in T : ~(<<k, m>> \in R)
  BY <1>1, WFMin
<1>3. \A k \in T : ~(k < m)
  BY <1>2 DEF R
<1> QED BY <1>3

\* A set that holds zero and the successor of each of its numbers holds them all.
LEMMA NumbersReached ==
    ASSUME NEW S \in SUBSET Nat, 0 \in S, \A n \in S : n + 1 \in S
    PROVE  S = Nat
<1> SUFFICES ASSUME S # Nat PROVE FALSE
  OBVIOUS
<1>1. PICK m \in Nat \ S : \A k \in Nat \ S : m <= k
  BY LeastNumber
<1>2. m - 1 \in Nat /\ m - 1 \notin Nat \ S
  BY <1>1
<1> QED BY <1>1, <1>2

\* A set that holds the empty sequence and every extension of its sequences by one element
\* holds all sequences.
LEMMA SequencesReached ==
    ASSUME NEW T, NEW S \in SUBSET Seq(T), <<>> \in S, \A q \in S, x \in T : Append(q, x) \in S
    PROVE  S = Seq(T)
<1> DEFINE N == {n \in Nat : \A q \in Seq(T) : Len(q) = n => q \in S}
<1>1. 0 \in N
  BY EmptySeq
<1>2. ASSUME NEW n \in N PROVE n + 1 \in N
  <2> SUFFICES ASSUME NEW q \in Seq(T), Len(q) = n + 1 PROVE q \in S
    OBVIOUS
  <2>1. n \in Nat /\ q # <<>>
    BY EmptySeq
  <2>2. PICK front \in Seq(T), x \in T : q = Append(front, x)
    BY <2>1, SequenceEmptyOrAppend
  <2>3. Len(front) = n
    BY <2>1, <2>2
  <2>4. front \in S
    BY <2>3
  <2> QED BY <2>2, <2>4
<1>3. N = Nat
  <2> HIDE DEF N
  <2> QED BY <1>1, <1>2, NumbersReached DEF N
<1>4. ASSUME NEW q \in Seq(T) PROVE q \in S
  <2>1. Len(q) \in N
    BY <1>3
  <2> QED BY <2>1
<1> QED BY <1>4

\* A set of subsets of a finite set that holds a subset whenever it holds what is left of it
\* without one of its elements holds all subsets.
LEMMA SubsetsReached ==
    ASSUME NEW A, IsFiniteSet(A), NEW P \in SUBSET SUBSET A,
           \A S \in SUBSET A : (\A x \in S : S \ {x} \in P) => S \in P
    PROVE  P = SUBSET A
<1> DEFINE N == {n \in Nat : \A S \in SUBSET A : Cardinality(S) = n => S \in P}
<1>1. 0 \in N
  <2>1. ASSUME NEW S \in SUBSET A, Cardinality(S) = 0 PROVE S = {}
    BY <2>1, FS_Subset, FS_EmptySet
  <2> QED BY <2>1
<1>2. ASSUME NEW n \in N PROVE n + 1 \in N
  <2> SUFFICES ASSUME NEW S \in SUBSET A, Cardinality(S) = n + 1 PROVE S \in P
    OBVIOUS
  <2>1. ASSUME NEW x \in S PROVE S \ {x} \in P
    <3>1. IsFiniteSet(S) /\ n \in Nat
      BY FS_Subset
    <3>2. Cardinality(S \ {x}) = (n + 1) - 1
      BY <3>1, FS_RemoveElement
    <3> QED BY <3>1, <3>2
  <2> QED BY <2>1
<1>3. N = Nat
  <2> HIDE DEF N
  <2> QED BY <1>1, <1>2, NumbersReached DEF N
<1>4. ASSUME NEW S \in SUBSET A PROVE S \in P
  <2>1. Cardinality(S) \in N
    BY <1>3, FS_Subset, FS_CardinalityType
  <2> QED BY <2>1
<1> QED BY <1>4

\* A finite set of numbers can be listed in increasing order.
LEMMA Sortable ==
    ASSUME NEW P \in SUBSET Nat, IsFiniteSet(P)
    PROVE  \E s \in [1 .. Cardinality(P) -> P] : \A i, j \in DOMAIN s : i < j => s[i] < s[j]
<1> DEFINE Listed(Q, n) == \E s \in [1 .. n -> Q] : \A i, j \in 1 .. n : i < j => s[i] < s[j]
           S == {n \in Nat : \A Q \in SUBSET Nat : IsFiniteSet(Q) /\ Cardinality(Q) = n => Listed(Q, n)}
<1>1. 0 \in S
  <2>1. ASSUME NEW Q PROVE Listed(Q, 0)
    <3>1. <<>> \in [1 .. 0 -> Q] /\ \A i, j \in 1 .. 0 : i < j => <<>>[i] < <<>>[j]
      OBVIOUS
    <3> QED BY <3>1
  <2> QED BY <2>1
<1>2. ASSUME NEW n \in S PROVE n + 1 \in S
  <2> SUFFICES ASSUME NEW Q \in SUBSET Nat, IsFiniteSet(Q), Cardinality(Q) = n + 1
               PROVE  Listed(Q, n + 1)
    OBVIOUS
  <2>1. n \in Nat /\ Q # {}
    BY FS_EmptySet
  <2>2. PICK m \in Q : \A k \in Q : m <= k
    BY <2>1, LeastNumber
  <2> DEFINE R == Q \ {m}
  <2>3. R \in SUBSET Nat /\ IsFiniteSet(R) /\ Cardinality(R) = n
    BY <2>1, FS_RemoveElement
  <2>4. Listed(R, n)
    BY <2>3
  <2>5. PICK s \in [1 .. n -> R] : \A i, j \in 1 .. n : i < j => s[i] < s[j]
    BY <2>4
  <2> DEFINE z == [i \in 1 .. n + 1 |-> IF i = 1 THEN m ELSE s[i - 1]]
  <2>6. \A i \in 1 .. n + 1 : i = 1 \/ i - 1 \in 1 .. n
    BY <2>1
  <2>7. z \in [1 .. n + 1 -> Q]
    BY <2>5, <2>6
  <2>8. ASSUME NEW i \in 1 .. n + 1, NEW j \in 1 .. n + 1, i < j PROVE z[i] < z[j]
    <3>1. j - 1 \in 1 .. n /\ z[j] = s[j - 1] /\ s[j - 1] \in R
      BY <2>1, <2>5, <2>6, <2>8
    <3>2. CASE i = 1
      <4>1. z[i] = m /\ m <= s[j - 1] /\ m # s[j - 1] /\ m \in Nat /\ s[j - 1] \in Nat
        BY <2>2, <3>1, <3>2
      <4> QED BY <3>1, <4>1
    <3>3. CASE i # 1
      <4>1. i - 1 \in 1 .. n /\ i - 1 < j - 1 /\ z[i] = s[i - 1]
        BY <2>1, <2>6, <2>8, <3>3
      <4> QED BY <2>5, <3>1, <4>1
    <3> QED BY <3>2, <3>3
  <2> HIDE DEF z
  <2> QED BY <2>7, <2>8
<1>3. S = Nat
  <2> HIDE DEF S
  <2> QED BY <1>1, <1>2, NumbersReached DEF S
<1>4. Cardinality(P) \in Nat
  BY FS_CardinalityType
<1>5. Listed(P, Cardinality(P))
  BY <1>3, <1>4
<1> QED BY <1>4, <1>5

-----------------------------------------------------------------------------
(* The block tree.                                                          *)

\* The ancestry of a block is a set of blocks; the empty chain has none.
LEMMA ChainType ==
    /\ \A b \in Blocks \cup {Genesis} : Chain[b] \subseteq Blocks
    /\ Chain[Genesis] = {}
<1>1. \A b \in Blocks \cup {Genesis} : Chain[b] \subseteq Blocks
  BY DEF Chain
<1>2. Chain[Genesis] = {}
  <2>1. ParentClosed({}) /\ {} \in SUBSET Blocks
    BY DEF ParentClosed
  <2> QED BY <2>1 DEF Chain
<1> QED BY <1>1, <1>2

\* A block belongs to its own chain, and a chain contains the parents of its
\* blocks.
LEMMA ChainClosed ==
    ASSUME NEW b \in Blocks
    PROVE  b \in Chain[b] /\ ParentClosed(Chain[b])
<1>1. b \in Chain[b]
  BY BlocksAssumption DEF Chain
<1>2. ASSUME NEW c \in Chain[b], Parent[c] # Genesis
      PROVE  Parent[c] \in Chain[b]
  <2>1. c \in Blocks /\ Parent[c] \in Blocks
    BY <1>2, TreeAssumption DEF Chain
  <2>2. \A S \in SUBSET Blocks : ParentClosed(S) /\ b \in S => c \in S
    BY <1>2, BlocksAssumption DEF Chain
  <2>3. \A S \in SUBSET Blocks : ParentClosed(S) /\ b \in S => Parent[c] \in S
    BY <1>2, <2>2 DEF ParentClosed
  <2> QED BY <2>1, <2>3, BlocksAssumption DEF Chain
<1> QED BY <1>1, <1>2 DEF ParentClosed

\* The chain is the least parent-closed set with its tip.
LEMMA ChainLeast ==
    ASSUME NEW b \in Blocks, NEW S \in SUBSET Blocks, ParentClosed(S), b \in S
    PROVE  Chain[b] \subseteq S
BY DEF Chain

\* Ancestry is transitive.
LEMMA ChainTransitive ==
    ASSUME NEW b \in Blocks, NEW c \in Chain[b]
    PROVE  c \in Blocks /\ Chain[c] \subseteq Chain[b]
<1>1. c \in Blocks /\ Chain[b] \in SUBSET Blocks
  BY ChainType
<1> QED BY <1>1, ChainClosed, ChainLeast

\* Slots grow along a chain.
LEMMA ChainSlots ==
    ASSUME NEW b \in Blocks, NEW c \in Chain[b], c # b
    PROVE  Slot[c] < Slot[b]
<1> DEFINE S == {b} \cup {d \in Blocks : Slot[d] < Slot[b]}
<1>1. ParentClosed(S)
  BY TreeAssumption DEF ParentClosed
<1>2. Chain[b] \subseteq S
  <2> HIDE DEF S
  <2>1. S \in SUBSET Blocks /\ b \in S
    BY DEF S
  <2> QED BY <1>1, <2>1, ChainLeast
<1> QED BY <1>2

\* A chain is its tip and the chain of the tip's parent.
LEMMA ChainExtends ==
    ASSUME NEW b \in Blocks
    PROVE  Chain[b] = {b} \cup Chain[Parent[b]]
<1>1. Parent[b] \in Blocks \cup {Genesis}
  BY TreeAssumption
<1>2. Chain[Parent[b]] \subseteq Chain[b]
  <2>1. CASE Parent[b] = Genesis
    BY <2>1, ChainType
  <2>2. CASE Parent[b] # Genesis
    BY <1>1, <2>2, ChainClosed, ChainTransitive DEF ParentClosed
  <2> QED BY <2>1, <2>2
<1>3. Chain[b] \subseteq {b} \cup Chain[Parent[b]]
  <2> DEFINE S == {b} \cup Chain[Parent[b]]
  <2>1. S \in SUBSET Blocks
    BY <1>1, ChainType
  <2>2. ParentClosed(S)
    <3>1. CASE Parent[b] = Genesis
      BY <3>1, ChainType DEF ParentClosed
    <3>2. CASE Parent[b] # Genesis
      BY <1>1, <3>2, ChainClosed DEF ParentClosed
    <3> QED BY <3>1, <3>2
  <2> HIDE DEF S
  <2>3. b \in S
    BY DEF S
  <2>4. Chain[b] \subseteq S
    BY <2>1, <2>2, <2>3, ChainLeast
  <2> QED BY <2>4 DEF S
<1> QED BY <1>2, <1>3, ChainClosed

\* Two ancestors of one block are on one chain.
LEMMA ChainLinear ==
    ASSUME NEW b \in Blocks, NEW c \in Chain[b], NEW d \in Chain[b]
    PROVE  OnOneChain(c, d)
<1> DEFINE S == {e \in Chain[b] : d \in Chain[e]} \cup Chain[d]
<1>1. d \in Blocks /\ Chain[d] \subseteq Chain[b] /\ Chain[b] \subseteq Blocks
  BY ChainTransitive, ChainType
<1>2. b \in S
  BY ChainClosed
<1>3. ASSUME NEW e \in S, Parent[e] # Genesis PROVE Parent[e] \in S
  <2>1. CASE e \in Chain[d]
    BY <2>1, <1>1, <1>3, ChainClosed DEF ParentClosed
  <2>2. CASE e \in Chain[b] /\ d \in Chain[e] /\ e = d
    BY <2>2, <1>1, <1>3, ChainClosed DEF ParentClosed
  <2>3. CASE e \in Chain[b] /\ d \in Chain[e] /\ e # d
    <3>1. e \in Blocks /\ Parent[e] \in Blocks
      BY <1>1, <2>3, <1>3, TreeAssumption
    <3>2. Parent[e] \in Chain[b]
      BY <2>3, <1>3, ChainClosed DEF ParentClosed
    <3>3. d \in Chain[Parent[e]]
      BY <3>1, <2>3, ChainExtends
    <3> QED BY <3>2, <3>3
  <2> QED BY <2>1, <2>2, <2>3
<1>4. Chain[b] \subseteq S
  <2>1. ParentClosed(S)
    BY <1>3 DEF ParentClosed
  <2>2. S \in SUBSET Blocks
    BY <1>1
  <2> HIDE DEF S
  <2> QED BY <1>2, <2>1, <2>2, ChainLeast
<1>5. c \in Chain[d] \/ d \in Chain[c]
  BY <1>4
<1> QED BY <1>5 DEF OnOneChain

\* Block numbers grow along a chain, and they are natural numbers.
LEMMA ChainNumbers ==
    /\ \A b \in Blocks \cup {Genesis} : BlockNumber(b) \in Nat
    /\ \A b \in Blocks : \A c \in Chain[b] : c # b => BlockNumber(c) < BlockNumber(b)
<1>1. \A b \in Blocks \cup {Genesis} : IsFiniteSet(Chain[b]) /\ Cardinality(Chain[b]) \in Nat
  <2> TAKE b \in Blocks \cup {Genesis}
  <2>1. Chain[b] \in SUBSET Blocks
    BY ChainType
  <2> QED BY <2>1, BlocksAssumption, FS_Subset, FS_CardinalityType
<1>2. ASSUME NEW b \in Blocks, NEW c \in Chain[b], c # b
      PROVE  Cardinality(Chain[c]) < Cardinality(Chain[b])
  <2>1. c \in Blocks /\ Chain[c] \in SUBSET Chain[b]
    BY ChainTransitive
  <2>2. b \notin Chain[c]
    <3> SUFFICES ASSUME b \in Chain[c] PROVE FALSE
      OBVIOUS
    <3>1. Slot[b] < Slot[c] /\ Slot[c] < Slot[b]
      BY <1>2, <2>1, ChainSlots
    <3> QED BY <3>1, <2>1, TreeAssumption
  <2>3. Chain[c] # Chain[b]
    BY <2>2, ChainClosed
  <2>4. Cardinality(Chain[c]) <= Cardinality(Chain[b]) /\ Cardinality(Chain[b]) # Cardinality(Chain[c])
    BY <1>1, <2>1, <2>3, FS_Subset
  <2> QED BY <1>1, <2>1, <2>4
<1> QED BY <1>1, <1>2 DEF BlockNumber

\* Tuples of two integers are compared lexicographically.
LEMMA LexPair ==
    ASSUME NEW a \in Int, NEW b \in Int, NEW c \in Int, NEW d \in Int
    PROVE  LexGreater(<<a, b>>, <<c, d>>) <=> a > c \/ (a = c /\ b > d)
<1>1. DOMAIN <<a, b>> = {1, 2} /\ 1..(1 - 1) = {} /\ 1..(2 - 1) = {1}
  OBVIOUS
<1>2. LexGreater(<<a, b>>, <<c, d>>) <=>
        \E i \in {1, 2} : <<a, b>>[i] > <<c, d>>[i] /\ \A j \in 1..(i - 1) : <<a, b>>[j] = <<c, d>>[j]
  BY <1>1 DEF LexGreater
<1> QED BY <1>1, <1>2

\* A non-empty set of blocks has a latest block.
LEMMA LatestBlockIn ==
    ASSUME NEW S \in SUBSET Blocks, S # {}
    PROVE  /\ LatestBlock(S) \in S
           /\ \A c \in S : Slot[c] <= Slot[LatestBlock(S)]
<1> DEFINE After(b, c) == Slot[b] > Slot[c] \/ (Slot[b] = Slot[c] /\ b > c)
           HasLatest(U) == \E b \in U : \A c \in U \ {b} : After(b, c)
           Bad == {U \in SUBSET Blocks : U # {} /\ ~HasLatest(U)}
<1>1. \A b \in Blocks : b \in Nat /\ Slot[b] \in Nat
  BY BlocksAssumption, TreeAssumption
<1>2. Bad = {}
  <2> SUFFICES ASSUME Bad # {} PROVE FALSE
    OBVIOUS
  <2>1. Bad \subseteq FiniteSubsetsOf(Blocks)
    BY BlocksAssumption, FS_FiniteSubsetsOfFinite
  <2>2. PICK U \in Bad : \A V \in Bad : ~(<<V, U>> \in StrictSubsetOrdering(Blocks))
    <3> HIDE DEF Bad
    <3> QED BY <2>1, FS_StrictSubsetOrderingWellFounded, WFMin
  <2>3. PICK x \in U : TRUE
    OBVIOUS
  <2>4. <<U \ {x}, U>> \in StrictSubsetOrdering(Blocks)
    BY <2>3 DEF StrictSubsetOrdering
  <2>5. U \ {x} \notin Bad
    BY <2>2, <2>4
  <2>6. CASE U \ {x} = {}
    BY <2>6, <2>3
  <2>7. CASE U \ {x} # {}
    <3>1. PICK m \in U \ {x} : \A c \in U \ {x, m} : After(m, c)
      BY <2>5, <2>7
    <3>2. After(m, x) \/ After(x, m)
      BY <1>1, <2>3, <3>1
    <3>3. CASE After(m, x)
      BY <3>1, <3>3
    <3>4. CASE After(x, m)
      <4>1. \A c \in U \ {x} : After(x, c)
        BY <1>1, <2>3, <3>1, <3>4
      <4> QED BY <2>3, <4>1
    <3> QED BY <3>2, <3>3, <3>4
  <2> QED BY <2>6, <2>7
<1>3. \A b, c \in Blocks : LexGreater(<<Slot[b], b>>, <<Slot[c], c>>) <=> After(b, c)
  BY <1>1, LexPair
<1>4. \E b \in S : \A c \in S \ {b} : LexGreater(<<Slot[b], b>>, <<Slot[c], c>>)
  BY <1>2, <1>3
<1>5. /\ LatestBlock(S) \in S
      /\ \A c \in S \ {LatestBlock(S)} : LexGreater(<<Slot[LatestBlock(S)], LatestBlock(S)>>, <<Slot[c], c>>)
  BY <1>4 DEF LatestBlock
<1>6. ASSUME NEW c \in S PROVE Slot[c] <= Slot[LatestBlock(S)]
  <2>1. c = LatestBlock(S) \/ After(LatestBlock(S), c)
    BY <1>3, <1>5
  <2> QED BY <2>1, <1>1, <1>5
<1> QED BY <1>5, <1>6
=============================================================================
