-------------------------- MODULE NodeStateProofs --------------------------
(***************************************************************************)
(* What one node keeps.  The ledger is the replay of the chain, nonces are *)
(* used in sequence and transfers keep the supply, for every set of        *)
(* transactions, accounts and balances.  What a restart finds is what the  *)
(* node had, for every block tree, every set of receipts and any number of *)
(* restarts: without kills the files follow the chain, and with them few   *)
(* receipts are lost.                                                      *)
(***************************************************************************)
EXTENDS TxPool, Storage, BlockTreeProofs, SequenceTheorems

LEMMA ConcatAppend ==
    ASSUME NEW T, NEW p \in Seq(T), NEW q \in Seq(T), NEW x \in T
    PROVE  p \o Append(q, x) = Append(p \o q, x)
OBVIOUS

-----------------------------------------------------------------------------
(* Simulation.                                                              *)

Started(s) == [ledger |-> s, accepted |-> <<>>]

\* The results of a simulation after each of the first n transactions.
IsRun(run, s, txs, n) ==
    run = [i \in 0 .. n |-> IF i = 0 THEN Started(s) ELSE SimulateTx(run[i - 1], txs[i])]

LEMMA RunExists ==
    ASSUME NEW s, NEW txs, NEW n \in Nat
    PROVE  \E run : IsRun(run, s, txs, n)
<1> DEFINE S == {k \in Nat : \E run : IsRun(run, s, txs, k)}
<1>1. 0 \in S
  <2>1. IsRun([i \in 0 .. 0 |-> Started(s)], s, txs, 0)
    BY DEF IsRun
  <2> QED BY <2>1
<1>2. ASSUME NEW k \in S PROVE k + 1 \in S
  <2>1. k \in Nat
    OBVIOUS
  <2>2. PICK f : IsRun(f, s, txs, k)
    OBVIOUS
  <2> DEFINE g == [i \in 0 .. k + 1 |-> IF i = k + 1 THEN SimulateTx(f[k], txs[k + 1]) ELSE f[i]]
  <2>3. f[0] = Started(s) /\ \A i \in 1 .. k : f[i] = SimulateTx(f[i - 1], txs[i])
    BY <2>1, <2>2 DEF IsRun
  <2>4. \A i \in 0 .. k : g[i] = f[i]
    BY <2>1
  <2>5. g[k + 1] = SimulateTx(f[k], txs[k + 1])
    BY <2>1
  <2>6. \A i \in 0 .. k + 1 : g[i] = IF i = 0 THEN Started(s) ELSE SimulateTx(g[i - 1], txs[i])
    <3> SUFFICES ASSUME NEW i \in 0 .. k + 1
                 PROVE  g[i] = IF i = 0 THEN Started(s) ELSE SimulateTx(g[i - 1], txs[i])
      OBVIOUS
    <3> HIDE DEF g
    <3>1. CASE i = 0
      BY <2>1, <2>3, <2>4, <3>1
    <3>2. CASE i \in 1 .. k
      <4>1. i - 1 \in 0 .. k /\ i \in 0 .. k /\ i # 0
        BY <2>1, <3>2
      <4> QED BY <2>3, <2>4, <3>2, <4>1
    <3>3. CASE i = k + 1
      <4>1. i - 1 = k /\ k \in 0 .. k /\ i # 0
        BY <2>1, <3>3
      <4> QED BY <2>4, <2>5, <3>3, <4>1
    <3> QED BY <2>1, <3>1, <3>2, <3>3
  <2>7. IsRun(g, s, txs, k + 1)
    BY <2>6 DEF IsRun
  <2> QED BY <2>1, <2>7
<1> HIDE DEF S
<1>3. S = Nat
  BY <1>1, <1>2, NumbersReached DEF S
<1> QED BY <1>3 DEF S

\* Runs over sequences that begin alike begin alike.
LEMMA RunsAgree ==
    ASSUME NEW s, NEW txs, NEW more, NEW m \in Nat, NEW n \in Nat, m <= n,
           \A i \in 1 .. m : txs[i] = more[i],
           NEW f, IsRun(f, s, txs, m), NEW g, IsRun(g, s, more, n)
    PROVE  f[m] = g[m]
<1> DEFINE S == {i \in Nat : i <= m => f[i] = g[i]}
<1>1. 0 \in S
  BY DEF IsRun
<1>2. ASSUME NEW i \in S PROVE i + 1 \in S
  <2> SUFFICES ASSUME i + 1 <= m PROVE f[i + 1] = g[i + 1]
    OBVIOUS
  <2>1. i \in Nat /\ f[i] = g[i]
    OBVIOUS
  <2>2. i + 1 \in 1 .. m /\ i + 1 \in 0 .. m /\ i + 1 \in 0 .. n /\ i + 1 # 0 /\ (i + 1) - 1 = i
    BY <2>1
  <2>3. f[i + 1] = SimulateTx(f[i], txs[i + 1])
    BY <2>2 DEF IsRun
  <2>4. g[i + 1] = SimulateTx(g[i], more[i + 1])
    BY <2>2 DEF IsRun
  <2> QED BY <2>1, <2>2, <2>3, <2>4
<1> HIDE DEF S
<1>3. S = Nat
  BY <1>1, <1>2, NumbersReached DEF S
<1> QED BY <1>3 DEF S

LEMMA SimulateIsRun ==
    ASSUME NEW s, NEW txs, Len(txs) \in Nat
    PROVE  \E run : IsRun(run, s, txs, Len(txs)) /\ Simulate(s, txs) = run[Len(txs)]
<1> DEFINE run == CHOOSE f : IsRun(f, s, txs, Len(txs))
<1>1. IsRun(run, s, txs, Len(txs))
  BY RunExists
<1>2. Simulate(s, txs) = run[Len(txs)]
  BY DEF Simulate, IsRun, Started
<1> HIDE DEF run
<1> QED BY <1>1, <1>2

\* The two equations that determine Simulate.
LEMMA SimulateEmpty ==
    ASSUME NEW s
    PROVE  Simulate(s, <<>>) = Started(s)
<1>1. PICK run : IsRun(run, s, <<>>, 0) /\ Simulate(s, <<>>) = run[0]
  BY SimulateIsRun
<1> QED BY <1>1 DEF IsRun

LEMMA SimulateAppend ==
    ASSUME NEW s, NEW txs \in Seq(Tx), NEW t \in Tx
    PROVE  Simulate(s, Append(txs, t)) = SimulateTx(Simulate(s, txs), t)
<1> DEFINE n == Len(txs)
           more == Append(txs, t)
<1>1. n \in Nat /\ Len(more) = n + 1 /\ more[n + 1] = t /\ \A i \in 1 .. n : txs[i] = more[i]
  OBVIOUS
<1> HIDE DEF n, more
<1>2. PICK f : IsRun(f, s, txs, n) /\ Simulate(s, txs) = f[n]
  BY <1>1, SimulateIsRun DEF n
<1>3. PICK g : IsRun(g, s, more, n + 1) /\ Simulate(s, more) = g[n + 1]
  BY <1>1, SimulateIsRun
<1>4. f[n] = g[n]
  <2>1. n + 1 \in Nat /\ n <= n + 1
    BY <1>1
  <2> QED BY <1>1, <1>2, <1>3, <2>1, RunsAgree
<1>5. g[n + 1] = SimulateTx(g[n], t)
  <2>1. n + 1 \in 0 .. n + 1 /\ n + 1 # 0 /\ (n + 1) - 1 = n
    BY <1>1
  <2> QED BY <1>1, <1>3, <2>1 DEF IsRun
<1> QED BY <1>2, <1>3, <1>4, <1>5 DEF more

Result == [ledger : LedgerState, accepted : Seq(Tx)]

\* A transaction that validates leaves balances and nonces natural numbers.
LEMMA ApplyType ==
    ASSUME NEW s \in LedgerState, NEW t \in Tx, ValidateTx(s, t)
    PROVE  ApplyTx(s, t) \in LedgerState
<1> DEFINE W == BalanceWidth
           from == From[t]
           to == To[t]
           x == Amount[t]
<1>1. from \in Account /\ to \in Account /\ x \in Nat /\ W \in Nat
  BY LedgerAssumption
<1>2. s.balances \in [Account -> 0 .. W - 1] /\ s.nonces \in [Account -> Nat]
  BY DEF LedgerState
<1>3. s.balances[from] - x \in 0 .. W - 1
  BY <1>1, <1>2 DEF ValidateTx
<1>4. (s.balances[to] + x) % W \in 0 .. W - 1
  <2>1. s.balances[to] + x \in Nat /\ W > 0
    BY <1>1, <1>2
  <2> QED BY <1>1, <2>1
<1>5. s.nonces[from] + 1 \in Nat
  BY <1>1, <1>2
<1> QED BY <1>1, <1>2, <1>3, <1>4, <1>5 DEF ApplyTx, LedgerState

LEMMA SimulateTxType ==
    ASSUME NEW r \in Result, NEW t \in Tx
    PROVE  SimulateTx(r, t) \in Result
BY ApplyType DEF SimulateTx, Result

LEMMA SimulateType ==
    ASSUME NEW s \in LedgerState, NEW txs \in Seq(Tx)
    PROVE  Simulate(s, txs) \in Result
<1> DEFINE S == {q \in Seq(Tx) : Simulate(s, q) \in Result}
<1>1. <<>> \in S
  <2>1. Started(s) \in Result
    BY DEF Started, Result
  <2> QED BY <2>1, SimulateEmpty
<1>2. ASSUME NEW q \in S, NEW t \in Tx PROVE Append(q, t) \in S
  <2>1. q \in Seq(Tx) /\ Append(q, t) \in Seq(Tx)
    OBVIOUS
  <2>2. SimulateTx(Simulate(s, q), t) \in Result
    BY SimulateTxType
  <2> QED BY <2>1, <2>2, SimulateAppend
<1> HIDE DEF S
<1>3. S = Seq(Tx)
  BY <1>1, <1>2, SequencesReached DEF S
<1> QED BY <1>3 DEF S

\* Two sequences of transactions one after the other.
LEMMA SimulateConcat ==
    ASSUME NEW s \in LedgerState, NEW txs \in Seq(Tx), NEW more \in Seq(Tx)
    PROVE  LET first == Simulate(s, txs)
               second == Simulate(first.ledger, more)
           IN  Simulate(s, txs \o more) = [ledger |-> second.ledger,
                                           accepted |-> first.accepted \o second.accepted]
<1> DEFINE first == Simulate(s, txs)
           Second(q) == Simulate(first.ledger, q)
           Joint(q) == [ledger |-> Second(q).ledger, accepted |-> first.accepted \o Second(q).accepted]
           S == {q \in Seq(Tx) : Simulate(s, txs \o q) = Joint(q)}
<1>1. first \in Result
  BY SimulateType
<1>2. <<>> \in S
  <2>1. Second(<<>>) = Started(first.ledger)
    BY SimulateEmpty
  <2>2. txs \o <<>> = txs /\ first.accepted \o <<>> = first.accepted
    <3>1. first.accepted \in Seq(Tx)
      BY <1>1 DEF Result
    <3> HIDE DEF first
    <3> QED BY <3>1, ConcatEmptySeq
  <2>3. Joint(<<>>) = first
    <3> HIDE DEF first
    <3> QED BY <1>1, <2>1, <2>2 DEF Started, Result
  <2> QED BY <2>2, <2>3
<1>3. ASSUME NEW q \in S, NEW t \in Tx PROVE Append(q, t) \in S
  <2>1. q \in Seq(Tx) /\ Append(q, t) \in Seq(Tx) /\ txs \o q \in Seq(Tx)
    BY ConcatProperties
  <2>2. txs \o Append(q, t) = Append(txs \o q, t)
    BY <2>1
  <2>3. Simulate(s, txs \o Append(q, t)) = SimulateTx(Joint(q), t)
    BY <2>1, <2>2, SimulateAppend
  <2>4. Second(Append(q, t)) = SimulateTx(Second(q), t)
    BY <2>1, SimulateAppend
  <2>5. Second(q) \in Result
    BY <1>1, <2>1, SimulateType DEF Result
  <2>6. SimulateTx(Joint(q), t) = Joint(Append(q, t))
    <3> DEFINE two == Second(q)
    <3>1. first.accepted \in Seq(Tx) /\ two.accepted \in Seq(Tx)
      BY <1>1, <2>5 DEF Result
    <3>2. Joint(q) = [ledger |-> two.ledger, accepted |-> first.accepted \o two.accepted]
      OBVIOUS
    <3>3. Joint(Append(q, t)) = [ledger |-> SimulateTx(two, t).ledger,
                                 accepted |-> first.accepted \o SimulateTx(two, t).accepted]
      BY <2>4
    <3> HIDE DEF first, two, Joint
    <3>4. first.accepted \o Append(two.accepted, t) = Append(first.accepted \o two.accepted, t)
      <4> DEFINE a == first.accepted
                 b == two.accepted
      <4>1. a \in Seq(Tx) /\ b \in Seq(Tx)
        BY <3>1
      <4> HIDE DEF a, b
      <4>2. a \o Append(b, t) = Append(a \o b, t)
        BY <4>1, ConcatAppend
      <4> QED BY <4>2 DEF a, b
    <3>5. CASE ValidateTx(two.ledger, t)
      <4>1. /\ SimulateTx(two, t).ledger = ApplyTx(two.ledger, t)
            /\ SimulateTx(two, t).accepted = Append(two.accepted, t)
        BY <3>5 DEF SimulateTx
      <4>2. SimulateTx(Joint(q), t) = [ledger |-> ApplyTx(two.ledger, t),
                                       accepted |-> Append(first.accepted \o two.accepted, t)]
        BY <3>2, <3>5 DEF SimulateTx
      <4> QED BY <3>3, <3>4, <4>1, <4>2
    <3>6. CASE ~ValidateTx(two.ledger, t)
      BY <3>2, <3>3, <3>6 DEF SimulateTx
    <3> QED BY <3>5, <3>6
  <2> QED BY <2>1, <2>3, <2>6
<1> HIDE DEF S
<1>4. S = Seq(Tx)
  BY <1>2, <1>3, SequencesReached DEF S
<1> QED BY <1>4 DEF S

\* What a simulation accepts applies as a block, with the same result: the block that
\* maybe_propose_block builds is one that accept_block takes.
LEMMA AcceptedApplies ==
    ASSUME NEW s \in LedgerState, NEW txs \in Seq(Tx)
    PROVE  Simulate(s, Simulate(s, txs).accepted) = Simulate(s, txs)
<1> DEFINE S == {q \in Seq(Tx) : Simulate(s, Simulate(s, q).accepted) = Simulate(s, q)}
<1>1. <<>> \in S
  BY SimulateEmpty DEF Started
<1>2. ASSUME NEW q \in S, NEW t \in Tx PROVE Append(q, t) \in S
  <2> DEFINE r == Simulate(s, q)
  <2>1. q \in Seq(Tx) /\ Append(q, t) \in Seq(Tx) /\ Simulate(s, r.accepted) = r
    OBVIOUS
  <2>2. r \in Result /\ r.accepted \in Seq(Tx)
    BY <2>1, SimulateType DEF Result
  <2>3. Simulate(s, Append(q, t)) = SimulateTx(r, t)
    BY <2>1, SimulateAppend
  <2>4. Simulate(s, Append(r.accepted, t)) = SimulateTx(r, t)
    BY <2>1, <2>2, SimulateAppend
  <2> HIDE DEF r
  <2>5. Simulate(s, SimulateTx(r, t).accepted) = SimulateTx(r, t)
    BY <2>1, <2>4 DEF SimulateTx
  <2> QED BY <2>1, <2>3, <2>5
<1> HIDE DEF S
<1>3. S = Seq(Tx)
  BY <1>1, <1>2, SequencesReached DEF S
<1> QED BY <1>3 DEF S

\* A block that applies still applies without its last transaction, which validates there.
LEMMA AppliesPrefix ==
    ASSUME NEW s \in LedgerState, NEW txs \in Seq(Tx), NEW t \in Tx,
           BlockApplies(s, Append(txs, t))
    PROVE  BlockApplies(s, txs) /\ ValidateTx(Simulate(s, txs).ledger, t)
<1> DEFINE S == {q \in Seq(Tx) : Len(Simulate(s, q).accepted) <= Len(q)}
           r == Simulate(s, txs)
<1>1. <<>> \in S
  BY SimulateEmpty DEF Started
<1>2. ASSUME NEW q \in S, NEW u \in Tx PROVE Append(q, u) \in S
  <2>1. q \in Seq(Tx) /\ Append(q, u) \in Seq(Tx) /\ Len(Append(q, u)) = Len(q) + 1 /\ Len(q) \in Nat
    OBVIOUS
  <2>2. Simulate(s, q) \in Result
    BY <2>1, SimulateType
  <2>3. Simulate(s, q).accepted \in Seq(Tx) /\ Len(Simulate(s, q).accepted) <= Len(q)
    BY <2>2 DEF Result
  <2>4. Len(SimulateTx(Simulate(s, q), u).accepted) <= Len(q) + 1
    <3> DEFINE a == Simulate(s, q).accepted
    <3>1. Len(a) \in Nat /\ Len(Append(a, u)) = Len(a) + 1
      BY <2>3
    <3> QED BY <2>1, <2>3, <3>1 DEF SimulateTx
  <2> QED BY <2>1, <2>4, SimulateAppend
<1>3. S = Seq(Tx)
  <2> HIDE DEF S
  <2> QED BY <1>1, <1>2, SequencesReached DEF S
<1>4. r \in Result /\ r.accepted \in Seq(Tx) /\ Len(r.accepted) <= Len(txs)
  BY <1>3, SimulateType DEF Result
<1>5. SimulateTx(r, t).accepted = Append(txs, t)
  BY SimulateAppend DEF BlockApplies
<1> HIDE DEF r
<1>6. ValidateTx(r.ledger, t)
  <2>1. Len(Append(txs, t)) = Len(txs) + 1 /\ Len(txs) \in Nat
    OBVIOUS
  <2>2. r.accepted # Append(txs, t)
    BY <1>4, <2>1
  <2> QED BY <1>5, <2>2 DEF SimulateTx
<1>7. Append(r.accepted, t) = Append(txs, t)
  BY <1>5, <1>6 DEF SimulateTx
<1>8. r.accepted = txs
  BY <1>4, <1>7, AppendInjective
<1> QED BY <1>6, <1>8 DEF BlockApplies, r

-----------------------------------------------------------------------------
(* Nonces.                                                                  *)

\* The transactions of an account among the first k.
Own(txs, a, k) == {j \in 1 .. k : From[txs[j]] = a}

\* The nonces along a chain, as NoncesInSequence has them.
InSequence(txs) == \A i \in DOMAIN txs : Nonce[txs[i]] = Cardinality(Own(txs, From[txs[i]], i - 1))

LEMMA OwnFinite ==
    ASSUME NEW txs, NEW a, NEW k \in Nat
    PROVE  IsFiniteSet(Own(txs, a, k)) /\ Cardinality(Own(txs, a, k)) \in Nat
<1>1. IsFiniteSet(1 .. k)
  BY FS_Interval
<1>2. Own(txs, a, k) \in SUBSET (1 .. k)
  BY DEF Own
<1> QED BY <1>1, <1>2, FS_Subset, FS_CardinalityType

LEMMA OwnAppend ==
    ASSUME NEW txs \in Seq(Tx), NEW t \in Tx, NEW a
    PROVE  /\ \A k \in 0 .. Len(txs) : Own(Append(txs, t), a, k) = Own(txs, a, k)
           /\ Cardinality(Own(Append(txs, t), a, Len(txs) + 1)) =
                IF From[t] = a THEN Cardinality(Own(txs, a, Len(txs))) + 1
                               ELSE Cardinality(Own(txs, a, Len(txs)))
<1> DEFINE n == Len(txs)
           more == Append(txs, t)
<1>1. n \in Nat /\ more[n + 1] = t /\ \A j \in 1 .. n : more[j] = txs[j]
  OBVIOUS
<1> HIDE DEF n, more
<1>2. ASSUME NEW k \in 0 .. n PROVE Own(more, a, k) = Own(txs, a, k)
  BY <1>1 DEF Own
<1>3. IsFiniteSet(Own(txs, a, n)) /\ n + 1 \notin Own(txs, a, n)
  <2>1. n + 1 \notin Own(txs, a, n)
    BY <1>1 DEF Own
  <2> QED BY <1>1, <2>1, OwnFinite
<1>4. CASE From[t] = a
  <2>1. Own(more, a, n + 1) = Own(txs, a, n) \cup {n + 1}
    BY <1>1, <1>4 DEF Own
  <2> QED BY <1>2, <1>3, <1>4, <2>1, FS_AddElement DEF n, more
<1>5. CASE From[t] # a
  <2>1. Own(more, a, n + 1) = Own(txs, a, n)
    BY <1>1, <1>5 DEF Own
  <2> QED BY <1>2, <1>5, <2>1 DEF n, more
<1> QED BY <1>4, <1>5

LEMMA GenesisType == FromGenesis \in LedgerState
BY LedgerAssumption DEF FromGenesis, LedgerState

\* On a chain that applies from genesis the nonces are in sequence, and the ledger has
\* counted the transactions of each account.
LEMMA AppliedInSequence ==
    ASSUME NEW txs \in Seq(Tx), BlockApplies(FromGenesis, txs)
    PROVE  InSequence(txs)
<1> DEFINE s == FromGenesis
           Counts(q) == \A a \in Account :
                Simulate(s, q).ledger.nonces[a] = Cardinality(Own(q, a, Len(q)))
           S == {q \in Seq(Tx) : BlockApplies(s, q) => InSequence(q) /\ Counts(q)}
<1>1. <<>> \in S
  <2>1. \A a \in Account : Own(<<>>, a, 0) = {} /\ s.nonces[a] = 0
    BY DEF Own, FromGenesis
  <2>2. Cardinality({}) = 0 /\ Len(<<>>) = 0 /\ Simulate(s, <<>>).ledger = s
    <3>1. Simulate(s, <<>>) = Started(s)
      BY SimulateEmpty
    <3> HIDE DEF s
    <3> QED BY <3>1, FS_EmptySet DEF Started
  <2>3. Counts(<<>>)
    <3> HIDE DEF s
    <3> QED BY <2>1, <2>2
  <2> QED BY <2>3 DEF InSequence
<1>2. ASSUME NEW q \in S, NEW t \in Tx PROVE Append(q, t) \in S
  <2> DEFINE n == Len(q)
             more == Append(q, t)
             r == Simulate(s, q)
  <2> SUFFICES ASSUME BlockApplies(s, more) PROVE InSequence(more) /\ Counts(more)
    OBVIOUS
  <2>1. q \in Seq(Tx) /\ n \in Nat /\ Len(more) = n + 1 /\ more[n + 1] = t /\ DOMAIN more = 1 .. n + 1
        /\ \A i \in 1 .. n : more[i] = q[i]
    OBVIOUS
  <2>2. BlockApplies(s, q) /\ ValidateTx(r.ledger, t)
    BY <2>1, AppliesPrefix, GenesisType
  <2>3. InSequence(q) /\ Counts(q)
    BY <2>2
  <2>4. From[t] \in Account /\ r.ledger \in LedgerState
    BY <2>1, LedgerAssumption, SimulateType, GenesisType DEF Result
  <2>5. Simulate(s, more).ledger = ApplyTx(r.ledger, t)
    BY <2>1, <2>2, SimulateAppend DEF SimulateTx
  <2>6. Nonce[t] = Cardinality(Own(q, From[t], n))
    BY <2>2, <2>3, <2>4 DEF ValidateTx
  <2>7. \A a : /\ \A k \in 0 .. n : Own(more, a, k) = Own(q, a, k)
               /\ Cardinality(Own(more, a, n + 1)) = IF From[t] = a THEN Cardinality(Own(q, a, n)) + 1
                                                                   ELSE Cardinality(Own(q, a, n))
    BY <2>1, OwnAppend
  <2>8. InSequence(more)
    <3> HIDE DEF n, more
    <3> SUFFICES ASSUME NEW i \in 1 .. n + 1
                 PROVE  Nonce[more[i]] = Cardinality(Own(more, From[more[i]], i - 1))
      BY <2>1 DEF InSequence
    <3>1. i - 1 \in 0 .. n
      BY <2>1
    <3>2. Own(more, From[more[i]], i - 1) = Own(q, From[more[i]], i - 1)
      BY <2>7, <3>1
    <3>3. CASE i = n + 1
      <4>1. i - 1 = n
        BY <2>1, <3>3
      <4> QED BY <2>1, <2>6, <3>2, <3>3, <4>1
    <3>4. CASE i \in 1 .. n
      <4>1. i \in DOMAIN q /\ more[i] = q[i]
        BY <2>1, <3>4 DEF n
      <4> QED BY <2>3, <3>2, <4>1 DEF InSequence
    <3> QED BY <2>1, <3>3, <3>4
  <2>9. Counts(more)
    <3> SUFFICES ASSUME NEW a \in Account
                 PROVE  Simulate(s, more).ledger.nonces[a] = Cardinality(Own(more, a, n + 1))
      BY <2>1
    <3>1. r.ledger.nonces[a] = Cardinality(Own(q, a, n))
      BY <2>3
    <3>2. ApplyTx(r.ledger, t).nonces[a] = IF From[t] = a THEN r.ledger.nonces[a] + 1 ELSE r.ledger.nonces[a]
      <4> HIDE DEF r
      <4> QED BY <2>4 DEF ApplyTx, LedgerState
    <3> HIDE DEF n, more, r
    <3> QED BY <2>5, <2>7, <3>1, <3>2
  <2> QED BY <2>8, <2>9
<1> HIDE DEF S
<1>3. S = Seq(Tx)
  BY <1>1, <1>2, SequencesReached DEF S
<1> QED BY <1>3 DEF S

-----------------------------------------------------------------------------
(* The mempool.                                                             *)

LEMMA SelectionType ==
    ASSUME mempool \subseteq Tx
    PROVE  SelectTransactions \in Seq(Tx)
<1> DEFINE n == Cardinality(mempool)
           k == Min({MaxTxsPerBlock, n})
<1>1. mempool \in SUBSET Nat /\ IsFiniteSet(mempool) /\ n \in Nat
  BY LedgerAssumption, FS_Subset, FS_CardinalityType
<1>2. ByHash(mempool) \in [1 .. n -> mempool]
  BY <1>1, Sortable DEF ByHash
<1>3. k \in Nat /\ k <= n
  <2>1. MaxTxsPerBlock \in Nat
    BY TxPoolAssumption
  <2> HIDE DEF n
  <2> QED BY <1>1, <2>1 DEF Min
<1>4. \A i \in 1 .. k : ByHash(mempool)[i] \in Tx
  <2> HIDE DEF n, k
  <2>1. \A i \in 1 .. k : i \in 1 .. n
    BY <1>1, <1>3
  <2>2. \A i \in 1 .. n : ByHash(mempool)[i] \in mempool
    BY <1>2
  <2> QED BY <2>1, <2>2
<1>5. SubSeq(ByHash(mempool), 1, k) \in Seq(Tx)
  <2> HIDE DEF k
  <2> QED BY <1>3, <1>4, SubSeqProperties
<1> QED BY <1>5 DEF SelectTransactions

Pool == [mempool : SUBSET Tx, seen : SUBSET Tx]

LEMMA HandleType ==
    ASSUME NEW pool \in Pool, NEW t \in Tx
    PROVE  HandleTransaction(pool, t) \in Pool
BY DEF HandleTransaction, Pool

IsHandled(after, pool, txs, n) ==
    after = [i \in 0 .. n |-> IF i = 0 THEN pool ELSE HandleTransaction(after[i - 1], txs[i])]

LEMMA HandledExists ==
    ASSUME NEW pool, NEW txs, NEW n \in Nat
    PROVE  \E after : IsHandled(after, pool, txs, n)
<1> DEFINE S == {k \in Nat : \E after : IsHandled(after, pool, txs, k)}
<1>1. 0 \in S
  <2>1. IsHandled([i \in 0 .. 0 |-> pool], pool, txs, 0)
    BY DEF IsHandled
  <2> QED BY <2>1
<1>2. ASSUME NEW k \in S PROVE k + 1 \in S
  <2>1. k \in Nat
    OBVIOUS
  <2>2. PICK f : IsHandled(f, pool, txs, k)
    OBVIOUS
  <2> DEFINE g == [i \in 0 .. k + 1 |-> IF i = k + 1 THEN HandleTransaction(f[k], txs[k + 1]) ELSE f[i]]
  <2>3. f[0] = pool /\ \A i \in 1 .. k : f[i] = HandleTransaction(f[i - 1], txs[i])
    BY <2>1, <2>2 DEF IsHandled
  <2>4. \A i \in 0 .. k : g[i] = f[i]
    BY <2>1
  <2>5. g[k + 1] = HandleTransaction(f[k], txs[k + 1])
    BY <2>1
  <2>6. ASSUME NEW i \in 0 .. k + 1
        PROVE  g[i] = IF i = 0 THEN pool ELSE HandleTransaction(g[i - 1], txs[i])
    <3> HIDE DEF g
    <3>1. CASE i = 0
      BY <2>1, <2>3, <2>4, <3>1
    <3>2. CASE i \in 1 .. k
      <4>1. i - 1 \in 0 .. k /\ i \in 0 .. k /\ i # 0
        BY <2>1, <3>2
      <4> QED BY <2>3, <2>4, <3>2, <4>1
    <3>3. CASE i = k + 1
      <4>1. i - 1 = k /\ k \in 0 .. k /\ i # 0
        BY <2>1, <3>3
      <4> QED BY <2>4, <2>5, <3>3, <4>1
    <3> QED BY <2>1, <3>1, <3>2, <3>3
  <2>7. IsHandled(g, pool, txs, k + 1)
    BY <2>6 DEF IsHandled
  <2> QED BY <2>1, <2>7
<1> HIDE DEF S
<1>3. S = Nat
  BY <1>1, <1>2, NumbersReached DEF S
<1> QED BY <1>3 DEF S

LEMMA HandleAllType ==
    ASSUME NEW pool \in Pool, NEW txs \in Seq(Tx)
    PROVE  HandleAll(pool, txs) \in Pool
<1> DEFINE n == Len(txs)
           f == CHOOSE after : IsHandled(after, pool, txs, n)
           S == {i \in Nat : i <= n => f[i] \in Pool}
<1>1. n \in Nat
  OBVIOUS
<1>2. IsHandled(f, pool, txs, n)
  BY <1>1, HandledExists
<1>3. HandleAll(pool, txs) = f[n]
  BY DEF HandleAll, IsHandled
<1> HIDE DEF f
<1>4. 0 \in S
  BY <1>1, <1>2 DEF IsHandled
<1>5. ASSUME NEW i \in S PROVE i + 1 \in S
  <2> SUFFICES ASSUME i + 1 <= n PROVE f[i + 1] \in Pool
    OBVIOUS
  <2>1. i \in Nat /\ f[i] \in Pool /\ i + 1 \in 0 .. n /\ i + 1 # 0 /\ (i + 1) - 1 = i /\ txs[i + 1] \in Tx
    BY <1>1
  <2>2. f[i + 1] = HandleTransaction(f[i], txs[i + 1])
    BY <1>2, <2>1 DEF IsHandled
  <2> QED BY <2>1, <2>2, HandleType
<1> HIDE DEF S
<1>6. S = Nat
  BY <1>4, <1>5, NumbersReached DEF S
<1> QED BY <1>1, <1>3, <1>6 DEF S

-----------------------------------------------------------------------------
(* The chain.                                                               *)

\* The inductive invariant: the ledger is the replay of a chain every transaction of which
\* validates where it stands.
TxInv == TypeOK /\ ledger = Replay(applied) /\ BlockApplies(FromGenesis, applied)

\* A block that applies on the ledger extends the replay.
LEMMA ReplayExtends ==
    ASSUME TxInv, NEW txs \in Seq(Tx), BlockApplies(ledger, txs)
    PROVE  /\ applied \o txs \in Seq(Tx)
           /\ Simulate(ledger, txs).ledger = Replay(applied \o txs)
           /\ BlockApplies(FromGenesis, applied \o txs)
<1> DEFINE first == Simulate(FromGenesis, applied)
           second == Simulate(first.ledger, txs)
<1>1. applied \in Seq(Tx) /\ ledger = first.ledger /\ first.accepted = applied /\ second.accepted = txs
  BY DEF TxInv, TypeOK, Replay, BlockApplies
<1>2. Simulate(FromGenesis, applied \o txs) = [ledger |-> second.ledger,
                                               accepted |-> first.accepted \o second.accepted]
  BY <1>1, GenesisType, SimulateConcat
<1>3. applied \o txs \in Seq(Tx)
  BY <1>1, ConcatProperties
<1>4. Simulate(ledger, txs) = second
  BY <1>1
<1> HIDE DEF first, second
<1> QED BY <1>1, <1>2, <1>3, <1>4 DEF Replay, BlockApplies

\* The ledger of a replayed chain.
LEMMA ReplayType ==
    ASSUME NEW txs \in Seq(Tx)
    PROVE  Replay(txs) \in LedgerState
BY GenesisType, SimulateType DEF Replay, Result

\* What is proposed applies.
LEMMA ProposalApplies ==
    ASSUME TxInv
    PROVE  Proposal \in Seq(Tx) /\ BlockApplies(ledger, Proposal)
<1>1. SelectTransactions \in Seq(Tx) /\ ledger \in LedgerState
  BY SelectionType DEF TxInv, TypeOK
<1> DEFINE r == Simulate(ledger, SelectTransactions)
<1>2. r \in Result /\ Simulate(ledger, r.accepted) = r
  BY <1>1, SimulateType, AcceptedApplies
<1> HIDE DEF r
<1> QED BY <1>2 DEF Proposal, BlockApplies, Result, r

\* Extending and replacing the chain keep the invariant.
LEMMA ExtendKeeps ==
    ASSUME TxInv, NEW txs \in Seq(Tx), BlockApplies(ledger, txs), Extend(txs),
           up' \in BOOLEAN, certified' \in BOOLEAN, parked' \in Seq(Tx), file' = file
    PROVE  TxInv'
<1>1. /\ applied' = applied \o txs /\ ledger' = Simulate(ledger, txs).ledger
      /\ mempool' \subseteq mempool /\ seen' = seen
  BY DEF Extend
<1>2. /\ applied' \in Seq(Tx) /\ ledger' = Replay(applied') /\ BlockApplies(FromGenesis, applied')
  BY <1>1, ReplayExtends
<1>3. ledger' \in LedgerState
  BY <1>2, ReplayType
<1> QED BY <1>1, <1>2, <1>3 DEF TxInv, TypeOK

LEMMA AdoptKeeps ==
    ASSUME TxInv, NEW txs \in Seq(Tx), BlockApplies(FromGenesis, txs), AdoptChain(txs),
           up' \in BOOLEAN, certified' \in BOOLEAN, parked' \in Seq(Tx), file' = file
    PROVE  TxInv'
<1>1. /\ applied' = txs /\ ledger' = Replay(txs) /\ mempool' = mempool
      /\ seen' = RebuiltSeen(seen, txs)
  BY DEF AdoptChain
<1>2. Range(txs) \subseteq Tx
  BY DEF Range
<1>3. ledger' \in LedgerState
  BY <1>1, ReplayType
<1> QED BY <1>1, <1>2, <1>3 DEF TxInv, TypeOK, RebuiltSeen

LEMMA TxStep ==
    ASSUME TxInv, [Next]_vars
    PROVE  TxInv'
<1>1. /\ up \in BOOLEAN /\ applied \in Seq(Tx) /\ ledger \in LedgerState /\ mempool \subseteq Tx
      /\ seen \subseteq Tx /\ certified \in BOOLEAN /\ parked \in Seq(Tx)
      /\ file \in [Tx -> {"none", "partial", "inbox", "processed"}]
      /\ ledger = Replay(applied) /\ BlockApplies(FromGenesis, applied)
  BY DEF TxInv, TypeOK
<1>2. [mempool |-> mempool, seen |-> seen] \in Pool /\ <<>> \in Seq(Tx)
  BY <1>1 DEF Pool
<1>3. ASSUME UNCHANGED <<applied, ledger>>, up' \in BOOLEAN, mempool' \subseteq Tx, seen' \subseteq Tx,
             certified' \in BOOLEAN, parked' \in Seq(Tx),
             file' \in [Tx -> {"none", "partial", "inbox", "processed"}]
      PROVE  TxInv'
  BY <1>1, <1>3 DEF TxInv, TypeOK
<1>4. ASSUME NEW t \in Tx, SubmitCreate(t) \/ SubmitFill(t) PROVE TxInv'
  <2>1. /\ UNCHANGED <<up, applied, ledger, certified, parked, mempool, seen>>
        /\ file' \in [Tx -> {"none", "partial", "inbox", "processed"}]
    BY <1>1, <1>4 DEF SubmitCreate, SubmitFill, chainVars, poolVars
  <2> QED BY <1>1, <1>3, <2>1
<1>5. CASE ProcessInbox
  <2>1. PICK order \in InboxOrders : SetPool(HandleAll([mempool |-> mempool, seen |-> seen], order))
    BY <1>5 DEF ProcessInbox
  <2>2. order \in Seq(Tx)
    <3>1. order \in [1 .. Cardinality(Inbox) -> Inbox]
      BY DEF InboxOrders, SetToSeqs
    <3>2. Inbox \in SUBSET Tx /\ IsFiniteSet(Inbox) /\ Cardinality(Inbox) \in Nat
      BY LedgerAssumption, FS_Subset, FS_CardinalityType DEF Inbox
    <3> QED BY <3>1, <3>2
  <2>3. mempool' \subseteq Tx /\ seen' \subseteq Tx
    BY <1>2, <2>1, <2>2, HandleAllType DEF SetPool, Pool
  <2>4. /\ UNCHANGED <<up, applied, ledger, certified, parked>>
        /\ file' \in [Tx -> {"none", "partial", "inbox", "processed"}]
    BY <1>1, <1>5 DEF ProcessInbox, chainVars
  <2> QED BY <1>1, <1>3, <2>3, <2>4
<1>6. CASE ProcessInboxFails \/ FirstCertificate
  <2>1. UNCHANGED <<applied, ledger, parked, mempool, seen, file>> /\ up' \in BOOLEAN /\ certified' \in BOOLEAN
    BY <1>1, <1>6 DEF ProcessInboxFails, FirstCertificate, chainVars, poolVars
  <2> QED BY <1>1, <1>3, <2>1
<1>7. ASSUME NEW t \in Tx, ReceiveTransaction(t) PROVE TxInv'
  <2>1. UNCHANGED <<up, applied, ledger, certified, parked, file>>
    BY <1>7 DEF ReceiveTransaction, chainVars
  <2>2. mempool' \subseteq Tx /\ seen' \subseteq Tx
    BY <1>2, <1>7, HandleType DEF ReceiveTransaction, SetPool, Pool
  <2> QED BY <1>1, <1>3, <2>1, <2>2
<1>8. ASSUME NEW t \in Tx, PeerBlock(t) PROVE TxInv'
  <2>1. /\ BlockApplies(ledger, <<t>>) /\ Extend(<<t>>) /\ <<t>> \in Seq(Tx)
        /\ parked' = <<>> /\ UNCHANGED <<up, certified, file>>
    BY <1>8 DEF PeerBlock
  <2> QED BY <1>1, <1>2, <2>1, ExtendKeeps
<1>9. CASE Propose
  <2>1. Extend(Proposal) /\ UNCHANGED <<up, certified, parked, file>>
    BY <1>9 DEF Propose
  <2> QED BY <1>1, <2>1, ExtendKeeps, ProposalApplies
<1>10. CASE ProposeParked
  <2>1. parked' = Proposal /\ UNCHANGED <<up, applied, ledger, certified, mempool, seen, file>>
    BY <1>10 DEF ProposeParked, poolVars
  <2> QED BY <1>1, <1>3, <2>1, ProposalApplies
<1>11. CASE AdoptParked
  <2>1. /\ BlockApplies(ledger, parked) /\ AdoptChain(applied \o parked)
        /\ parked' = <<>> /\ UNCHANGED <<up, certified, file>>
    BY <1>11 DEF AdoptParked
  <2>2. applied \o parked \in Seq(Tx) /\ BlockApplies(FromGenesis, applied \o parked)
    BY <1>1, <2>1, ReplayExtends
  <2> QED BY <1>1, <1>2, <2>1, <2>2, AdoptKeeps
<1>12. ASSUME NEW txs \in Histories, Reorganise(txs) PROVE TxInv'
  <2>1. AdoptChain(txs) /\ parked' = <<>> /\ UNCHANGED <<up, certified, file>>
    BY <1>12 DEF Reorganise
  <2>2. BlockApplies(FromGenesis, txs) /\ txs \in Seq(Tx)
    <3>1. PICK k \in 0 .. Cardinality(Tx) : txs \in [1 .. k -> Tx]
      BY DEF Histories
    <3>2. Cardinality(Tx) \in Nat
      BY LedgerAssumption, FS_CardinalityType
    <3>3. k \in Nat
      BY <3>2
    <3> QED BY <3>1, <3>3 DEF Histories
  <2> QED BY <1>1, <1>2, <2>1, <2>2, AdoptKeeps
<1>13. CASE Restart
  <2>1. /\ up' = TRUE /\ mempool' = {} /\ seen' = RebuiltSeen({}, applied) /\ parked' = <<>>
        /\ UNCHANGED <<applied, ledger, certified, file>>
    BY <1>13 DEF Restart
  <2>2. Range(applied) \subseteq Tx
    BY <1>1 DEF Range
  <2> QED BY <1>1, <1>2, <1>3, <2>1, <2>2 DEF RebuiltSeen
<1>14. CASE UNCHANGED vars
  BY <1>1, <1>3, <1>14 DEF vars, chainVars, poolVars
<1> QED BY <1>4, <1>5, <1>6, <1>7, <1>8, <1>9, <1>10, <1>11, <1>12, <1>13, <1>14
        DEF Next, ForwardStep, Submit

LEMMA TxStarts ==
    ASSUME Init
    PROVE  TxInv
<1>1. Simulate(FromGenesis, <<>>) = Started(FromGenesis)
  BY SimulateEmpty
<1>2. Replay(<<>>) = FromGenesis /\ BlockApplies(FromGenesis, <<>>)
  BY <1>1 DEF Replay, BlockApplies, Started
<1>3. TypeOK
  <2>1. file \in [Tx -> {"none", "partial", "inbox", "processed"}]
    BY DEF Init
  <2>2. applied \in Seq(Tx) /\ parked \in Seq(Tx)
    BY EmptySeq DEF Init
  <2>3. mempool \subseteq Tx /\ seen \subseteq Tx /\ up \in BOOLEAN /\ certified \in BOOLEAN
    BY DEF Init
  <2>4. ledger \in LedgerState
    BY GenesisType DEF Init
  <2> QED BY <2>1, <2>2, <2>3, <2>4 DEF TypeOK
<1> QED BY <1>2, <1>3 DEF Init, TxInv

LEMMA TxAlways == Spec => []TxInv
<1>1. TxInv /\ [Next]_vars => TxInv'
  BY TxStep
<1> QED BY <1>1, TxStarts, PTL DEF Spec

\* The ledger that accept_block and adopt_canonical_chain update step by step is always the
\* one that replay_blocks computes from genesis for the chain, and it stays well typed: no
\* debit of apply_transaction goes below zero.
THEOREM LedgerAlwaysReplay == Spec => [](TypeOK /\ LedgerIsReplay)
<1>1. TxInv => TypeOK /\ LedgerIsReplay
  BY DEF TxInv, LedgerIsReplay
<1> QED BY <1>1, TxAlways, PTL

\* On every chain a node is ever on the transactions of an account carry the nonces
\* 0, 1, 2, ... in this order: none is applied twice or ahead of its turn, however often it is
\* submitted, gossiped, proposed or carried over a reorganisation or a restart.
THEOREM NoncesAlwaysInSequence == Spec => []NoncesInSequence
<1>1. TxInv => NoncesInSequence
  <2> SUFFICES ASSUME TxInv PROVE NoncesInSequence
    OBVIOUS
  <2>1. InSequence(applied)
    BY AppliedInSequence DEF TxInv, TypeOK
  <2> QED BY <2>1 DEF InSequence, NoncesInSequence, Own
<1> QED BY <1>1, TxAlways, PTL

-----------------------------------------------------------------------------
(* The supply.                                                              *)

\* The element a sum takes first, and sum as the table of the partial sums of b.
First(S) == CHOOSE x \in S : TRUE
IsSum(sum, b) ==
    sum = [S \in SUBSET Account |-> IF S = {} THEN 0 ELSE b[First(S)] + sum[S \ {First(S)}]]

LEMMA SumExists ==
    ASSUME NEW b
    PROVE  \E sum : IsSum(sum, b)
<1> DEFINE All == SUBSET Account
           Part(f, S) == IF S = {} THEN 0 ELSE b[First(S)] + f[S \ {First(S)}]
           Good(f, k) == /\ f = [S \in All |-> f[S]]
                         /\ \A S \in All : Cardinality(S) <= k => f[S] = Part(f, S)
           N == {k \in Nat : \E f : Good(f, k)}
<1>0. \A S \in All : /\ IsFiniteSet(S) /\ Cardinality(S) \in Nat
                     /\ Cardinality(S) <= Cardinality(Account)
  BY LedgerAssumption, FS_Subset, FS_CardinalityType
<1>1. 0 \in N
  <2> DEFINE f == [S \in All |-> 0]
  <2>1. ASSUME NEW S \in All, Cardinality(S) <= 0 PROVE S = {}
    BY <1>0, <2>1, FS_EmptySet
  <2>2. Good(f, 0)
    BY <2>1
  <2> QED BY <2>2
<1>2. ASSUME NEW k \in N PROVE k + 1 \in N
  <2>1. k \in Nat
    OBVIOUS
  <2>2. PICK f : Good(f, k)
    OBVIOUS
  <2> DEFINE g == [S \in All |-> Part(f, S)]
  <2>3. ASSUME NEW S \in All, Cardinality(S) <= k + 1 PROVE g[S] = Part(g, S)
    <3> DEFINE x == First(S)
               R == S \ {x}
    <3>1. CASE S = {}
      BY <3>1
    <3>2. CASE S # {}
      <4>1. x \in S
        BY <3>2 DEF First
      <4>2. R \in All /\ Cardinality(R) <= k
        BY <1>0, <2>1, <2>3, <4>1, FS_RemoveElement
      <4>3. f[R] = Part(f, R)
        BY <2>2, <4>2
      <4>4. g[R] = f[R]
        BY <4>2, <4>3
      <4>5. g[S] = b[x] + f[R] /\ Part(g, S) = b[x] + g[R]
        BY <3>2
      <4> QED BY <4>4, <4>5
    <3> QED BY <3>1, <3>2
  <2>4. g = [S \in All |-> g[S]]
    OBVIOUS
  <2>5. Good(g, k + 1)
    BY <2>3, <2>4
  <2>6. k + 1 \in Nat
    BY <2>1
  <2> HIDE DEF g, Good
  <2> QED BY <2>5, <2>6
<1>3. N = Nat
  <2> HIDE DEF N
  <2> QED BY <1>1, <1>2, NumbersReached DEF N
<1>4. Cardinality(Account) \in N
  BY <1>3, LedgerAssumption, FS_CardinalityType
<1>5. PICK f : Good(f, Cardinality(Account))
  BY <1>4
<1>6. \A S \in All : f[S] = Part(f, S)
  BY <1>0, <1>5
<1>7. f = [S \in All |-> Part(f, S)]
  BY <1>5, <1>6
<1> QED BY <1>7 DEF IsSum

LEMMA SupplyIsSum ==
    ASSUME NEW s
    PROVE  \E sum : IsSum(sum, s.balances) /\ Supply(s) = sum[Account]
<1> DEFINE sum == CHOOSE f : IsSum(f, s.balances)
<1>1. IsSum(sum, s.balances)
  BY SumExists
<1>2. Supply(s) = sum[Account]
  BY DEF Supply, MapThenSumSet, MapThenFoldSet, IsSum, First
<1> HIDE DEF sum
<1> QED BY <1>1, <1>2

\* A sum step by step.
LEMMA SumStep ==
    ASSUME NEW sum, NEW b, IsSum(sum, b), NEW S \in SUBSET Account, S # {}
    PROVE  /\ First(S) \in S
           /\ S \ {First(S)} \in SUBSET Account
           /\ sum[S] = b[First(S)] + sum[S \ {First(S)}]
<1>1. First(S) \in S
  BY DEF First
<1> QED BY <1>1 DEF IsSum

\* A sum of natural numbers is one, and at least the sum of any two of them.
LEMMA SumBounds ==
    ASSUME NEW b \in [Account -> Nat], NEW sum, IsSum(sum, b), NEW S \in SUBSET Account
    PROVE  /\ sum[S] \in Nat
           /\ \A x \in S : b[x] <= sum[S]
           /\ \A x, y \in S : x # y => b[x] + b[y] <= sum[S]
<1> DEFINE Bounds(Q) == /\ sum[Q] \in Nat
                        /\ \A x \in Q : b[x] <= sum[Q]
                        /\ \A x, y \in Q : x # y => b[x] + b[y] <= sum[Q]
           P == {Q \in SUBSET Account : Bounds(Q)}
<1>1. ASSUME NEW Q \in SUBSET Account, \A x \in Q : Q \ {x} \in P PROVE Q \in P
  <2>1. CASE Q = {}
    <3>1. sum[Q] = 0
      BY <2>1 DEF IsSum
    <3> QED BY <2>1, <3>1
  <2>2. CASE Q # {}
    <3> DEFINE z == First(Q)
               R == Q \ {z}
    <3>1. z \in Q /\ sum[Q] = b[z] + sum[R]
      BY <2>2, SumStep
    <3>2. Bounds(R)
      BY <1>1, <3>1
    <3>3. b[z] \in Nat /\ \A x \in Q : b[x] \in Nat /\ (x = z \/ x \in R)
      BY <3>1
    <3> HIDE DEF z, R
    <3> QED BY <3>1, <3>2, <3>3
  <2> QED BY <2>1, <2>2
<1>2. P = SUBSET Account
  <2>1. P \in SUBSET SUBSET Account
    OBVIOUS
  <2>2. IsFiniteSet(Account)
    BY LedgerAssumption
  <2> HIDE DEF P
  <2>3. \A Q \in SUBSET Account : (\A y \in Q : Q \ {y} \in P) => Q \in P
    BY <1>1
  <2> QED BY <2>1, <2>2, <2>3, SubsetsReached
<1> QED BY <1>2

\* What moving x from one account to another does to the sums.
Moved(b, c, from, to, x) ==
    /\ from # to
    /\ c[from] = b[from] - x /\ c[to] = b[to] + x
    /\ \A a \in Account \ {from, to} : c[a] = b[a]

LEMMA SumMoves ==
    ASSUME NEW b \in [Account -> Nat], NEW c \in [Account -> Nat],
           NEW from \in Account, NEW to \in Account, NEW x \in Nat, Moved(b, c, from, to, x),
           NEW f, IsSum(f, b), NEW g, IsSum(g, c)
    PROVE  g[Account] = f[Account]
<1> DEFINE Out(Q) == IF from \in Q THEN x ELSE 0
           In(Q) == IF to \in Q THEN x ELSE 0
           P == {Q \in SUBSET Account : g[Q] = (f[Q] - Out(Q)) + In(Q)}
<1>1. ASSUME NEW Q \in SUBSET Account, \A y \in Q : Q \ {y} \in P PROVE Q \in P
  <2>1. CASE Q = {}
    <3>1. f[Q] = 0 /\ g[Q] = 0
      BY <2>1 DEF IsSum
    <3> QED BY <2>1, <3>1
  <2>2. CASE Q # {}
    <3> DEFINE z == First(Q)
               R == Q \ {z}
    <3>1. z \in Q /\ f[Q] = b[z] + f[R] /\ g[Q] = c[z] + g[R] /\ R \in SUBSET Account
      <4>1. z \in Q /\ R \in SUBSET Account /\ f[Q] = b[z] + f[R]
        BY <2>2, SumStep
      <4>2. g[Q] = c[z] + g[R]
        BY <2>2, SumStep
      <4> QED BY <4>1, <4>2
    <3>2. g[R] = (f[R] - Out(R)) + In(R)
      BY <1>1, <3>1
    <3>3. f[R] \in Nat /\ b[z] \in Nat /\ c[z] \in Nat /\ z \in Account
      BY <3>1, SumBounds
    <3>4. \A y : y \in Q <=> y = z \/ y \in R
      BY <3>1
    <3>5. z \notin R
      OBVIOUS
    <3> HIDE DEF z, R
    <3>6. g[Q] = (f[Q] - Out(Q)) + In(Q)
      <4>1. CASE z = from
        BY <3>1, <3>2, <3>3, <3>4, <3>5, <4>1 DEF Moved
      <4>2. CASE z = to
        BY <3>1, <3>2, <3>3, <3>4, <3>5, <4>2 DEF Moved
      <4>3. CASE z \notin {from, to}
        BY <3>1, <3>2, <3>3, <3>4, <3>5, <4>3 DEF Moved
      <4> QED BY <4>1, <4>2, <4>3
    <3> QED BY <3>6
  <2> QED BY <2>1, <2>2
<1>2. P = SUBSET Account
  <2>1. P \in SUBSET SUBSET Account
    OBVIOUS
  <2>2. IsFiniteSet(Account)
    BY LedgerAssumption
  <2> HIDE DEF P
  <2>3. \A Q \in SUBSET Account : (\A y \in Q : Q \ {y} \in P) => Q \in P
    BY <1>1
  <2> QED BY <2>1, <2>2, <2>3, SubsetsReached
<1>3. f[Account] \in Nat
  BY SumBounds
<1> QED BY <1>2, <1>3

\* A transfer to another account keeps a supply that fits into the width of a balance.
LEMMA TransferKeepsSupply ==
    ASSUME NEW s \in LedgerState, NEW t \in Tx, ValidateTx(s, t),
           From[t] # To[t], Supply(s) < BalanceWidth
    PROVE  Supply(ApplyTx(s, t)) = Supply(s)
<1> DEFINE W == BalanceWidth
           from == From[t]
           to == To[t]
           x == Amount[t]
           b == s.balances
           c == ApplyTx(s, t).balances
<1>1. from \in Account /\ to \in Account /\ from # to /\ x \in Nat /\ W \in Nat
  BY LedgerAssumption
<1>2. b \in [Account -> 0 .. W - 1] /\ b \in [Account -> Nat] /\ x <= b[from]
  BY DEF LedgerState, ValidateTx
<1>3. c \in [Account -> 0 .. W - 1]
  BY ApplyType DEF LedgerState
<1>4. c = [b EXCEPT ![from] = b[from] - x, ![to] = (b[to] + x) % W]
  BY <1>1, <1>2 DEF ApplyTx
<1>5. PICK f : IsSum(f, b) /\ Supply(s) = f[Account]
  BY SupplyIsSum
<1>6. PICK g : IsSum(g, c) /\ Supply(ApplyTx(s, t)) = g[Account]
  BY SupplyIsSum
<1> HIDE DEF W, from, to, x, b, c
<1>7. f[Account] \in Nat /\ b[from] + b[to] <= f[Account]
  BY <1>1, <1>2, <1>5, SumBounds
<1>8. b[to] + x < W /\ b[to] + x \in Nat /\ b[from] \in Nat
  BY <1>1, <1>2, <1>5, <1>7 DEF W
<1>9. (b[to] + x) % W = b[to] + x
  BY <1>1, <1>8
<1>10. Moved(b, c, from, to, x)
  BY <1>1, <1>2, <1>4, <1>9 DEF Moved
<1>11. c \in [Account -> Nat]
  BY <1>1, <1>3
<1> QED BY <1>1, <1>2, <1>5, <1>6, <1>10, <1>11, SumMoves

\* No transaction is sent to its own sender, and all the money fits into one balance.
TransfersOnly == \A t \in Tx : From[t] # To[t]
SupplyFits == Supply(FromGenesis) < BalanceWidth

LEMMA SimulateKeepsSupply ==
    ASSUME TransfersOnly, SupplyFits, NEW txs \in Seq(Tx)
    PROVE  Supply(Replay(txs)) = Supply(FromGenesis)
<1> DEFINE S == {q \in Seq(Tx) : Supply(Simulate(FromGenesis, q).ledger) = Supply(FromGenesis)}
<1>1. <<>> \in S
  <2>1. Simulate(FromGenesis, <<>>).ledger = FromGenesis
    BY SimulateEmpty DEF Started
  <2> QED BY <2>1
<1>2. ASSUME NEW q \in S, NEW t \in Tx PROVE Append(q, t) \in S
  <2> DEFINE r == Simulate(FromGenesis, q)
  <2>1. q \in Seq(Tx) /\ Append(q, t) \in Seq(Tx) /\ Supply(r.ledger) = Supply(FromGenesis)
    OBVIOUS
  <2>2. r.ledger \in LedgerState
    BY <2>1, GenesisType, SimulateType DEF Result
  <2>3. Simulate(FromGenesis, Append(q, t)) = SimulateTx(r, t)
    BY <2>1, SimulateAppend
  <2> HIDE DEF r
  <2>4. Supply(SimulateTx(r, t).ledger) = Supply(FromGenesis)
    <3>1. CASE ValidateTx(r.ledger, t)
      <4>1. SimulateTx(r, t).ledger = ApplyTx(r.ledger, t)
        BY <3>1 DEF SimulateTx
      <4> QED BY <2>1, <2>2, <3>1, <4>1, TransferKeepsSupply DEF TransfersOnly, SupplyFits
    <3>2. CASE ~ValidateTx(r.ledger, t)
      BY <2>1, <3>2 DEF SimulateTx
    <3> QED BY <3>1, <3>2
  <2> QED BY <2>1, <2>3, <2>4
<1> HIDE DEF S
<1>3. S = Seq(Tx)
  BY <1>1, <1>2, SequencesReached DEF S
<1> QED BY <1>3 DEF S, Replay

\* Where no transaction is a transfer to oneself and the money of all accounts fits into one
\* balance, apply_transaction neither creates nor destroys money, on any chain.
THEOREM SupplyAlwaysConserved ==
    ASSUME TransfersOnly, SupplyFits
    PROVE  Spec => []SupplyConserved
<1>1. TxInv => SupplyConserved
  BY SimulateKeepsSupply DEF TxInv, TypeOK, SupplyConserved
<1> QED BY <1>1, TxAlways, PTL

-----------------------------------------------------------------------------
(* The blocks of a chain, in order.                                         *)

\* A block is numbered one above its parent.
LEMMA NumberStep ==
    ASSUME NEW b \in Blocks
    PROVE  /\ BlockNumber(Parent[b]) \in Nat
           /\ BlockNumber(b) = BlockNumber(Parent[b]) + 1
           /\ b \notin Chain[Parent[b]]
<1>1. Parent[b] \in Blocks \cup {Genesis}
  BY TreeAssumption
<1>2. b \notin Chain[Parent[b]]
  <2>1. CASE Parent[b] = Genesis
    BY <2>1, ChainType
  <2>2. CASE Parent[b] # Genesis
    <3>1. Parent[b] \in Blocks /\ Slot[Parent[b]] < Slot[b] /\ Slot[b] \in Nat /\ Slot[Parent[b]] \in Nat
      BY <1>1, <2>2, TreeAssumption
    <3>2. b \in Chain[Parent[b]] /\ b # Parent[b] => Slot[b] < Slot[Parent[b]]
      BY <3>1, ChainSlots
    <3> QED BY <3>1, <3>2
  <2> QED BY <2>1, <2>2
<1>3. Chain[Parent[b]] \subseteq Blocks /\ IsFiniteSet(Chain[Parent[b]])
  BY <1>1, ChainType, BlocksAssumption, FS_Subset
<1>4. Chain[b] = Chain[Parent[b]] \cup {b}
  BY ChainExtends
<1>5. Cardinality(Chain[b]) = Cardinality(Chain[Parent[b]]) + 1
  BY <1>2, <1>3, <1>4, FS_AddElement
<1>6. Cardinality(Chain[Parent[b]]) \in Nat
  BY <1>3, FS_CardinalityType
<1> QED BY <1>2, <1>5, <1>6 DEF BlockNumber

\* Blocks of one chain have different numbers.
LEMMA NumbersDiffer ==
    ASSUME NEW t \in Blocks \cup {Genesis}, NEW b \in Chain[t], NEW c \in Chain[t],
           BlockNumber(b) = BlockNumber(c)
    PROVE  b = c
<1>1. t \in Blocks /\ b \in Blocks /\ c \in Blocks
  BY ChainType
<1>2. OnOneChain(b, c)
  BY <1>1, ChainLinear
<1>3. BlockNumber(b) \in Nat /\ BlockNumber(c) \in Nat
  BY <1>1, ChainNumbers
<1>4. b # c => BlockNumber(b) < BlockNumber(c) \/ BlockNumber(c) < BlockNumber(b)
  BY <1>1, <1>2, ChainNumbers DEF OnOneChain
<1> QED BY <1>3, <1>4

\* A chain has a block of every number up to that of its tip.
LEMMA NumbersTaken ==
    ASSUME NEW t \in Blocks \cup {Genesis}, NEW i \in 1 .. BlockNumber(t)
    PROVE  \E b \in Chain[t] : BlockNumber(b) = i
<1> DEFINE N == {n \in Nat : \A u \in Blocks \cup {Genesis} : BlockNumber(u) = n =>
                    \A j \in 1 .. n : \E b \in Chain[u] : BlockNumber(b) = j}
<1>1. 0 \in N
  OBVIOUS
<1>2. ASSUME NEW n \in N PROVE n + 1 \in N
  <2> SUFFICES ASSUME NEW u \in Blocks \cup {Genesis}, BlockNumber(u) = n + 1,
                      NEW j \in 1 .. n + 1
               PROVE  \E b \in Chain[u] : BlockNumber(b) = j
    OBVIOUS
  <2>1. u \in Blocks
    BY ChainType, FS_EmptySet DEF BlockNumber
  <2>2. BlockNumber(Parent[u]) = n /\ Parent[u] \in Blocks \cup {Genesis}
    BY <2>1, NumberStep, TreeAssumption
  <2>3. CASE j = n + 1
    BY <2>1, <2>3, ChainClosed
  <2>4. CASE j # n + 1
    <3>1. PICK b \in Chain[Parent[u]] : BlockNumber(b) = j
      BY <2>2, <2>4
    <3> QED BY <2>1, <3>1, ChainExtends
  <2> QED BY <2>3, <2>4
<1>3. N = Nat
  <2> HIDE DEF N
  <2> QED BY <1>1, <1>2, NumbersReached DEF N
<1>4. BlockNumber(t) \in N
  BY <1>3, ChainNumbers
<1> QED BY <1>4

\* The sequence of a chain's blocks, place by place.
LEMMA ChainSeqPlaces ==
    ASSUME NEW t \in Blocks \cup {Genesis}
    PROVE  /\ ChainSeq(t) \in Seq(Blocks)
           /\ Len(ChainSeq(t)) = BlockNumber(t)
           /\ \A i \in 1 .. BlockNumber(t) : ChainSeq(t)[i] \in Chain[t] /\ BlockNumber(ChainSeq(t)[i]) = i
<1>1. BlockNumber(t) \in Nat /\ Chain[t] \subseteq Blocks
  BY ChainNumbers, ChainType
<1>2. ASSUME NEW i \in 1 .. BlockNumber(t)
      PROVE  ChainSeq(t)[i] \in Chain[t] /\ BlockNumber(ChainSeq(t)[i]) = i
  BY NumbersTaken DEF ChainSeq
<1>3. ChainSeq(t) \in Seq(Blocks) /\ Len(ChainSeq(t)) = BlockNumber(t)
  BY <1>1, <1>2 DEF ChainSeq
<1> QED BY <1>2, <1>3

\* The empty chain has no blocks; a block comes after those of its parent's chain.
LEMMA ChainSeqStep ==
    /\ ChainSeq(Genesis) = <<>>
    /\ \A b \in Blocks : ChainSeq(b) = Append(ChainSeq(Parent[b]), b)
<1>1. ChainSeq(Genesis) = <<>>
  <2>1. BlockNumber(Genesis) = 0
    BY ChainType, FS_EmptySet DEF BlockNumber
  <2> QED BY <2>1, ChainSeqPlaces
<1>2. ASSUME NEW b \in Blocks
      PROVE  ChainSeq(b) = Append(ChainSeq(Parent[b]), b)
  <2> DEFINE n == BlockNumber(Parent[b])
             s == ChainSeq(Parent[b])
             u == ChainSeq(b)
  <2>1. n \in Nat /\ BlockNumber(b) = n + 1 /\ Parent[b] \in Blocks \cup {Genesis}
    BY NumberStep, TreeAssumption
  <2>2. s \in Seq(Blocks) /\ Len(s) = n /\ u \in Seq(Blocks) /\ Len(u) = n + 1
    BY <2>1, ChainSeqPlaces
  <2>3. b \in Chain[b] /\ Chain[Parent[b]] \subseteq Chain[b]
    BY ChainClosed, ChainExtends
  <2>4. ASSUME NEW i \in 1 .. n + 1 PROVE u[i] = Append(s, b)[i]
    <3>1. u[i] \in Chain[b] /\ BlockNumber(u[i]) = i
      BY <2>1, ChainSeqPlaces
    <3>2. CASE i = n + 1
      <4>1. u[i] = b
        BY <2>1, <2>3, <3>1, <3>2, NumbersDiffer
      <4> QED BY <2>2, <3>2, <4>1
    <3>3. CASE i # n + 1
      <4>1. i \in 1 .. n
        BY <2>1, <3>3
      <4>2. s[i] \in Chain[b] /\ BlockNumber(s[i]) = i
        BY <2>1, <2>3, <4>1, ChainSeqPlaces
      <4>3. u[i] = s[i]
        BY <3>1, <4>2, NumbersDiffer
      <4> QED BY <2>2, <4>1, <4>3
    <3> QED BY <3>2, <3>3
  <2> HIDE DEF s, u, n
  <2>5. Append(s, b) \in Seq(Blocks) /\ Len(Append(s, b)) = n + 1
    BY <2>1, <2>2
  <2>6. u = Append(s, b)
    BY <2>1, <2>2, <2>4, <2>5, SeqEqual
  <2> QED BY <2>6 DEF s, u
<1> QED BY <1>1, <1>2

\* A finite set of blocks, written down in some order, is complete.
LEMMA SetToSeqComplete ==
    ASSUME NEW S \in SUBSET Blocks
    PROVE  SetToSeq(S) \in Seq(Blocks) /\ ToSet(SetToSeq(S)) = S
<1> DEFINE n == Cardinality(S)
<1>1. IsFiniteSet(S)
  BY BlocksAssumption, FS_Subset
<1>2. n \in Nat /\ ExistsBijection(1 .. n, S)
  BY <1>1, FS_CardinalityType
<1>3. PICK f \in [1 .. n -> S] : IsInjective(f)
  BY <1>2 DEF ExistsBijection, Bijection, Injection
<1>4. SetToSeq(S) \in [1 .. n -> S] /\ IsInjective(SetToSeq(S))
  BY <1>3 DEF SetToSeq
<1>5. IsFiniteSet(1 .. n) /\ Cardinality(1 .. n) = n
  BY <1>2, FS_Interval
<1>6. SetToSeq(S) \in Surjection(1 .. n, S)
  BY <1>1, <1>2, <1>4, <1>5, FS_Injection DEF Injection
<1>7. \A x \in S : \E i \in 1 .. n : SetToSeq(S)[i] = x
  BY <1>6 DEF Surjection
<1>8. SetToSeq(S) \in Seq(Blocks) /\ DOMAIN SetToSeq(S) = 1 .. n
  BY <1>2, <1>4
<1> QED BY <1>4, <1>7, <1>8 DEF ToSet
-----------------------------------------------------------------------------
(* Types.                                                                   *)

\* A log whose lines are of its values.
LogOf(f, lines) == lines \in Seq(Line) /\ \A i \in DOMAIN lines : lines[i][2] \in Value(f)

LEMMA WriteTypes ==
    /\ \A f \in Logs \cup {"snapshot"} : Create(f) \in Write
    /\ \A f \in Logs \cup {"snapshot"} : \A v \in Value(f) : Append1(f, v) \in Write
    /\ \A w \in Write : /\ w.op \in {"create", "append"}
                        /\ w.file \in Logs \cup {"snapshot"}
                        /\ w.op = "append" => w.value \in Value(w.file)
BY DEF Write, Create, Append1

LEMMA ValueTypes ==
    /\ Value("blocks") = Blocks /\ Value("qcs") = Blocks /\ Value("receipts") = Receipt
    /\ Value("snapshot") = Blocks \cup {Genesis}
    /\ \A f \in Logs : Value(f) \subseteq Blocks \cup Receipt
BY DEF Value, Logs

\* An appended line makes a log of a log.
LEMMA WithLineType ==
    ASSUME NEW f \in Logs, NEW lines, LogOf(f, lines), NEW v \in Value(f),
           NEW kind \in {"line", "torn", "bare"}
    PROVE  LogOf(f, WithLine(lines, v, kind))
<1>1. v \in Blocks \cup Receipt
  BY ValueTypes
<1>2. ASSUME NEW k \in Kinds, NEW front, LogOf(f, front)
      PROVE  LogOf(f, front \o << <<k, v>> >>)
  <2>1. <<k, v>> \in Line
    BY <1>1 DEF Line
  <2> QED BY <1>2, <2>1 DEF LogOf
<1>3. lines # <<>> => LogOf(f, Front(lines))
  BY DEF Front, LogOf
<1>4. Kinds = {"line", "bare", "torn", "fused", "frayed", "glued"}
  BY DEF Kinds
<1> DEFINE end == IF lines = <<>> THEN "line" ELSE Last(lines)[1]
           onTorn == IF kind = "line" THEN "fused" ELSE "frayed"
<1>5. CASE end = "bare"
  <2>1. WithLine(lines, v, kind) = Front(lines) \o << <<"glued", v>> >>
    BY <1>5 DEF WithLine
  <2>2. lines # <<>>
    BY <1>5
  <2> QED BY <1>2, <1>3, <1>4, <2>1, <2>2
<1>6. CASE end \in {"torn", "frayed"}
  <2>1. WithLine(lines, v, kind) = Front(lines) \o << <<onTorn, v>> >>
    BY <1>6 DEF WithLine
  <2>2. lines # <<>> /\ onTorn \in Kinds
    BY <1>4, <1>6
  <2> QED BY <1>2, <1>3, <2>1, <2>2
<1>7. CASE end \notin {"bare", "torn", "frayed"}
  <2>1. WithLine(lines, v, kind) = lines \o << <<kind, v>> >>
    BY <1>7 DEF WithLine
  <2> QED BY <1>2, <1>4, <2>1
<1> QED BY <1>5, <1>6, <1>7

\* What is loaded from a log are its values.
LEMMA LoadedType ==
    ASSUME NEW f \in Logs, NEW lines, LogOf(f, lines)
    PROVE  Loaded(lines) \in Seq(Value(f))
<1> DEFINE cut == lines # <<>> /\ Last(lines)[1] \in {"torn", "fused", "frayed"}
           m == Len(lines) - (IF cut THEN 1 ELSE 0)
<1>1. Len(lines) \in Nat /\ (cut => Len(lines) > 0)
  BY DEF LogOf
<1>2. m \in Nat /\ m <= Len(lines)
  BY <1>1
<1>3. Loaded(lines) = [i \in 1 .. m |-> lines[i][2]]
  BY DEF Loaded
<1> HIDE DEF m
<1>4. \A i \in 1 .. m : lines[i][2] \in Value(f)
  BY <1>1, <1>2 DEF LogOf
<1> QED BY <1>2, <1>3, <1>4

\* The writes of an event are writes.
LEMMA OverwriteType ==
    ASSUME NEW f \in Logs \cup {"snapshot"}, NEW vs \in Seq(Value(f))
    PROVE  /\ Overwrite(f, vs) \in Seq(Write)
           /\ Len(Overwrite(f, vs)) = Len(vs) + 1
           /\ Overwrite(f, vs)[1] = Create(f)
           /\ \A i \in 1 .. Len(vs) : Overwrite(f, vs)[i + 1] = Append1(f, vs[i])
<1> DEFINE rest == [i \in DOMAIN vs |-> Append1(f, vs[i])]
<1>1. rest \in Seq(Write) /\ Len(rest) = Len(vs) /\ \A i \in 1 .. Len(vs) : rest[i] = Append1(f, vs[i])
  BY WriteTypes
<1>2. <<Create(f)>> \in Seq(Write) /\ Len(<<Create(f)>>) = 1 /\ <<Create(f)>>[1] = Create(f)
  BY WriteTypes
<1>3. Overwrite(f, vs) = <<Create(f)>> \o rest
  BY DEF Overwrite
<1> HIDE DEF rest
<1> QED BY <1>1, <1>2, <1>3

LEMMA ChainWritesType ==
    ASSUME NEW t \in Blocks \cup {Genesis}, NEW C \in SUBSET Blocks
    PROVE  /\ ChainWrites(t, C) \in Seq(Write)
           /\ WriteSnapshot(t) \in Seq(Write)
<1>1. WriteSnapshot(t) \in Seq(Write)
  <2>1. <<t>> \in Seq(Value("snapshot"))
    BY ValueTypes
  <2> QED BY <2>1, OverwriteType DEF WriteSnapshot
<1>2. Overwrite("blocks", ChainSeq(t)) \in Seq(Write)
  BY ValueTypes, ChainSeqPlaces, OverwriteType DEF Logs
<1>3. Overwrite("qcs", SetToSeq(C)) \in Seq(Write)
  BY ValueTypes, SetToSeqComplete, OverwriteType DEF Logs
<1> QED BY <1>1, <1>2, <1>3 DEF ChainWrites

\* The state of the files and of memory is well typed; in particular a restart restores a
\* block as the tip, never what a missing or torn snapshot file holds.
THEOREM StorageTypeCorrect == StorageSpec => []StorageTypeOK
<1>1. StorageInit => StorageTypeOK
  <2> SUFFICES ASSUME StorageInit PROVE StorageTypeOK
    OBVIOUS
  <2>1. disk \in [Logs -> Seq(Line)] /\ \A f \in Logs : disk[f] = <<>>
    BY DEF StorageInit
  <2>2. \A f \in Logs : \A i \in DOMAIN disk[f] : disk[f][i][2] \in Value(f)
    BY <2>1
  <2>3. blocks \in Seq(Blocks) /\ writes \in Seq(Write) /\ stops \in 0 .. MaxStops
    BY StorageAssumption DEF StorageInit
  <2>4. state \in {"up", "down", "dead"} /\ killed \in BOOLEAN
    BY DEF StorageInit
  <2>5. tip \in Blocks \cup {Genesis} /\ snapshot \in Blocks \cup {Genesis, Missing, Torn}
    BY DEF StorageInit
  <2>6. qcs \subseteq Blocks /\ receipts \subseteq Receipt
    BY DEF StorageInit
  <2> QED BY <2>1, <2>2, <2>3, <2>4, <2>5, <2>6 DEF StorageTypeOK
<1>2. StorageTypeOK /\ [StorageNext]_stored => StorageTypeOK'
  <2> SUFFICES ASSUME StorageTypeOK, [StorageNext]_stored PROVE StorageTypeOK'
    OBVIOUS
  <2> USE DEF StorageTypeOK
  <2>0. Logs = {"blocks", "qcs", "receipts"} /\ MaxStops \in Nat
    BY StorageAssumption DEF Logs
  <2>a. \A f \in Logs : LogOf(f, disk[f])
    BY DEF LogOf
  <2>b. ASSUME NEW f \in Logs, NEW lines, LogOf(f, lines), disk' = [disk EXCEPT ![f] = lines]
        PROVE  /\ disk' \in [Logs -> Seq(Line)]
               /\ \A g \in Logs : \A i \in DOMAIN disk'[g] : disk'[g][i][2] \in Value(g)
    BY <2>b DEF LogOf
  <2>1. CASE DoWrite
    <3> DEFINE w == Head(writes)
    <3>1. writes # <<>> /\ w \in Write /\ writes' \in Seq(Write)
      BY <2>1 DEF DoWrite
    <3>2. w.op \in {"create", "append"} /\ w.file \in Logs \cup {"snapshot"}
          /\ (w.op = "append" => w.value \in Value(w.file))
      BY <3>1, WriteTypes
    <3>3. CASE w.file = "snapshot"
      BY <2>1, <3>1, <3>2, <3>3, ValueTypes DEF DoWrite, memory, ends, Torn
    <3>4. CASE w.file # "snapshot"
      <4> DEFINE ls == IF w.op = "create" THEN <<>> ELSE WithLine(disk[w.file], w.value, "line")
      <4>1. w.file \in Logs
        BY <3>2, <3>4
      <4>2. LogOf(w.file, ls)
        <5>1. LogOf(w.file, <<>>)
          BY DEF LogOf
        <5>2. w.op # "create" => LogOf(w.file, WithLine(disk[w.file], w.value, "line"))
          BY <2>a, <3>2, <4>1, WithLineType
        <5> QED BY <5>1, <5>2
      <4>3. disk' = [disk EXCEPT ![w.file] = ls]
        BY <2>1, <3>4, <4>1 DEF DoWrite
      <4> HIDE DEF ls, w
      <4>4. /\ disk' \in [Logs -> Seq(Line)]
            /\ \A g \in Logs : \A i \in DOMAIN disk'[g] : disk'[g][i][2] \in Value(g)
        BY <2>b, <4>1, <4>2, <4>3
      <4>5. UNCHANGED <<state, memory, ends, snapshot>>
        BY <2>1, <3>4 DEF DoWrite, w
      <4> QED BY <3>1, <4>4, <4>5 DEF memory, ends
    <3> QED BY <3>3, <3>4
  <2>2. ASSUME NEW b \in Blocks, AcceptBlock(b) PROVE StorageTypeOK'
    <3>1. <<Append1("blocks", b)>> \o WriteSnapshot(b) \in Seq(Write)
      <4>1. Append1("blocks", b) \in Write /\ WriteSnapshot(b) \in Seq(Write)
        BY <2>0, WriteTypes, ValueTypes, ChainWritesType
      <4> QED BY <4>1
    <3> QED BY <2>2, <3>1 DEF AcceptBlock, files, ends
  <2>3. ASSUME NEW b \in Blocks, Certify(b) PROVE StorageTypeOK'
    <3>1. <<Append1("qcs", b)>> \in Seq(Write)
      BY <2>0, WriteTypes, ValueTypes
    <3> QED BY <2>3, <3>1 DEF Certify, files, ends
  <2>4. ASSUME NEW b \in Blocks, CertifyAndAdopt(b) PROVE StorageTypeOK'
    <3>1. <<Append1("qcs", b)>> \o ChainWrites(b, qcs \cup {b}) \in Seq(Write)
      <4>1. ChainWrites(b, qcs \cup {b}) \in Seq(Write)
        BY ChainWritesType
      <4> QED BY <2>0, <4>1, WriteTypes, ValueTypes
    <3>2. ChainSeq(b) \in Seq(Blocks)
      BY ChainSeqPlaces
    <3> QED BY <2>4, <3>1, <3>2 DEF CertifyAndAdopt, files, ends
  <2>5. ASSUME NEW t \in Blocks, ReplaceChain(t) PROVE StorageTypeOK'
    <3>1. \A C \in {qcs, qcs \cap Chain[t]} : C \in SUBSET Blocks /\ ChainWrites(t, C) \in Seq(Write)
      BY ChainWritesType
    <3>2. ChainSeq(t) \in Seq(Blocks)
      BY ChainSeqPlaces
    <3> QED BY <2>5, <3>1, <3>2 DEF ReplaceChain, files, ends
  <2>6. ASSUME NEW r \in Receipt, StoreReceipt(r) PROVE StorageTypeOK'
    <3>1. <<Append1("receipts", r)>> \in Seq(Write)
      BY <2>0, WriteTypes, ValueTypes
    <3> QED BY <2>6, <3>1 DEF StoreReceipt, files, ends
  <2>7. CASE Shutdown
    BY <2>0, <2>7 DEF Shutdown, memory
  <2>8. CASE Kill
    <3> DEFINE w == Head(writes)
    <3>1. /\ disk' \in [Logs -> Seq(Line)]
          /\ \A g \in Logs : \A i \in DOMAIN disk'[g] : disk'[g][i][2] \in Value(g)
      <4>1. CASE UNCHANGED disk
        BY <4>1
      <4>2. CASE /\ writes # <<>> /\ w.op = "append" /\ w.file \in Logs
                 /\ \E kind \in {"torn", "bare"} :
                        disk' = [disk EXCEPT ![w.file] = WithLine(@, w.value, kind)]
        <5>1. PICK kind \in {"torn", "bare"} :
                  disk' = [disk EXCEPT ![w.file] = WithLine(disk[w.file], w.value, kind)]
          BY <4>2
        <5>2. w \in Write
          BY <4>2
        <5>3. w.value \in Value(w.file)
          BY <4>2, <5>2, WriteTypes
        <5> HIDE DEF w
        <5>4. LogOf(w.file, WithLine(disk[w.file], w.value, kind))
          BY <2>a, <4>2, <5>3, WithLineType
        <5> QED BY <2>b, <4>2, <5>1, <5>4
      <4> QED BY <2>8, <4>1, <4>2 DEF Kill
    <3> QED BY <2>0, <2>8, <3>1 DEF Kill, memory
  <2>9. CASE StartNode
    <3> DEFINE bs == Loaded(disk["blocks"])
    <3>1. bs \in Seq(Blocks)
      BY <2>0, <2>a, LoadedType, ValueTypes
    <3>2. ReplayedTip(bs) \in Blocks \cup {Genesis}
      BY <3>1 DEF ReplayedTip, Last
    <3>3. RestoredTip(bs) \in Blocks \cup {Genesis}
      BY <2>9, <3>2 DEF RestoredTip, StartNode
    <3>4. RestoredQcs(bs) \subseteq Blocks
      BY <3>1 DEF RestoredQcs, ToSet
    <3>5. Loaded(disk["receipts"]) \in Seq(Receipt)
      BY <2>0, <2>a, LoadedType, ValueTypes
    <3>6. ToSet(Loaded(disk["receipts"])) \subseteq Receipt
      BY <3>5 DEF ToSet
    <3> HIDE DEF bs
    <3>7. /\ state' = "up" /\ blocks' = bs /\ tip' = RestoredTip(bs)
          /\ qcs' = RestoredQcs(bs) /\ receipts' = ToSet(Loaded(disk["receipts"]))
          /\ UNCHANGED <<disk, snapshot, writes, stops, killed>>
      BY <2>9 DEF StartNode, bs, files, ends
    <3> QED BY <3>1, <3>3, <3>4, <3>6, <3>7
  <2>10. CASE StartFails
    BY <2>10 DEF StartFails, memory, files, ends
  <2>11. CASE UNCHANGED stored
    BY <2>11 DEF stored, memory, files, ends
  <2> QED BY <2>1, <2>2, <2>3, <2>4, <2>5, <2>6, <2>7, <2>8, <2>9, <2>10, <2>11 DEF StorageNext
<1> QED BY <1>1, <1>2, PTL DEF StorageSpec
-----------------------------------------------------------------------------
(* Without kills the files follow the chain.  While an event still has      *)
(* writes to do they do not, so the invariant is about the files these      *)
(* writes lead to.                                                          *)

\* A log that holds the values vs, every line whole.
Whole(vs) == [i \in DOMAIN vs |-> <<"line", vs[i]>>]

LEMMA WholeType ==
    ASSUME NEW T, NEW vs \in Seq(T)
    PROVE  /\ Whole(vs) \in Seq({"line"} \X T)
           /\ Len(Whole(vs)) = Len(vs)
           /\ \A i \in 1 .. Len(vs) : Whole(vs)[i] = <<"line", vs[i]>>
<1>1. Len(vs) \in Nat /\ DOMAIN vs = 1 .. Len(vs) /\ \A i \in 1 .. Len(vs) : vs[i] \in T
  OBVIOUS
<1>2. Whole(vs) = [i \in 1 .. Len(vs) |-> <<"line", vs[i]>>]
  BY <1>1 DEF Whole
<1>3. Whole(vs) \in [1 .. Len(vs) -> {"line"} \X T]
  BY <1>1, <1>2
<1> QED BY <1>1, <1>2, <1>3

\* A line appended to whole lines is whole.
LEMMA WholeAppend ==
    ASSUME NEW T, NEW vs \in Seq(T), NEW v \in T
    PROVE  WithLine(Whole(vs), v, "line") = Whole(Append(vs, v))
<1> DEFINE ws == Whole(vs)
           L == {"line"} \X T
<1>1. /\ ws \in Seq(L) /\ Len(ws) = Len(vs) /\ Len(vs) \in Nat
      /\ \A i \in 1 .. Len(vs) : ws[i] = <<"line", vs[i]>>
  BY WholeType
<1>2. ws # <<>> => Last(ws)[1] = "line"
  BY <1>1 DEF Last
<1>3. WithLine(ws, v, "line") = ws \o << <<"line", v>> >>
  BY <1>2 DEF WithLine
<1>4. /\ Append(vs, v) \in Seq(T) /\ Len(Append(vs, v)) = Len(vs) + 1
      /\ \A i \in 1 .. Len(vs) : Append(vs, v)[i] = vs[i]
      /\ Append(vs, v)[Len(vs) + 1] = v
  OBVIOUS
<1> DEFINE us == Whole(Append(vs, v))
<1>5. /\ us \in Seq(L) /\ Len(us) = Len(vs) + 1
      /\ \A i \in 1 .. Len(vs) + 1 : us[i] = <<"line", Append(vs, v)[i]>>
  BY <1>4, WholeType
<1>6. <<"line", v>> \in L
  OBVIOUS
<1> HIDE DEF ws, us, L
<1>7. /\ ws \o << <<"line", v>> >> \in Seq(L)
      /\ Len(ws \o << <<"line", v>> >>) = Len(vs) + 1
      /\ \A i \in 1 .. Len(vs) : (ws \o << <<"line", v>> >>)[i] = ws[i]
      /\ (ws \o << <<"line", v>> >>)[Len(vs) + 1] = <<"line", v>>
  BY <1>1, <1>6
<1>8. ASSUME NEW i \in 1 .. Len(vs) + 1 PROVE (ws \o << <<"line", v>> >>)[i] = us[i]
  <2>1. CASE i = Len(vs) + 1
    BY <1>4, <1>5, <1>7, <2>1
  <2>2. CASE i # Len(vs) + 1
    <3>1. i \in 1 .. Len(vs)
      BY <1>1, <2>2
    <3> QED BY <1>1, <1>4, <1>5, <1>7, <3>1
  <2> QED BY <2>1, <2>2
<1>9. ws \o << <<"line", v>> >> = us
  BY <1>1, <1>5, <1>7, <1>8, SeqEqual
<1> QED BY <1>3, <1>9 DEF ws, us

\* What is loaded from whole lines are their values.
LEMMA LoadedWhole ==
    ASSUME NEW T, NEW vs \in Seq(T)
    PROVE  Loaded(Whole(vs)) = vs
<1> DEFINE L == {"line"} \X T
<1>1. /\ Whole(vs) \in Seq(L) /\ Len(Whole(vs)) = Len(vs) /\ Len(vs) \in Nat
      /\ \A i \in 1 .. Len(vs) : Whole(vs)[i] = <<"line", vs[i]>>
  <2>1. /\ Whole(vs) \in Seq({"line"} \X T)
        /\ Len(Whole(vs)) = Len(vs)
        /\ \A i \in 1 .. Len(vs) : Whole(vs)[i] = <<"line", vs[i]>>
    BY WholeType
  <2>2. Len(vs) \in Nat
    OBVIOUS
  <2> HIDE DEF Whole
  <2> QED BY <2>1, <2>2
<1> HIDE DEF L
<1>2. Whole(vs) # <<>> => Last(Whole(vs))[1] = "line"
  BY <1>1 DEF Last
<1>3. Loaded(Whole(vs)) = [i \in 1 .. Len(vs) |-> Whole(vs)[i][2]]
  BY <1>1, <1>2 DEF Loaded
<1>4. Loaded(Whole(vs)) = [i \in 1 .. Len(vs) |-> vs[i]]
  BY <1>1, <1>3
<1> QED BY <1>4

\* The files after a write: what DoWrite does.
Apply(d, w) ==
    IF w.file = "snapshot" THEN <<d[1], IF w.op = "create" THEN Torn ELSE w.value>>
    ELSE <<[d[1] EXCEPT ![w.file] = IF w.op = "create" THEN <<>> ELSE WithLine(@, w.value, "line")], d[2]>>

\* The writes ws, one after the other, lead from the files d to the files t.
Leads(d, ws, t) ==
    \E run : /\ run[0] = d /\ run[Len(ws)] = t
             /\ \A i \in 1 .. Len(ws) : run[i] = Apply(run[i - 1], ws[i])

LEMMA LeadsNowhere ==
    ASSUME NEW d, NEW t, Leads(d, <<>>, t)
    PROVE  d = t
<1>1. PICK run : run[0] = d /\ run[Len(<<>>)] = t
  BY DEF Leads
<1> QED BY <1>1

LEMMA LeadsStay ==
    ASSUME NEW d
    PROVE  Leads(d, <<>>, d)
<1> DEFINE run == [i \in {0} |-> d]
<1>1. run[0] = d /\ run[Len(<<>>)] = d
  OBVIOUS
<1>2. \A i \in 1 .. Len(<<>>) : run[i] = Apply(run[i - 1], <<>>[i])
  OBVIOUS
<1> HIDE DEF run
<1> QED BY <1>1, <1>2 DEF Leads

LEMMA LeadsStep ==
    ASSUME NEW d, NEW t, NEW ws \in Seq(Write), ws # <<>>, Leads(d, ws, t)
    PROVE  Leads(Apply(d, Head(ws)), Tail(ws), t)
<1>1. PICK run : /\ run[0] = d /\ run[Len(ws)] = t
                 /\ \A i \in 1 .. Len(ws) : run[i] = Apply(run[i - 1], ws[i])
  BY DEF Leads
<1>2. Len(ws) \in Nat \ {0} /\ Head(ws) = ws[1] /\ Len(Tail(ws)) = Len(ws) - 1
      /\ \A i \in 1 .. Len(ws) - 1 : Tail(ws)[i] = ws[i + 1]
  OBVIOUS
<1> DEFINE n == Len(ws) - 1
           rest == [i \in 0 .. n |-> run[i + 1]]
<1>3. n \in Nat /\ Len(Tail(ws)) = n /\ Len(ws) = n + 1
  BY <1>2
<1>4. rest[0] = Apply(d, Head(ws))
  <2>1. rest[0] = run[1] /\ 1 \in 1 .. Len(ws)
    BY <1>3
  <2> QED BY <1>1, <1>2, <2>1
<1>5. rest[n] = t
  BY <1>1, <1>3
<1>6. ASSUME NEW i \in 1 .. n PROVE rest[i] = Apply(rest[i - 1], Tail(ws)[i])
  <2>1. i + 1 \in 1 .. Len(ws) /\ i \in 0 .. n /\ i - 1 \in 0 .. n /\ (i + 1) - 1 = i /\ (i - 1) + 1 = i
    BY <1>3
  <2>2. run[i + 1] = Apply(run[i], ws[i + 1])
    BY <1>1, <2>1
  <2>3. rest[i] = run[i + 1] /\ rest[i - 1] = run[i]
    BY <2>1
  <2> QED BY <1>2, <2>2, <2>3
<1> HIDE DEF rest, n
<1> QED BY <1>3, <1>4, <1>5, <1>6 DEF Leads

LEMMA LeadsOn ==
    ASSUME NEW d, NEW m, NEW t, NEW us \in Seq(Write), NEW ws \in Seq(Write),
           Leads(d, us, m), Leads(m, ws, t)
    PROVE  Leads(d, us \o ws, t)
<1>1. PICK one : /\ one[0] = d /\ one[Len(us)] = m
                 /\ \A i \in 1 .. Len(us) : one[i] = Apply(one[i - 1], us[i])
  BY DEF Leads
<1>2. PICK two : /\ two[0] = m /\ two[Len(ws)] = t
                 /\ \A i \in 1 .. Len(ws) : two[i] = Apply(two[i - 1], ws[i])
  BY DEF Leads
<1> DEFINE k == Len(us)
           n == Len(us \o ws)
           both == [i \in 0 .. n |-> IF i <= k THEN one[i] ELSE two[i - k]]
<1>3. /\ k \in Nat /\ Len(ws) \in Nat /\ n = k + Len(ws)
      /\ \A i \in 1 .. k : (us \o ws)[i] = us[i]
      /\ \A i \in 1 .. Len(ws) : (us \o ws)[k + i] = ws[i]
  OBVIOUS
<1>4. both[0] = d
  BY <1>1, <1>3
<1>5. both[n] = t
  <2>1. CASE Len(ws) = 0
    BY <1>1, <1>2, <1>3, <2>1
  <2>2. CASE Len(ws) # 0
    <3>1. both[n] = two[n - k] /\ n - k = Len(ws)
      BY <1>3, <2>2
    <3> QED BY <1>2, <3>1
  <2> QED BY <2>1, <2>2
<1>6. ASSUME NEW i \in 1 .. n PROVE both[i] = Apply(both[i - 1], (us \o ws)[i])
  <2>0. i \in 0 .. n /\ i - 1 \in 0 .. n
    BY <1>3
  <2>1. CASE i <= k
    <3>1. i \in 1 .. k /\ both[i] = one[i] /\ both[i - 1] = one[i - 1]
      BY <1>3, <2>0, <2>1
    <3> QED BY <1>1, <1>3, <3>1
  <2>2. CASE i > k
    <3>1. i - k \in 1 .. Len(ws) /\ i = k + (i - k) /\ both[i] = two[i - k]
      BY <1>3, <2>0, <2>2
    <3>2. (us \o ws)[i] = ws[i - k] /\ two[i - k] = Apply(two[(i - k) - 1], ws[i - k])
      BY <1>2, <1>3, <3>1
    <3>3. both[i - 1] = two[(i - k) - 1]
      <4>1. CASE i = k + 1
        BY <1>1, <1>2, <1>3, <2>0, <4>1
      <4>2. CASE i # k + 1
        BY <1>3, <2>0, <2>2, <4>2
      <4> QED BY <4>1, <4>2
    <3> QED BY <3>1, <3>2, <3>3
  <2> QED BY <1>3, <2>1, <2>2
<1> HIDE DEF both, n, k
<1> QED BY <1>4, <1>5, <1>6 DEF Leads, n

LEMMA LeadsOnce ==
    ASSUME NEW d, NEW w
    PROVE  Leads(d, <<w>>, Apply(d, w))
<1> DEFINE run == [i \in 0 .. 1 |-> IF i = 0 THEN d ELSE Apply(d, w)]
<1>1. run[0] = d /\ run[1] = Apply(d, w) /\ Len(<<w>>) = 1 /\ <<w>>[1] = w
  OBVIOUS
<1>2. \A i \in 1 .. 1 : run[i] = Apply(run[i - 1], <<w>>[i])
  BY <1>1
<1> HIDE DEF run
<1> QED BY <1>1, <1>2 DEF Leads
\* Overwriting a log leaves exactly the values in it.
LEMMA LeadsOverwrite ==
    ASSUME NEW dk \in [Logs -> Seq(Line)], NEW sn, NEW f \in Logs, NEW vs \in Seq(Value(f))
    PROVE  Leads(<<dk, sn>>, Overwrite(f, vs), <<[dk EXCEPT ![f] = Whole(vs)], sn>>)
<1> DEFINE n == Len(vs)
           ws == Overwrite(f, vs)
           upTo(i) == SubSeq(vs, 1, i)
           at(i) == <<[dk EXCEPT ![f] = Whole(upTo(i))], sn>>
           run == [i \in 0 .. n + 1 |-> IF i = 0 THEN <<dk, sn>> ELSE at(i - 1)]
<1>1. /\ n \in Nat /\ Len(ws) = n + 1 /\ ws[1] = Create(f)
      /\ \A i \in 1 .. n : ws[i + 1] = Append1(f, vs[i])
  BY OverwriteType
<1>2. f # "snapshot"
  BY DEF Logs
<1>3. upTo(0) = <<>> /\ upTo(n) = vs
  OBVIOUS
<1>4. Whole(<<>>) = <<>>
  BY DEF Whole
<1>a. run[0] = <<dk, sn>> /\ \A i \in 0 .. n : run[i + 1] = at(i)
  <2> HIDE DEF at, n
  <2>1. run[0] = <<dk, sn>>
    BY <1>1
  <2>2. ASSUME NEW i \in 0 .. n PROVE run[i + 1] = at(i)
    <3>1. i + 1 \in 0 .. n + 1 /\ i + 1 # 0 /\ (i + 1) - 1 = i
      BY <1>1
    <3> QED BY <3>1
  <2> QED BY <2>1, <2>2
<1> HIDE DEF run
<1>5. run[0] = <<dk, sn>> /\ run[n + 1] = <<[dk EXCEPT ![f] = Whole(vs)], sn>>
  <2>1. run[n + 1] = at(n)
    <3>1. n \in 0 .. n
      BY <1>1
    <3> HIDE DEF at, n
    <3> QED BY <1>a, <3>1
  <2> QED BY <1>3, <1>a, <2>1
<1>6. ASSUME NEW i \in 1 .. n + 1 PROVE run[i] = Apply(run[i - 1], ws[i])
  <2>1. CASE i = 1
    <3>1. run[1] = at(0) /\ run[0] = <<dk, sn>>
      <4>1. 0 \in 0 .. n /\ 0 + 1 = 1
        BY <1>1
      <4> HIDE DEF at
      <4> QED BY <1>a, <4>1
    <3>2. Apply(<<dk, sn>>, Create(f)) = <<[dk EXCEPT ![f] = <<>>], sn>>
      BY <1>2 DEF Apply, Create
    <3>3. at(0) = <<[dk EXCEPT ![f] = <<>>], sn>>
      BY <1>3, <1>4
    <3>4. run[i - 1] = run[0] /\ run[i] = run[1] /\ ws[i] = Create(f)
      <4> HIDE DEF ws
      <4> QED BY <1>1, <2>1
    <3> HIDE DEF at, upTo, ws
    <3> QED BY <3>1, <3>2, <3>3, <3>4
  <2>2. CASE i # 1
    <3> DEFINE j == i - 1
               before == [dk EXCEPT ![f] = Whole(upTo(j - 1))]
    <3>1. j \in 1 .. n /\ i = j + 1 /\ j - 1 \in 0 .. n
      BY <1>1, <2>2
    <3>2. run[i] = <<[dk EXCEPT ![f] = Whole(upTo(j))], sn>> /\ run[i - 1] = <<before, sn>>
      <4>1. run[j + 1] = at(j) /\ run[(j - 1) + 1] = at(j - 1)
        <5> HIDE DEF at, j
        <5> QED BY <1>1, <1>a, <3>1
      <4>2. (j - 1) + 1 = i - 1
        BY <3>1
      <4> QED BY <3>1, <4>1, <4>2
    <3>3. ws[i] = Append1(f, vs[j])
      BY <1>1, <3>1
    <3>4. /\ upTo(j - 1) \in Seq(Value(f)) /\ vs[j] \in Value(f)
          /\ Append(upTo(j - 1), vs[j]) = upTo(j)
      BY <1>1, <3>1
    <3> HIDE DEF upTo, run, ws, j
    <3>5. WithLine(before[f], vs[j], "line") = Whole(upTo(j))
      BY <3>4, WholeAppend
    <3>6. Apply(<<before, sn>>, Append1(f, vs[j])) = <<[before EXCEPT ![f] = WithLine(before[f], vs[j], "line")], sn>>
      BY <1>2 DEF Apply, Append1
    <3>7. [before EXCEPT ![f] = Whole(upTo(j))] = [dk EXCEPT ![f] = Whole(upTo(j))]
      OBVIOUS
    <3> HIDE DEF before
    <3> QED BY <3>2, <3>3, <3>5, <3>6, <3>7
  <2> QED BY <2>1, <2>2
<1> HIDE DEF run, ws, n
<1> QED BY <1>1, <1>5, <1>6 DEF Leads, ws

LEMMA LeadsSnapshot ==
    ASSUME NEW dk, NEW sn, NEW t \in Blocks \cup {Genesis}
    PROVE  Leads(<<dk, sn>>, WriteSnapshot(t), <<dk, t>>)
<1> DEFINE run == [i \in 0 .. 2 |-> IF i = 0 THEN <<dk, sn>> ELSE IF i = 1 THEN <<dk, Torn>> ELSE <<dk, t>>]
           ws == WriteSnapshot(t)
<1>1. Len(ws) = 2 /\ ws[1] = Create("snapshot") /\ ws[2] = Append1("snapshot", t)
  <2>1. <<t>> \in Seq(Value("snapshot")) /\ Len(<<t>>) = 1 /\ <<t>>[1] = t
    BY ValueTypes
  <2>2. /\ Len(ws) = Len(<<t>>) + 1 /\ ws[1] = Create("snapshot")
        /\ \A i \in 1 .. Len(<<t>>) : ws[i + 1] = Append1("snapshot", <<t>>[i])
    BY <2>1, OverwriteType DEF WriteSnapshot
  <2> HIDE DEF ws
  <2>3. ws[1 + 1] = Append1("snapshot", <<t>>[1])
    BY <2>1, <2>2
  <2> QED BY <2>1, <2>2, <2>3
<1>2. run[0] = <<dk, sn>> /\ run[1] = <<dk, Torn>> /\ run[2] = <<dk, t>>
  OBVIOUS
<1>3. Apply(<<dk, sn>>, Create("snapshot")) = <<dk, Torn>>
  BY DEF Apply, Create
<1>4. Apply(<<dk, Torn>>, Append1("snapshot", t)) = <<dk, t>>
  BY DEF Apply, Append1
<1> HIDE DEF run, ws
<1>5. run[1] = Apply(run[1 - 1], ws[1]) /\ run[2] = Apply(run[2 - 1], ws[2])
  BY <1>1, <1>2, <1>3, <1>4
<1>6. \A i \in 1 .. 2 : run[i] = Apply(run[i - 1], ws[i])
  BY <1>5
<1> QED BY <1>1, <1>2, <1>6 DEF Leads, ws

LEMMA LeadsChain ==
    ASSUME NEW dk \in [Logs -> Seq(Line)], NEW sn, NEW t \in Blocks \cup {Genesis}, NEW C \in SUBSET Blocks
    PROVE  Leads(<<dk, sn>>, ChainWrites(t, C),
                 <<[dk EXCEPT !["blocks"] = Whole(ChainSeq(t)), !["qcs"] = Whole(SetToSeq(C))], t>>)
<1> DEFINE bs == ChainSeq(t)
           cs == SetToSeq(C)
           d1 == [dk EXCEPT !["blocks"] = Whole(bs)]
           d2 == [d1 EXCEPT !["qcs"] = Whole(cs)]
<1>0. "blocks" \in Logs /\ "qcs" \in Logs
  BY DEF Logs
<1>1. bs \in Seq(Value("blocks")) /\ cs \in Seq(Value("qcs"))
  BY ChainSeqPlaces, SetToSeqComplete, ValueTypes
<1>2. /\ WriteSnapshot(t) \in Seq(Write) /\ Overwrite("blocks", bs) \in Seq(Write)
      /\ Overwrite("qcs", cs) \in Seq(Write)
  BY <1>0, <1>1, OverwriteType, ChainWritesType
<1>3. ChainWrites(t, C) = (WriteSnapshot(t) \o Overwrite("blocks", bs)) \o Overwrite("qcs", cs)
  BY <1>2 DEF ChainWrites
<1>4. Whole(bs) \in Seq(Line)
  <2>1. bs \in Seq(Blocks)
    BY ChainSeqPlaces
  <2>2. Whole(bs) \in Seq({"line"} \X Blocks)
    BY <2>1, WholeType
  <2>3. {"line"} \X Blocks \subseteq Line
    BY DEF Line, Kinds
  <2> QED BY <2>2, <2>3
<1> HIDE DEF bs, cs
<1>5. d1 \in [Logs -> Seq(Line)]
  BY <1>4
<1>6. Leads(<<dk, sn>>, WriteSnapshot(t), <<dk, t>>)
  BY LeadsSnapshot
<1>7. Leads(<<dk, t>>, Overwrite("blocks", bs), <<d1, t>>)
  BY <1>0, <1>1, LeadsOverwrite
<1>8. Leads(<<d1, t>>, Overwrite("qcs", cs), <<d2, t>>)
  <2> HIDE DEF d1
  <2> QED BY <1>0, <1>1, <1>5, LeadsOverwrite
<1>9. d2 = [dk EXCEPT !["blocks"] = Whole(bs), !["qcs"] = Whole(cs)]
  OBVIOUS
<1> HIDE DEF d1, d2
<1>10. Leads(<<dk, sn>>, WriteSnapshot(t) \o Overwrite("blocks", bs), <<d1, t>>)
  BY <1>2, <1>6, <1>7, LeadsOn
<1>11. WriteSnapshot(t) \o Overwrite("blocks", bs) \in Seq(Write)
  BY <1>2
<1>12. Leads(<<dk, sn>>, ChainWrites(t, C), <<d2, t>>)
  BY <1>2, <1>3, <1>8, <1>10, <1>11, LeadsOn
<1> QED BY <1>9, <1>12 DEF bs, cs
\* Appending a value to whole lines.
LEMMA LeadsAppend ==
    ASSUME NEW dk \in [Logs -> Seq(Line)], NEW sn, NEW f \in Logs,
           NEW vs \in Seq(Value(f)), NEW v \in Value(f), dk[f] = Whole(vs)
    PROVE  Leads(<<dk, sn>>, <<Append1(f, v)>>, <<[dk EXCEPT ![f] = Whole(Append(vs, v))], sn>>)
<1>1. WithLine(dk[f], v, "line") = Whole(Append(vs, v))
  BY WholeAppend
<1>2. f # "snapshot"
  BY DEF Logs
<1>3. Apply(<<dk, sn>>, Append1(f, v)) = <<[dk EXCEPT ![f] = WithLine(dk[f], v, "line")], sn>>
  BY <1>2 DEF Apply, Append1
<1> QED BY <1>1, <1>3, LeadsOnce

\* The files d hold the blocks bs, the tip t, at least the certificates C and the receipts R.
Mirrors(d, bs, t, C, R) ==
    /\ d[1]["blocks"] = Whole(bs)
    /\ \E s \in Seq(Blocks) : d[1]["qcs"] = Whole(s) /\ C \subseteq ToSet(s)
    /\ \E s \in Seq(Receipt) : d[1]["receipts"] = Whole(s) /\ R = ToSet(s)
    /\ d[2] = t \/ (d[2] = Missing /\ t = Genesis)

\* Block list and ledger agree, and the writes still to be done lead to files that hold
\* what is in memory.
OrderlyInv ==
    ~killed =>
        /\ blocks = ChainSeq(tip)
        /\ state # "up" => writes = <<>>
        /\ \E d : Leads(files, writes, d) /\ Mirrors(d, blocks, tip, qcs, receipts)

LEMMA MirrorsNow ==
    ASSUME OrderlyInv, ~killed, writes = <<>>
    PROVE  Mirrors(<<disk, snapshot>>, blocks, tip, qcs, receipts)
<1>1. PICK d : Leads(files, <<>>, d) /\ Mirrors(d, blocks, tip, qcs, receipts)
  BY DEF OrderlyInv
<1>2. files = d
  BY <1>1, LeadsNowhere
<1> QED BY <1>1, <1>2 DEF files

\* The blocks and certificates of a chain that replaces another one.
LEMMA MirrorsChain ==
    ASSUME NEW dk \in [Logs -> Seq(Line)], NEW sn, NEW bs, NEW u, NEW C0, NEW R,
           Mirrors(<<dk, sn>>, bs, u, C0, R), NEW t \in Blocks, NEW C \in SUBSET Blocks
    PROVE  \E d : Leads(<<dk, sn>>, ChainWrites(t, C), d) /\ Mirrors(d, ChainSeq(t), t, C, R)
<1> DEFINE dk2 == [dk EXCEPT !["blocks"] = Whole(ChainSeq(t)), !["qcs"] = Whole(SetToSeq(C))]
<1>1. Leads(<<dk, sn>>, ChainWrites(t, C), <<dk2, t>>)
  BY LeadsChain
<1>2. /\ dk2["blocks"] = Whole(ChainSeq(t)) /\ dk2["qcs"] = Whole(SetToSeq(C))
      /\ dk2["receipts"] = dk["receipts"]
  BY DEF Logs
<1>3. SetToSeq(C) \in Seq(Blocks) /\ C \subseteq ToSet(SetToSeq(C))
  BY SetToSeqComplete
<1>4. \E s \in Seq(Receipt) : dk["receipts"] = Whole(s) /\ R = ToSet(s)
  BY DEF Mirrors
<1> HIDE DEF dk2
<1>5. Mirrors(<<dk2, t>>, ChainSeq(t), t, C, R)
  BY <1>2, <1>3, <1>4 DEF Mirrors
<1> QED BY <1>1, <1>5

LEMMA ToSetAppend ==
    ASSUME NEW T, NEW s \in Seq(T), NEW x \in T
    PROVE  ToSet(Append(s, x)) = ToSet(s) \cup {x}
<1>1. /\ DOMAIN Append(s, x) = 1 .. Len(s) + 1 /\ DOMAIN s = 1 .. Len(s) /\ Len(s) \in Nat
      /\ \A i \in 1 .. Len(s) : Append(s, x)[i] = s[i]
      /\ Append(s, x)[Len(s) + 1] = x
  OBVIOUS
<1>2. ASSUME NEW y PROVE y \in ToSet(Append(s, x)) <=> y \in ToSet(s) \cup {x}
  <2>1. y \in ToSet(Append(s, x)) <=> \E i \in 1 .. Len(s) + 1 : Append(s, x)[i] = y
    BY <1>1 DEF ToSet
  <2>2. y \in ToSet(s) <=> \E i \in 1 .. Len(s) : s[i] = y
    BY <1>1 DEF ToSet
  <2>3. 1 .. Len(s) + 1 = 1 .. Len(s) \cup {Len(s) + 1}
    BY <1>1
  <2> QED BY <1>1, <2>1, <2>2, <2>3
<1> QED BY <1>2

LEMMA OrderlyStep ==
    StorageTypeOK /\ OrderlyInv /\ [StorageNext]_stored => OrderlyInv'
<1> SUFFICES ASSUME StorageTypeOK, OrderlyInv, [StorageNext]_stored, ~killed' PROVE OrderlyInv'
  BY DEF OrderlyInv
<1>0. Logs = {"blocks", "qcs", "receipts"} /\ disk \in [Logs -> Seq(Line)]
      /\ qcs \in SUBSET Blocks /\ blocks \in Seq(Blocks) /\ tip \in Blocks \cup {Genesis}
  BY DEF Logs, StorageTypeOK
<1>1. CASE DoWrite
  <2>1. ~killed /\ writes # <<>> /\ writes \in Seq(Write)
    BY <1>1 DEF DoWrite, ends, StorageTypeOK
  <2>2. PICK d : Leads(files, writes, d) /\ Mirrors(d, blocks, tip, qcs, receipts)
    BY <2>1 DEF OrderlyInv
  <2>3. files' = Apply(files, Head(writes))
    BY <1>1 DEF DoWrite, Apply, files
  <2>4. Leads(files', writes', d)
    BY <1>1, <2>1, <2>2, <2>3, LeadsStep DEF DoWrite
  <2>5. UNCHANGED <<state, blocks, tip, qcs, receipts>> /\ state = "up"
    BY <1>1 DEF DoWrite, memory
  <2> QED BY <2>1, <2>2, <2>4, <2>5 DEF OrderlyInv
<1>2. ASSUME NEW b \in Blocks, AcceptBlock(b) PROVE OrderlyInv'
  <2>1. ~killed /\ writes = <<>> /\ state = "up" /\ state' = "up"
    BY <1>2 DEF AcceptBlock, Ready, ends
  <2>2. Mirrors(<<disk, snapshot>>, blocks, tip, qcs, receipts)
    BY <2>1, MirrorsNow
  <2> DEFINE bs == Append(blocks, b)
             dk == [disk EXCEPT !["blocks"] = Whole(bs)]
  <2>3. bs = ChainSeq(b) /\ blocks' = bs /\ tip' = b /\ UNCHANGED <<qcs, receipts, disk, snapshot>>
    BY <1>2, <2>1, ChainSeqStep DEF AcceptBlock, OrderlyInv, files
  <2>4. Leads(<<disk, snapshot>>, <<Append1("blocks", b)>>, <<dk, snapshot>>)
    BY <1>0, <2>2, LeadsAppend, ValueTypes DEF Mirrors
  <2>5. Leads(<<dk, snapshot>>, WriteSnapshot(b), <<dk, b>>)
    BY LeadsSnapshot
  <2>6. <<Append1("blocks", b)>> \in Seq(Write) /\ WriteSnapshot(b) \in Seq(Write)
    <3>1. Append1("blocks", b) \in Write /\ WriteSnapshot(b) \in Seq(Write)
      BY <1>0, WriteTypes, ValueTypes, ChainWritesType
    <3> QED BY <3>1
  <2>7. dk["blocks"] = Whole(bs) /\ dk["qcs"] = disk["qcs"] /\ dk["receipts"] = disk["receipts"]
    BY <1>0
  <2> HIDE DEF dk, bs
  <2>8. Leads(<<disk, snapshot>>, writes', <<dk, b>>)
    BY <1>2, <2>4, <2>5, <2>6, LeadsOn DEF AcceptBlock
  <2>9. Mirrors(<<dk, b>>, bs, b, qcs, receipts)
    BY <2>2, <2>7 DEF Mirrors
  <2> QED BY <2>1, <2>3, <2>8, <2>9 DEF OrderlyInv, files
<1>3. ASSUME NEW b \in Blocks, Certify(b) PROVE OrderlyInv'
  <2>1. ~killed /\ writes = <<>> /\ state = "up" /\ state' = "up"
    BY <1>3 DEF Certify, Ready, ends
  <2>2. Mirrors(<<disk, snapshot>>, blocks, tip, qcs, receipts)
    BY <2>1, MirrorsNow
  <2>3. PICK s \in Seq(Blocks) : disk["qcs"] = Whole(s) /\ qcs \subseteq ToSet(s)
    BY <2>2 DEF Mirrors
  <2> DEFINE dk == [disk EXCEPT !["qcs"] = Whole(Append(s, b))]
  <2>4. Leads(<<disk, snapshot>>, <<Append1("qcs", b)>>, <<dk, snapshot>>)
    BY <1>0, <2>3, LeadsAppend, ValueTypes
  <2>5. Append(s, b) \in Seq(Blocks) /\ qcs \cup {b} \subseteq ToSet(Append(s, b))
    BY <2>3, ToSetAppend
  <2>6. dk["qcs"] = Whole(Append(s, b)) /\ dk["blocks"] = disk["blocks"] /\ dk["receipts"] = disk["receipts"]
    BY <1>0
  <2> HIDE DEF dk
  <2>7. Mirrors(<<dk, snapshot>>, blocks, tip, qcs \cup {b}, receipts)
    BY <2>2, <2>5, <2>6 DEF Mirrors
  <2>8. /\ writes' = <<Append1("qcs", b)>> /\ qcs' = qcs \cup {b}
        /\ UNCHANGED <<blocks, tip, receipts, disk, snapshot>>
    BY <1>3 DEF Certify, files
  <2>9. blocks = ChainSeq(tip)
    BY <2>1 DEF OrderlyInv
  <2> QED BY <2>1, <2>4, <2>7, <2>8, <2>9 DEF OrderlyInv, files
<1>4. ASSUME NEW b \in Blocks, CertifyAndAdopt(b) PROVE OrderlyInv'
  <2>1. ~killed /\ writes = <<>> /\ state = "up" /\ state' = "up"
    BY <1>4 DEF CertifyAndAdopt, Ready, ends
  <2>2. Mirrors(<<disk, snapshot>>, blocks, tip, qcs, receipts)
    BY <2>1, MirrorsNow
  <2>3. PICK s \in Seq(Blocks) : disk["qcs"] = Whole(s)
    BY <2>2 DEF Mirrors
  <2> DEFINE dk == [disk EXCEPT !["qcs"] = Whole(Append(s, b))]
             C == qcs \cup {b}
  <2>4. Leads(<<disk, snapshot>>, <<Append1("qcs", b)>>, <<dk, snapshot>>)
    BY <1>0, <2>3, LeadsAppend, ValueTypes
  <2>5. Append(s, b) \in Seq(Blocks) /\ C \in SUBSET Blocks
    BY <1>0, <2>3
  <2>6. /\ dk["qcs"] = Whole(Append(s, b)) /\ dk["blocks"] = disk["blocks"] /\ dk["receipts"] = disk["receipts"]
        /\ dk \in [Logs -> Seq(Line)]
    <3>1. Whole(Append(s, b)) \in Seq({"line"} \X Blocks)
      BY <2>5, WholeType
    <3>2. {"line"} \X Blocks \subseteq Line
      BY DEF Line, Kinds
    <3>3. Whole(Append(s, b)) \in Seq(Line)
      BY <3>1, <3>2
    <3> QED BY <1>0, <3>3
  <2> HIDE DEF dk, C
  <2>7. Mirrors(<<dk, snapshot>>, blocks, tip, {}, receipts)
    BY <2>2, <2>5, <2>6 DEF Mirrors
  <2>8. PICK d : Leads(<<dk, snapshot>>, ChainWrites(b, C), d) /\ Mirrors(d, ChainSeq(b), b, C, receipts)
    BY <2>5, <2>6, <2>7, MirrorsChain
  <2>9. <<Append1("qcs", b)>> \in Seq(Write) /\ ChainWrites(b, C) \in Seq(Write)
    BY <1>0, <2>5, WriteTypes, ValueTypes, ChainWritesType
  <2>10. Leads(<<disk, snapshot>>, <<Append1("qcs", b)>> \o ChainWrites(b, C), d)
    BY <2>4, <2>8, <2>9, LeadsOn
  <2>11. /\ writes' = <<Append1("qcs", b)>> \o ChainWrites(b, C) /\ qcs' = C /\ blocks' = ChainSeq(b) /\ tip' = b
         /\ UNCHANGED <<receipts, disk, snapshot>>
    BY <1>4 DEF CertifyAndAdopt, files, C
  <2> QED BY <2>1, <2>8, <2>10, <2>11 DEF OrderlyInv, files
<1>5. ASSUME NEW t \in Blocks, ReplaceChain(t) PROVE OrderlyInv'
  <2>1. ~killed /\ writes = <<>> /\ state = "up" /\ state' = "up"
    BY <1>5 DEF ReplaceChain, Ready, ends
  <2>2. Mirrors(<<disk, snapshot>>, blocks, tip, qcs, receipts)
    BY <2>1, MirrorsNow
  <2>3. PICK C \in {qcs, qcs \cap Chain[t]} : qcs' = C /\ writes' = ChainWrites(t, C)
    BY <1>5 DEF ReplaceChain
  <2>4. C \in SUBSET Blocks
    BY <1>0, <2>3
  <2>5. PICK d : Leads(<<disk, snapshot>>, ChainWrites(t, C), d) /\ Mirrors(d, ChainSeq(t), t, C, receipts)
    BY <1>0, <2>2, <2>4, MirrorsChain
  <2>6. blocks' = ChainSeq(t) /\ tip' = t /\ UNCHANGED <<receipts, disk, snapshot>>
    BY <1>5 DEF ReplaceChain, files
  <2> QED BY <2>1, <2>3, <2>5, <2>6 DEF OrderlyInv, files
<1>6. ASSUME NEW r \in Receipt, StoreReceipt(r) PROVE OrderlyInv'
  <2>1. ~killed /\ writes = <<>> /\ state = "up" /\ state' = "up"
    BY <1>6 DEF StoreReceipt, Ready, ends
  <2>2. Mirrors(<<disk, snapshot>>, blocks, tip, qcs, receipts)
    BY <2>1, MirrorsNow
  <2>3. PICK s \in Seq(Receipt) : disk["receipts"] = Whole(s) /\ receipts = ToSet(s)
    BY <2>2 DEF Mirrors
  <2> DEFINE dk == [disk EXCEPT !["receipts"] = Whole(Append(s, r))]
  <2>4. Leads(<<disk, snapshot>>, <<Append1("receipts", r)>>, <<dk, snapshot>>)
    BY <1>0, <2>3, LeadsAppend, ValueTypes
  <2>5. Append(s, r) \in Seq(Receipt) /\ receipts \cup {r} = ToSet(Append(s, r))
    BY <2>3, ToSetAppend
  <2>6. /\ dk["receipts"] = Whole(Append(s, r)) /\ dk["blocks"] = disk["blocks"] /\ dk["qcs"] = disk["qcs"]
    BY <1>0
  <2> HIDE DEF dk
  <2>7. Mirrors(<<dk, snapshot>>, blocks, tip, qcs, receipts \cup {r})
    BY <2>2, <2>5, <2>6 DEF Mirrors
  <2>8. /\ writes' = <<Append1("receipts", r)>> /\ receipts' = receipts \cup {r}
        /\ UNCHANGED <<blocks, tip, qcs, disk, snapshot>>
    BY <1>6 DEF StoreReceipt, files
  <2>9. blocks = ChainSeq(tip)
    BY <2>1 DEF OrderlyInv
  <2> QED BY <2>1, <2>4, <2>7, <2>8, <2>9 DEF OrderlyInv, files
<1>7. CASE Shutdown
  <2>1. ~killed /\ writes = <<>> /\ writes' = <<>> /\ snapshot' = tip /\ disk' = disk /\ UNCHANGED <<blocks, tip, qcs, receipts>>
    BY <1>7 DEF Shutdown, Ready, memory
  <2>2. Mirrors(<<disk, snapshot>>, blocks, tip, qcs, receipts)
    BY <2>1, MirrorsNow
  <2>3. Mirrors(<<disk, tip>>, blocks, tip, qcs, receipts)
    BY <2>2 DEF Mirrors
  <2>4. Leads(<<disk, tip>>, <<>>, <<disk, tip>>)
    BY LeadsStay
  <2>5. blocks = ChainSeq(tip)
    BY <2>1 DEF OrderlyInv
  <2> QED BY <2>1, <2>3, <2>4, <2>5 DEF OrderlyInv, files
<1>8. CASE Kill
  BY <1>8 DEF Kill
<1>9. CASE StartNode
  <2>1. ~killed /\ writes = <<>> /\ writes' = <<>> /\ state' = "up" /\ UNCHANGED <<disk, snapshot>>
    BY <1>9 DEF StartNode, OrderlyInv, ends, files
  <2>2. Mirrors(<<disk, snapshot>>, blocks, tip, qcs, receipts) /\ blocks = ChainSeq(tip)
    BY <2>1, MirrorsNow DEF OrderlyInv
  <2>3. Loaded(disk["blocks"]) = blocks
    BY <1>0, <2>2, LoadedWhole DEF Mirrors
  <2>4. RestoredTip(blocks) = tip
    <3>1. CASE snapshot = Missing /\ tip = Genesis
      <4>1. blocks = <<>>
        BY <2>2, <3>1, ChainSeqStep
      <4> QED BY <3>1, <4>1 DEF RestoredTip, ReplayedTip
    <3>2. CASE snapshot = tip
      <4>1. snapshot # Missing
        BY <1>0, <3>2, BlocksAssumption DEF Missing, Genesis
      <4> QED BY <3>2, <4>1 DEF RestoredTip
    <3> QED BY <2>2, <3>1, <3>2 DEF Mirrors
  <2>5. PICK s \in Seq(Receipt) : disk["receipts"] = Whole(s) /\ receipts = ToSet(s)
    BY <2>2 DEF Mirrors
  <2>6. Loaded(disk["receipts"]) = s
    BY <2>5, LoadedWhole
  <2>7. PICK c \in Seq(Blocks) : disk["qcs"] = Whole(c) /\ qcs \subseteq ToSet(c)
    BY <2>2 DEF Mirrors
  <2>8. Loaded(disk["qcs"]) = c
    BY <2>7, LoadedWhole
  <2>9. /\ blocks' = blocks /\ tip' = tip /\ receipts' = receipts
        /\ qcs' = ToSet(c) \cap ToSet(blocks)
    BY <1>9, <2>3, <2>4, <2>5, <2>6, <2>8 DEF StartNode, RestoredQcs
  <2>10. Mirrors(<<disk, snapshot>>, blocks, tip, ToSet(c) \cap ToSet(blocks), receipts)
    BY <2>2, <2>7 DEF Mirrors
  <2>11. Leads(<<disk, snapshot>>, <<>>, <<disk, snapshot>>)
    BY LeadsStay
  <2> QED BY <2>1, <2>2, <2>9, <2>10, <2>11 DEF OrderlyInv, files
<1>10. CASE StartFails
  <2>1. ~killed /\ writes = <<>> /\ UNCHANGED <<blocks, tip, qcs, receipts, disk, snapshot, writes>>
    BY <1>10 DEF StartFails, memory, files, ends, OrderlyInv
  <2> QED BY <2>1 DEF OrderlyInv, files
<1>11. CASE UNCHANGED stored
  <2>1. ~killed /\ UNCHANGED <<state, blocks, tip, qcs, receipts, disk, snapshot, writes>>
    BY <1>11 DEF stored, memory, files, ends
  <2> QED BY <2>1 DEF OrderlyInv, files
<1> QED BY <1>1, <1>2, <1>3, <1>4, <1>5, <1>6, <1>7, <1>8, <1>9, <1>10, <1>11 DEF StorageNext

LEMMA OrderlyStart == StorageInit => OrderlyInv
<1> SUFFICES ASSUME StorageInit PROVE OrderlyInv
  OBVIOUS
<1>1. blocks = ChainSeq(tip) /\ state = "up" /\ writes = <<>>
  BY ChainSeqStep DEF StorageInit
<1>2. Leads(files, writes, files)
  BY <1>1, LeadsStay
<1>3. disk["blocks"] = <<>> /\ disk["qcs"] = <<>> /\ disk["receipts"] = <<>>
  BY DEF StorageInit, Logs
<1>4. <<>> = Whole(<<>>) /\ ToSet(<<>>) = {}
  BY DEF Whole, ToSet
<1>5. <<>> \in Seq(Blocks) /\ <<>> \in Seq(Receipt)
  OBVIOUS
<1>6. blocks = <<>> /\ tip = Genesis /\ qcs = {} /\ receipts = {} /\ snapshot = Missing
  BY DEF StorageInit
<1>7. Mirrors(<<disk, snapshot>>, blocks, tip, qcs, receipts)
  BY <1>3, <1>4, <1>5, <1>6 DEF Mirrors
<1> QED BY <1>1, <1>2, <1>7 DEF OrderlyInv, files

\* As long as the process is not killed, the ledger's tip is the last of the stored blocks
\* and between two events the block and receipt files hold what is in memory: for every
\* block tree, every order of appends, overwrites and restarts.
THEOREM FilesAlwaysFollowChain == StorageSpec => []FilesFollowChain
<1>1. StorageTypeOK /\ OrderlyInv => FilesFollowChain
  <2> SUFFICES ASSUME StorageTypeOK, OrderlyInv, ~killed PROVE BlocksFormChain /\ DiskMirrorsMemory
    BY DEF FilesFollowChain
  <2>1. BlocksFormChain
    BY DEF BlocksFormChain, OrderlyInv
  <2>2. ASSUME Ready PROVE Loaded(disk["blocks"]) = blocks /\ ToSet(Loaded(disk["receipts"])) = receipts
    <3>1. Mirrors(<<disk, snapshot>>, blocks, tip, qcs, receipts)
      BY <2>2, MirrorsNow DEF Ready
    <3>2. Loaded(disk["blocks"]) = blocks
      BY <3>1, LoadedWhole DEF Mirrors, StorageTypeOK
    <3>3. PICK s \in Seq(Receipt) : disk["receipts"] = Whole(s) /\ receipts = ToSet(s)
      BY <3>1 DEF Mirrors
    <3> QED BY <3>2, <3>3, LoadedWhole
  <2> QED BY <2>1, <2>2 DEF DiskMirrorsMemory
<1> QED BY <1>1, StorageTypeCorrect, OrderlyStart, OrderlyStep, PTL DEF StorageSpec
-----------------------------------------------------------------------------
(* Receipts over restarts, after kills too.  The receipt file is only ever  *)
(* appended to; once it does not load it never loads again, and while it    *)
(* does, all but the last receipt or two are in it.                         *)

\* The receipt that the running event has still to write.
Unwritten == {r \in Receipt : writes = <<Append1("receipts", r)>>}

\* The last line was appended to a torn one: its receipt is lost.
EndsFused(lines) == lines # <<>> /\ Last(lines)[1] = "fused"

LEMMA FrontOf ==
    ASSUME NEW T, NEW s \in Seq(T), s # <<>>
    PROVE  /\ Len(s) \in Nat \ {0}
           /\ Front(s) \in Seq(T) /\ Len(Front(s)) = Len(s) - 1
           /\ \A i \in 1 .. Len(s) - 1 : Front(s)[i] = s[i]
<1>1. Len(s) \in Nat /\ Len(s) # 0
  OBVIOUS
<1> DEFINE m == Len(s) - 1
<1>2. m \in Nat /\ m <= Len(s) /\ Front(s) = SubSeq(s, 1, m)
  BY <1>1 DEF Front
<1>3. /\ SubSeq(s, 1, m) \in Seq(T) /\ Len(SubSeq(s, 1, m)) = m
      /\ \A i \in 1 .. m : SubSeq(s, 1, m)[i] = s[i]
  <2> HIDE DEF m
  <2> QED BY <1>1, <1>2
<1> QED BY <1>1, <1>2, <1>3

\* What appending a receipt does to the file: if the result loads, so did the file before,
\* nothing was lost at its end, and the receipts loaded are the same and perhaps the new one.
LEMMA AppendedReceipt ==
    ASSUME NEW lines, LogOf("receipts", lines), NEW r \in Receipt,
           NEW kind \in {"line", "torn", "bare"},
           LoadMayPass(WithLine(lines, r, kind))
    PROVE  /\ LoadMayPass(lines) /\ ~EndsFused(lines)
           /\ ToSet(Loaded(lines)) \subseteq ToSet(Loaded(WithLine(lines, r, kind)))
           /\ ToSet(Loaded(WithLine(lines, r, kind))) \subseteq ToSet(Loaded(lines)) \cup {r}
           /\ kind = "line" =>
                \/ r \in ToSet(Loaded(WithLine(lines, r, kind)))
                \/ EndsFused(WithLine(lines, r, kind))
<1> DEFINE n == Len(lines)
           all == WithLine(lines, r, kind)
           end == IF lines = <<>> THEN "line" ELSE Last(lines)[1]
           onTorn == IF kind = "line" THEN "fused" ELSE "frayed"
           cut == {"torn", "fused", "frayed"}
<1>1. lines \in Seq(Line) /\ n \in Nat /\ DOMAIN lines = 1 .. n /\ (lines = <<>> <=> n = 0)
  BY DEF LogOf
<1>2. \A i \in 1 .. n : lines[i][1] \in Kinds
  BY <1>1 DEF Line
<1>3. end # "bare"
  <2> SUFFICES ASSUME end = "bare" PROVE FALSE
    OBVIOUS
  <2>1. lines # <<>> /\ all = Front(lines) \o << <<"glued", r>> >>
    BY DEF WithLine
  <2>2. Front(lines) \in Seq(Line) /\ Len(Front(lines)) = n - 1 /\ n \in Nat \ {0}
    BY <1>1, <2>1, FrontOf
  <2>3. <<"glued", r>> \in Line
    BY DEF Line, Kinds
  <2> HIDE DEF all
  <2>4. all[n] = <<"glued", r>> /\ n \in DOMAIN all
    BY <1>1, <2>1, <2>2, <2>3
  <2> QED BY <2>4 DEF LoadMayPass, all
<1>4. CASE end \in {"torn", "frayed"}
  <2>1. lines # <<>> /\ all = Front(lines) \o << <<onTorn, r>> >>
    BY <1>4 DEF WithLine
  <2>2. /\ Front(lines) \in Seq(Line) /\ Len(Front(lines)) = n - 1 /\ n \in Nat \ {0}
        /\ \A i \in 1 .. n - 1 : Front(lines)[i] = lines[i]
    BY <1>1, <2>1, FrontOf
  <2>3. <<onTorn, r>> \in Line
    BY DEF Line, Kinds
  <2> HIDE DEF all, onTorn
  <2>4. /\ all \in Seq(Line) /\ Len(all) = n /\ all[n] = <<onTorn, r>>
        /\ DOMAIN all = 1 .. n
        /\ \A i \in 1 .. n - 1 : all[i] = lines[i]
    <3> DEFINE fr == Front(lines)
               x == <<onTorn, r>>
    <3> HIDE DEF fr, x
    <3>1. fr \in Seq(Line) /\ Len(fr) = n - 1 /\ x \in Line /\ all = fr \o <<x>>
      BY <2>1, <2>2, <2>3 DEF fr, x
    <3> HIDE DEF n
    <3>2. /\ fr \o <<x>> \in Seq(Line) /\ Len(fr \o <<x>>) = n /\ (fr \o <<x>>)[n] = x
          /\ \A i \in 1 .. n - 1 : (fr \o <<x>>)[i] = fr[i]
      BY <2>2, <3>1
    <3>3. DOMAIN all = 1 .. n
      BY <3>1, <3>2
    <3> QED BY <2>2, <3>1, <3>2, <3>3 DEF x, fr
  <2>5. lines[n][1] \in {"torn", "frayed"} /\ n \in 1 .. n
    BY <1>1, <1>4, <2>1 DEF Last
  <2>6. LoadMayPass(lines)
    <3> SUFFICES ASSUME NEW i \in 1 .. n
                 PROVE  lines[i][1] # "glued" /\ (lines[i][1] \in {"fused", "frayed", "torn"} => i = n)
      BY <1>1 DEF LoadMayPass
    <3>1. CASE i = n
      BY <2>5, <3>1
    <3>2. CASE i # n
      <4>1. i \in 1 .. n - 1 /\ i \in DOMAIN all
        <5> HIDE DEF n
        <5> QED BY <2>2, <2>4, <3>2
      <4>2. lines[i] = all[i]
        BY <2>4, <4>1
      <4>3. all[i][1] # "glued" /\ (all[i][1] \in {"fused", "frayed", "torn"} => i = Len(all))
        BY <4>1 DEF LoadMayPass, all
      <4> QED BY <2>4, <3>2, <4>2, <4>3
    <3> QED BY <3>1, <3>2
  <2>7. ~EndsFused(lines)
    BY <2>5 DEF EndsFused, Last
  <2>8. Loaded(lines) = [i \in 1 .. n - 1 |-> lines[i][2]]
    BY <1>1, <2>1, <2>5 DEF Loaded, Last
  <2>9. onTorn \in cut /\ all # <<>> /\ Last(all)[1] = onTorn
    <3>1. onTorn \in cut
      BY DEF onTorn
    <3>2. all # <<>>
      BY <2>2, <2>4
    <3>3. Last(all) = <<onTorn, r>>
      BY <2>4 DEF Last
    <3> QED BY <3>1, <3>2, <3>3
  <2>10. Loaded(all) = [i \in 1 .. n - 1 |-> all[i][2]]
    BY <2>4, <2>9 DEF Loaded
  <2>11. Loaded(all) = Loaded(lines)
    BY <2>4, <2>8, <2>10
  <2>12. kind = "line" => EndsFused(all)
    BY <2>9 DEF EndsFused, onTorn
  <2> QED BY <2>6, <2>7, <2>11, <2>12 DEF all
<1>5. CASE end \notin {"bare", "torn", "frayed"}
  <2>1. all = lines \o << <<kind, r>> >>
    BY <1>5 DEF WithLine
  <2>2. <<kind, r>> \in Line
    BY DEF Line, Kinds
  <2> HIDE DEF all
  <2>3. /\ all \in Seq(Line) /\ Len(all) = n + 1 /\ all[n + 1] = <<kind, r>>
        /\ DOMAIN all = 1 .. n + 1
        /\ \A i \in 1 .. n : all[i] = lines[i]
    BY <1>1, <2>1, <2>2
  <2>4. \A i \in 1 .. n : lines[i][1] \notin {"glued", "fused", "frayed", "torn"}
    <3> TAKE i \in 1 .. n
    <3>1. i \in DOMAIN all /\ i # Len(all)
      BY <1>1, <2>3
    <3>2. all[i][1] # "glued" /\ (all[i][1] \in {"fused", "frayed", "torn"} => i = Len(all))
      BY <3>1 DEF LoadMayPass, all
    <3> QED BY <2>3, <3>1, <3>2
  <2>5. LoadMayPass(lines)
    BY <1>1, <2>4 DEF LoadMayPass
  <2>6. lines # <<>> => Last(lines)[1] \notin cut
    BY <1>1, <2>4 DEF Last
  <2>7. ~EndsFused(lines) /\ Loaded(lines) = [i \in 1 .. n |-> lines[i][2]]
    <3>1. ~EndsFused(lines)
      BY <2>6 DEF EndsFused
    <3>2. Loaded(lines) = [i \in 1 .. Len(lines) - 0 |-> lines[i][2]]
      BY <2>6 DEF Loaded
    <3> QED BY <1>1, <3>1, <3>2
  <2>8. all # <<>> /\ Last(all) = <<kind, r>>
    BY <1>1, <2>3 DEF Last
  <2>9. CASE kind = "torn"
    <3>1. Loaded(all) = [i \in 1 .. n |-> all[i][2]]
      BY <1>1, <2>3, <2>8, <2>9 DEF Loaded
    <3>2. Loaded(all) = Loaded(lines)
      BY <2>3, <2>7, <3>1
    <3> QED BY <2>5, <2>7, <2>9, <3>2 DEF all
  <2>10. CASE kind # "torn"
    <3>1. Loaded(all) = [i \in 1 .. n + 1 |-> all[i][2]]
      BY <1>1, <2>3, <2>8, <2>10 DEF Loaded
    <3>2. DOMAIN Loaded(all) = 1 .. n + 1 /\ DOMAIN Loaded(lines) = 1 .. n
      BY <2>7, <3>1
    <3>3. \A i \in 1 .. n : Loaded(all)[i] = Loaded(lines)[i]
      BY <1>1, <2>3, <2>7, <3>1
    <3>4. Loaded(all)[n + 1] = r
      BY <1>1, <2>3, <3>1
    <3> DEFINE la == Loaded(all)
               lo == Loaded(lines)
    <3> HIDE DEF la, lo
    <3>5. ToSet(la) = {la[i] : i \in 1 .. n + 1} /\ ToSet(lo) = {lo[i] : i \in 1 .. n}
      BY <3>2 DEF ToSet, la, lo
    <3>6. ToSet(la) = ToSet(lo) \cup {r}
      <4>1. \A i \in 1 .. n : la[i] = lo[i]
        BY <3>3 DEF la, lo
      <4>2. la[n + 1] = r /\ 1 .. n + 1 = 1 .. n \cup {n + 1}
        BY <1>1, <3>4 DEF la
      <4> HIDE DEF n
      <4> QED BY <3>5, <4>1, <4>2
    <3> QED BY <2>5, <2>7, <3>6 DEF all, la, lo
  <2> QED BY <2>9, <2>10
<1> QED BY <1>3, <1>4, <1>5
\* No write is to the receipt file.
NoReceipts(ws) == \A i \in DOMAIN ws : ws[i].file # "receipts"

LEMMA NoReceiptsJoin ==
    ASSUME NEW us \in Seq(Write), NEW ws \in Seq(Write), NoReceipts(us), NoReceipts(ws)
    PROVE  NoReceipts(us \o ws)
<1> SUFFICES ASSUME NEW i \in 1 .. Len(us) + Len(ws) PROVE (us \o ws)[i].file # "receipts"
  BY DEF NoReceipts
<1>1. CASE i <= Len(us)
  BY <1>1 DEF NoReceipts
<1>2. CASE i > Len(us)
  <2>1. (us \o ws)[i] = ws[i - Len(us)] /\ i - Len(us) \in DOMAIN ws
    BY <1>2
  <2> QED BY <2>1 DEF NoReceipts
<1> QED BY <1>1, <1>2

LEMMA NoReceiptsWritten ==
    /\ \A v \in Blocks : NoReceipts(<<Append1("blocks", v)>>) /\ NoReceipts(<<Append1("qcs", v)>>)
    /\ \A t \in Blocks : NoReceipts(WriteSnapshot(t))
    /\ \A t \in Blocks : \A C \in SUBSET Blocks : NoReceipts(ChainWrites(t, C))
<1>1. ASSUME NEW f \in {"blocks", "qcs", "snapshot"}, NEW vs \in Seq(Value(f))
      PROVE  NoReceipts(Overwrite(f, vs)) /\ Overwrite(f, vs) \in Seq(Write)
  <2> DEFINE ws == Overwrite(f, vs)
  <2>1. /\ ws \in Seq(Write) /\ Len(ws) = Len(vs) + 1 /\ ws[1] = Create(f) /\ Len(vs) \in Nat
        /\ \A i \in 1 .. Len(vs) : ws[i + 1] = Append1(f, vs[i])
    BY OverwriteType DEF Logs
  <2> HIDE DEF ws
  <2>2. ASSUME NEW i \in 1 .. Len(ws) PROVE ws[i].file = f
    <3>1. CASE i = 1
      BY <2>1, <3>1 DEF Create
    <3>2. CASE i # 1
      <4>1. i - 1 \in 1 .. Len(vs) /\ (i - 1) + 1 = i
        BY <2>1, <3>2
      <4>2. ws[i] = Append1(f, vs[i - 1])
        BY <2>1, <4>1
      <4> QED BY <4>2 DEF Append1
    <3> QED BY <3>1, <3>2
  <2>3. f # "receipts"
    OBVIOUS
  <2> QED BY <2>1, <2>2, <2>3 DEF NoReceipts, ws
<1>2. ASSUME NEW v \in Blocks
      PROVE  NoReceipts(<<Append1("blocks", v)>>) /\ NoReceipts(<<Append1("qcs", v)>>)
  BY DEF NoReceipts, Append1
<1>3. ASSUME NEW t \in Blocks PROVE NoReceipts(WriteSnapshot(t)) /\ WriteSnapshot(t) \in Seq(Write)
  <2>1. <<t>> \in Seq(Value("snapshot"))
    BY ValueTypes
  <2> QED BY <1>1, <2>1 DEF WriteSnapshot
<1>4. ASSUME NEW t \in Blocks, NEW C \in SUBSET Blocks PROVE NoReceipts(ChainWrites(t, C))
  <2> DEFINE ob == Overwrite("blocks", ChainSeq(t))
             oq == Overwrite("qcs", SetToSeq(C))
             sn == WriteSnapshot(t)
  <2>1. ChainSeq(t) \in Seq(Value("blocks")) /\ SetToSeq(C) \in Seq(Value("qcs"))
    BY ChainSeqPlaces, SetToSeqComplete, ValueTypes
  <2>2. NoReceipts(ob) /\ ob \in Seq(Write) /\ NoReceipts(oq) /\ oq \in Seq(Write)
    BY <1>1, <2>1
  <2>3. NoReceipts(sn) /\ sn \in Seq(Write)
    BY <1>3
  <2>4. ChainWrites(t, C) = (sn \o ob) \o oq
    <3> HIDE DEF ob, oq, sn
    <3>1. ChainWrites(t, C) = sn \o ob \o oq
      BY DEF ChainWrites, ob, oq, sn
    <3> QED BY <2>2, <2>3, <3>1
  <2> HIDE DEF ob, oq, sn
  <2>5. sn \o ob \in Seq(Write) /\ NoReceipts(sn \o ob)
    BY <2>2, <2>3, NoReceiptsJoin
  <2> QED BY <2>2, <2>4, <2>5, NoReceiptsJoin
<1> QED BY <1>2, <1>3, <1>4

\* The receipt that is still to be written is the one in memory that may be missing.
LEMMA UnwrittenOne ==
    /\ NoReceipts(writes) => Unwritten = {}
    /\ \A r \in Receipt : writes = <<Append1("receipts", r)>> => Unwritten = {r}
    /\ \A r \in Unwritten : writes = <<Append1("receipts", r)>> /\ r \in Receipt
<1>1. \A r \in Unwritten : writes = <<Append1("receipts", r)>> /\ r \in Receipt
  BY DEF Unwritten
<1>2. ASSUME NEW r \in Unwritten PROVE ~NoReceipts(writes)
  <2>1. 1 \in DOMAIN writes /\ writes[1].file = "receipts"
    BY <1>1, <1>2 DEF Append1
  <2> QED BY <2>1 DEF NoReceipts
<1>3. ASSUME NEW r \in Receipt, NEW q \in Receipt,
             <<Append1("receipts", r)>> = <<Append1("receipts", q)>>
      PROVE  r = q
  <2>1. Append1("receipts", r) = Append1("receipts", q)
    BY <1>3
  <2>2. Append1("receipts", r).value = r /\ Append1("receipts", q).value = q
    BY DEF Append1
  <2> QED BY <2>1, <2>2
<1>4. ASSUME NEW r \in Receipt, writes = <<Append1("receipts", r)>> PROVE Unwritten = {r}
  BY <1>1, <1>3, <1>4 DEF Unwritten
<1> QED BY <1>1, <1>2, <1>4

\* The receipts that may be missing in the file lines when R are in memory and U is still
\* to be written.
FewLost(lines, R, U, runs) ==
    LoadMayPass(lines) =>
        /\ ToSet(Loaded(lines)) \subseteq R
        /\ runs => \/ R \ ToSet(Loaded(lines)) \subseteq U
                   \/ EndsFused(lines) /\ \E x : R \ ToSet(Loaded(lines)) \subseteq U \cup {x}
        /\ \E x, y : R \ ToSet(Loaded(lines)) \subseteq {x, y}

ReceiptsInv ==
    /\ Unwritten = {} => NoReceipts(writes)
    /\ Unwritten \subseteq receipts
    /\ state # "up" => writes = <<>>
    /\ FewLost(disk["receipts"], receipts, Unwritten, state = "up")

LEMMA ReceiptsStart == StorageInit => ReceiptsInv
<1> SUFFICES ASSUME StorageInit PROVE ReceiptsInv
  OBVIOUS
<1>1. state = "up" /\ writes = <<>> /\ receipts = {} /\ disk["receipts"] = <<>>
  BY DEF StorageInit, Logs
<1>2. NoReceipts(writes)
  BY <1>1 DEF NoReceipts
<1>3. ToSet(Loaded(<<>>)) = {}
  <2>1. Loaded(<<>>) = <<>>
    BY DEF Loaded
  <2> QED BY <2>1 DEF ToSet
<1>4. Unwritten = {}
  BY <1>2, UnwrittenOne
<1> QED BY <1>1, <1>2, <1>3, <1>4 DEF ReceiptsInv, FewLost

\* A receipt goes to the file whole, or broken off by a kill.
LEMMA ReceiptWritten ==
    ASSUME NEW lines, LogOf("receipts", lines), NEW r \in Receipt, NEW R, r \in R,
           NEW kind \in {"line", "torn", "bare"},
           FewLost(lines, R, {r}, TRUE)
    PROVE  FewLost(WithLine(lines, r, kind), R, {}, kind = "line")
<1> SUFFICES ASSUME LoadMayPass(WithLine(lines, r, kind))
             PROVE  FewLost(WithLine(lines, r, kind), R, {}, kind = "line")
  BY DEF FewLost
<1> DEFINE old == ToSet(Loaded(lines))
           new == ToSet(Loaded(WithLine(lines, r, kind)))
<1>1. /\ LoadMayPass(lines) /\ ~EndsFused(lines)
      /\ old \subseteq new /\ new \subseteq old \cup {r}
      /\ kind = "line" => r \in new \/ EndsFused(WithLine(lines, r, kind))
  BY AppendedReceipt
<1>2. old \subseteq R /\ R \ old \subseteq {r}
  BY <1>1 DEF FewLost
<1> HIDE DEF old, new
<1>3. new \subseteq R /\ R \ new \subseteq {r}
  BY <1>1, <1>2
<1>4. r \in new => R \ new \subseteq {}
  BY <1>3
<1>5. \E x, y : R \ new \subseteq {x, y}
  BY <1>3
<1>6. \E x : R \ new \subseteq {} \cup {x}
  BY <1>3
<1> QED BY <1>1, <1>3, <1>4, <1>5, <1>6 DEF FewLost, new

\* A step that writes nothing to the receipt file, and leaves memory's receipts alone.
LEMMA ReceiptsAlone ==
    ASSUME ReceiptsInv, disk'["receipts"] = disk["receipts"], receipts' = receipts,
           Unwritten = {} \/ state' # "up", NoReceipts(writes'),
           state' # "up" => writes' = <<>>, state' = "up" => state = "up"
    PROVE  ReceiptsInv'
<1>1. Unwritten' = {} /\ NoReceipts(writes)'
  <2>1. NoReceipts(writes')
    OBVIOUS
  <2>2. ASSUME NEW r \in Receipt, writes' = <<Append1("receipts", r)>> PROVE FALSE
    <3>1. 1 \in DOMAIN writes' /\ writes'[1].file = "receipts"
      BY <2>2 DEF Append1
    <3> QED BY <2>1, <3>1 DEF NoReceipts
  <2> QED BY <2>1, <2>2 DEF Unwritten, NoReceipts
<1> DEFINE new == ToSet(Loaded(disk["receipts"]))
<1>2. FewLost(disk["receipts"], receipts, {}, state' = "up")
  <2> SUFFICES ASSUME LoadMayPass(disk["receipts"])
               PROVE  FewLost(disk["receipts"], receipts, {}, state' = "up")
    BY DEF FewLost
  <2>1. /\ new \subseteq receipts /\ \E x, y : receipts \ new \subseteq {x, y}
        /\ state = "up" => \/ receipts \ new \subseteq Unwritten
                           \/ /\ EndsFused(disk["receipts"])
                              /\ \E x : receipts \ new \subseteq Unwritten \cup {x}
    BY DEF ReceiptsInv, FewLost
  <2> HIDE DEF new
  <2>2. state' = "up" => state = "up" /\ Unwritten = {}
    OBVIOUS
  <2> QED BY <2>1, <2>2 DEF FewLost, new
<1>3. FewLost(disk["receipts"], receipts, Unwritten, state = "up")'
  BY <1>1, <1>2 DEF FewLost
<1> QED BY <1>1, <1>3 DEF ReceiptsInv

LEMMA ReceiptsStep ==
    StorageTypeOK /\ ReceiptsInv /\ [StorageNext]_stored => ReceiptsInv'
<1> SUFFICES ASSUME StorageTypeOK, ReceiptsInv, [StorageNext]_stored PROVE ReceiptsInv'
  OBVIOUS
<1>0. /\ Logs = {"blocks", "qcs", "receipts"} /\ disk \in [Logs -> Seq(Line)]
      /\ writes \in Seq(Write) /\ qcs \in SUBSET Blocks
      /\ LogOf("receipts", disk["receipts"])
  BY DEF Logs, StorageTypeOK, LogOf
<1>e. NoReceipts(<<>>)
  BY DEF NoReceipts
<1>r. writes = <<>> => Unwritten = {}
  BY <1>e, UnwrittenOne
<1>a. ASSUME writes # <<>>, Head(writes).file = "receipts", state = "up"
      PROVE  \E r \in Receipt : /\ writes = <<Append1("receipts", r)>> /\ Unwritten = {r} /\ r \in receipts
                                /\ FewLost(disk["receipts"], receipts, {r}, TRUE)
  <2>1. 1 \in DOMAIN writes /\ writes[1].file = "receipts"
    BY <1>0, <1>a
  <2>2. ~NoReceipts(writes)
    BY <2>1 DEF NoReceipts
  <2>3. PICK r \in Unwritten : TRUE
    BY <2>2 DEF ReceiptsInv
  <2>4. r \in Receipt /\ writes = <<Append1("receipts", r)>> /\ Unwritten = {r}
    BY <2>3, UnwrittenOne
  <2>5. FewLost(disk["receipts"], receipts, Unwritten, TRUE)
    BY <1>a DEF ReceiptsInv
  <2> QED BY <2>4, <2>5 DEF ReceiptsInv
<1>1. CASE DoWrite
  <2> DEFINE w == Head(writes)
  <2>1. writes # <<>> /\ w \in Write /\ state = "up" /\ state' = "up" /\ receipts' = receipts /\ writes' = Tail(writes)
    BY <1>0, <1>1 DEF DoWrite, memory
  <2>2. CASE w.file = "receipts"
    <3>1. PICK r \in Receipt : /\ writes = <<Append1("receipts", r)>> /\ r \in receipts
                               /\ FewLost(disk["receipts"], receipts, {r}, TRUE)
      BY <1>a, <2>1, <2>2
    <3>2. w = Append1("receipts", r) /\ writes' = <<>>
      BY <2>1, <3>1
    <3>3. disk'["receipts"] = WithLine(disk["receipts"], r, "line")
      BY <1>0, <1>1, <3>2 DEF DoWrite, Append1
    <3>4. FewLost(disk'["receipts"], receipts, {}, TRUE)
      <4>1. FewLost(WithLine(disk["receipts"], r, "line"), receipts, {}, "line" = "line")
        BY <1>0, <3>1, ReceiptWritten
      <4> QED BY <3>3, <4>1
    <3>5. Unwritten' = {} /\ NoReceipts(writes)'
      BY <3>2 DEF Unwritten, NoReceipts
    <3>6. FewLost(disk["receipts"], receipts, Unwritten, state = "up")'
      BY <2>1, <3>4, <3>5 DEF FewLost
    <3> QED BY <2>1, <3>2, <3>5, <3>6 DEF ReceiptsInv
  <2>3. CASE w.file # "receipts"
    <3>1. Unwritten = {}
      <4> SUFFICES ASSUME NEW r \in Unwritten PROVE FALSE
        OBVIOUS
      <4>1. writes = <<Append1("receipts", r)>>
        BY UnwrittenOne
      <4> QED BY <2>3, <4>1 DEF Append1
    <3>2. NoReceipts(writes)
      BY <3>1 DEF ReceiptsInv
    <3>3. NoReceipts(writes')
      BY <1>0, <2>1, <3>2 DEF NoReceipts
    <3>4. w.file \in Logs \cup {"snapshot"}
      BY <2>1, WriteTypes
    <3>5. disk'["receipts"] = disk["receipts"]
      BY <1>0, <1>1, <2>3, <3>4 DEF DoWrite
    <3> HIDE DEF w
    <3> QED BY <2>1, <3>1, <3>3, <3>5, ReceiptsAlone
  <2> QED BY <2>2, <2>3
<1>2. ASSUME NEW b \in Blocks, AcceptBlock(b) \/ Certify(b) \/ CertifyAndAdopt(b) \/ ReplaceChain(b)
      PROVE  ReceiptsInv'
  <2>1. /\ state = "up" /\ state' = "up" /\ writes = <<>>
        /\ receipts' = receipts /\ disk' = disk
    BY <1>2 DEF AcceptBlock, Certify, CertifyAndAdopt, ReplaceChain, Ready, files
  <2>2. /\ <<Append1("blocks", b)>> \in Seq(Write) /\ <<Append1("qcs", b)>> \in Seq(Write)
        /\ WriteSnapshot(b) \in Seq(Write) /\ ChainWrites(b, qcs \cup {b}) \in Seq(Write)
    <3>1. Append1("blocks", b) \in Write /\ Append1("qcs", b) \in Write
      BY <1>0, WriteTypes, ValueTypes
    <3>2. WriteSnapshot(b) \in Seq(Write) /\ ChainWrites(b, qcs \cup {b}) \in Seq(Write)
      BY <1>0, ChainWritesType
    <3> QED BY <3>1, <3>2
  <2>3. NoReceipts(writes')
    <3>1. CASE AcceptBlock(b)
      BY <2>2, <3>1, NoReceiptsWritten, NoReceiptsJoin DEF AcceptBlock
    <3>2. CASE Certify(b)
      BY <3>2, NoReceiptsWritten DEF Certify
    <3>3. CASE CertifyAndAdopt(b)
      <4>1. NoReceipts(ChainWrites(b, qcs \cup {b})) /\ NoReceipts(<<Append1("qcs", b)>>)
        BY <1>0, NoReceiptsWritten
      <4> QED BY <2>2, <3>3, <4>1, NoReceiptsJoin DEF CertifyAndAdopt
    <3>4. CASE ReplaceChain(b)
      <4>1. PICK C \in {qcs, qcs \cap Chain[b]} : writes' = ChainWrites(b, C)
        BY <3>4 DEF ReplaceChain
      <4>2. C \in SUBSET Blocks
        BY <1>0
      <4> QED BY <4>1, <4>2, NoReceiptsWritten
    <3> QED BY <1>2, <3>1, <3>2, <3>3, <3>4
  <2> QED BY <1>r, <2>1, <2>3, ReceiptsAlone
<1>3. ASSUME NEW r \in Receipt, StoreReceipt(r) PROVE ReceiptsInv'
  <2>1. /\ state = "up" /\ state' = "up" /\ writes = <<>> /\ writes' = <<Append1("receipts", r)>>
        /\ receipts' = receipts \cup {r} /\ disk' = disk
    BY <1>3 DEF StoreReceipt, Ready, files
  <2>2. Unwritten = {} /\ Unwritten' = {r}
    <3>1. ASSUME NEW q \in Receipt, <<Append1("receipts", r)>> = <<Append1("receipts", q)>> PROVE r = q
      <4>1. Append1("receipts", r) = Append1("receipts", q)
        BY <3>1
      <4>2. Append1("receipts", r).value = r /\ Append1("receipts", q).value = q
        BY DEF Append1
      <4> QED BY <4>1, <4>2
    <3>2. Unwritten' = {r}
      BY <2>1, <3>1 DEF Unwritten
    <3> QED BY <1>r, <2>1, <3>2
  <2> DEFINE lines == disk["receipts"]
             old == ToSet(Loaded(lines))
  <2>3. FewLost(lines, receipts, {}, TRUE)
    BY <2>1, <2>2 DEF ReceiptsInv
  <2>4. FewLost(lines, receipts \cup {r}, {r}, TRUE)
    <3> SUFFICES ASSUME LoadMayPass(lines) PROVE FewLost(lines, receipts \cup {r}, {r}, TRUE)
      BY DEF FewLost
    <3>1. /\ old \subseteq receipts
          /\ \/ receipts \ old \subseteq {}
             \/ EndsFused(lines) /\ \E x : receipts \ old \subseteq {} \cup {x}
      BY <2>3 DEF FewLost
    <3> HIDE DEF old
    <3>2. CASE receipts \ old \subseteq {}
      <4>1. (receipts \cup {r}) \ old \subseteq {r}
        BY <3>2
      <4>2. \E x, y : (receipts \cup {r}) \ old \subseteq {x, y}
        BY <4>1
      <4> QED BY <3>1, <4>1, <4>2 DEF FewLost, old
    <3>3. CASE EndsFused(lines) /\ \E x : receipts \ old \subseteq {} \cup {x}
      <4>1. PICK x : receipts \ old \subseteq {x}
        BY <3>3
      <4>2. (receipts \cup {r}) \ old \subseteq {r} \cup {x}
        BY <4>1
      <4>3. \E y, z : (receipts \cup {r}) \ old \subseteq {y, z}
        BY <4>2
      <4> QED BY <3>1, <3>3, <4>2, <4>3 DEF FewLost, old
    <3> QED BY <3>1, <3>2, <3>3
  <2>5. FewLost(disk["receipts"], receipts, Unwritten, state = "up")'
    BY <2>1, <2>2, <2>4 DEF FewLost
  <2> QED BY <2>1, <2>2, <2>5 DEF ReceiptsInv
<1>4. CASE Shutdown
  <2>1. /\ state' = "down" /\ writes' = <<>> /\ receipts' = receipts /\ disk' = disk
    BY <1>4 DEF Shutdown, Ready, memory
  <2> QED BY <1>e, <2>1, ReceiptsAlone
<1>5. CASE Kill
  <2> DEFINE w == Head(writes)
  <2>1. state = "up" /\ state' = "down" /\ writes' = <<>> /\ receipts' = receipts
    BY <1>5 DEF Kill, memory
  <2>2. CASE disk'["receipts"] = disk["receipts"]
    BY <1>e, <2>1, <2>2, ReceiptsAlone
  <2>3. CASE disk'["receipts"] # disk["receipts"]
    <3>1. PICK kind \in {"torn", "bare"} :
              /\ writes # <<>> /\ w.file \in Logs
              /\ disk' = [disk EXCEPT ![w.file] = WithLine(disk[w.file], w.value, kind)]
      BY <1>5, <2>3 DEF Kill
    <3>2. w.file = "receipts"
      BY <1>0, <2>3, <3>1
    <3>3. PICK r \in Receipt : /\ writes = <<Append1("receipts", r)>> /\ r \in receipts
                               /\ FewLost(disk["receipts"], receipts, {r}, TRUE)
      BY <1>a, <2>1, <3>1, <3>2
    <3>4. w.value = r
      BY <3>3 DEF Append1
    <3>5. disk'["receipts"] = WithLine(disk["receipts"], r, kind)
      BY <1>0, <3>1, <3>2, <3>4
    <3>6. FewLost(WithLine(disk["receipts"], r, kind), receipts, {}, kind = "line")
      BY <1>0, <3>3, ReceiptWritten
    <3>7. FewLost(disk'["receipts"], receipts, {}, FALSE)
      BY <3>5, <3>6 DEF FewLost
    <3>8. Unwritten' = {} /\ NoReceipts(writes)'
      BY <2>1 DEF Unwritten, NoReceipts
    <3>9. FewLost(disk["receipts"], receipts, Unwritten, state = "up")'
      BY <2>1, <3>7, <3>8 DEF FewLost
    <3> QED BY <2>1, <3>8, <3>9 DEF ReceiptsInv
  <2> QED BY <2>2, <2>3
<1>6. CASE StartNode
  <2>1. /\ state' = "up" /\ writes = <<>> /\ writes' = <<>> /\ disk' = disk
        /\ receipts' = ToSet(Loaded(disk["receipts"]))
    BY <1>6 DEF StartNode, files, ReceiptsInv
  <2>2. Unwritten' = {} /\ NoReceipts(writes)'
    BY <2>1 DEF Unwritten, NoReceipts
  <2>3. FewLost(disk["receipts"], ToSet(Loaded(disk["receipts"])), {}, TRUE)
    BY DEF FewLost
  <2>4. FewLost(disk["receipts"], receipts, Unwritten, state = "up")'
    BY <2>1, <2>2, <2>3 DEF FewLost
  <2> QED BY <2>1, <2>2, <2>4 DEF ReceiptsInv
<1>7. CASE StartFails
  <2>1. /\ state' = "dead" /\ writes = <<>> /\ writes' = <<>> /\ receipts' = receipts /\ disk' = disk
    BY <1>7 DEF StartFails, files, memory, ReceiptsInv
  <2> QED BY <1>e, <2>1, ReceiptsAlone
<1>8. CASE UNCHANGED stored
  <2>1. UNCHANGED <<state, writes, receipts, disk>>
    BY <1>8 DEF stored, memory, files
  <2> QED BY <2>1 DEF ReceiptsInv, FewLost, Unwritten, NoReceipts
<1> QED BY <1>1, <1>2, <1>3, <1>4, <1>5, <1>6, <1>7, <1>8 DEF StorageNext

\* A restart loses no certificate of the chain unless the process was killed, and even then
\* invents no receipt and loses two at most: for every number of receipts and kills.
THEOREM RestartsAlwaysKeepState == StorageSpec => RestartsKeepState
<1> DEFINE Good == Restarts =>
                      /\ ~killed => qcs \cap ToSet(blocks) \subseteq qcs'
                      /\ receipts' \subseteq receipts
                      /\ Cardinality(receipts \ receipts') <= 2
<1>1. StorageTypeOK /\ OrderlyInv /\ ReceiptsInv /\ [StorageNext]_stored => [Good]_stored
  <2> SUFFICES ASSUME StorageTypeOK, OrderlyInv, ReceiptsInv, StorageNext, Restarts
               PROVE  /\ ~killed => qcs \cap ToSet(blocks) \subseteq qcs'
                      /\ receipts' \subseteq receipts
                      /\ Cardinality(receipts \ receipts') <= 2
    OBVIOUS
  <2>1. StartNode
    BY DEF StorageNext, Restarts, DoWrite, AcceptBlock, Certify, CertifyAndAdopt, ReplaceChain,
           StoreReceipt, Shutdown, Kill, StartFails, Ready
  <2>2. state = "down" /\ writes = <<>> /\ LoadMayPass(disk["receipts"])
    BY <2>1 DEF StartNode, Logs, ReceiptsInv
  <2> DEFINE new == ToSet(Loaded(disk["receipts"]))
  <2>3. receipts' = new /\ new \subseteq receipts /\ \E x, y : receipts \ new \subseteq {x, y}
    BY <2>1, <2>2 DEF StartNode, ReceiptsInv, FewLost
  <2> HIDE DEF new
  <2>4. PICK x, y : receipts \ new \subseteq {x, y}
    BY <2>3
  <2>5. IsFiniteSet({x, y}) /\ Cardinality({x, y}) <= 2
    <3>1. IsFiniteSet({x}) /\ Cardinality({x}) = 1
      BY FS_Singleton
    <3>2. {x, y} = {x} \cup {y}
      OBVIOUS
    <3>3. IsFiniteSet({x} \cup {y}) /\ Cardinality({x} \cup {y}) <= 2
      <4>1. CASE y \in {x}
        <5>1. {x} \cup {y} = {x}
          BY <4>1
        <5> QED BY <3>1, <5>1
      <4>2. CASE y \notin {x}
        BY <3>1, <4>2, FS_AddElement
      <4> QED BY <4>1, <4>2
    <3> QED BY <3>2, <3>3
  <2>6. Cardinality(receipts \ new) <= 2
    <3>1. IsFiniteSet(receipts \ new) /\ Cardinality(receipts \ new) <= Cardinality({x, y})
      BY <2>4, <2>5, FS_Subset
    <3>2. Cardinality(receipts \ new) \in Nat /\ Cardinality({x, y}) \in Nat
      BY <2>5, <3>1, FS_CardinalityType
    <3> QED BY <2>5, <3>1, <3>2
  <2>7. ASSUME ~killed PROVE qcs \cap ToSet(blocks) \subseteq qcs'
    <3>1. Mirrors(<<disk, snapshot>>, blocks, tip, qcs, receipts)
      BY <2>2, <2>7, MirrorsNow
    <3>2. PICK c \in Seq(Blocks) : disk["qcs"] = Whole(c) /\ qcs \subseteq ToSet(c)
      BY <3>1 DEF Mirrors
    <3>3. Loaded(disk["qcs"]) = c /\ Loaded(disk["blocks"]) = blocks
      BY <3>1, <3>2, LoadedWhole DEF Mirrors, StorageTypeOK
    <3>4. qcs' = ToSet(c) \cap ToSet(blocks)
      BY <2>1, <3>3 DEF StartNode, RestoredQcs
    <3> QED BY <3>2, <3>4
  <2> QED BY <2>3, <2>6, <2>7
<1>2. RestartsKeepState <=> [][Good]_stored
  BY PTL DEF RestartsKeepState
<1> QED BY <1>1, <1>2, StorageTypeCorrect, OrderlyStart, OrderlyStep, ReceiptsStart, ReceiptsStep, PTL DEF StorageSpec
=============================================================================
