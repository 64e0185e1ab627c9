--------------------------- MODULE EvidenceProofs ---------------------------
(***************************************************************************)
(* For every schedule, window and set of subjects: evidence is never taken *)
(* back, nodes settle on the same aggregates, the score a subject reports  *)
(* is the one its gate goes by, and a subject that serves in time is never *)
(* refused.  A committee keeps its quorum when one member is silent.       *)
(***************************************************************************)
EXTENDS ServiceEvidence, FiniteSetTheorems, SequenceTheorems, WellFoundedInduction, TLAPS

-----------------------------------------------------------------------------
(* Induction over numbers, stated for sets instead of predicates.           *)

\* A non-empty set of natural numbers has a least element.
LEMMA LeastNumber ==
    ASSUME NEW T \in SUBSET Nat, T # {}
    PROVE  \E m \in T : \A k \in T : m <= k
<1> DEFINE R == {p \in Nat \X Nat : p[1] < p[2]}
<1>1. IsWellFoundedOn(R, Nat)
  BY NatLessThanWellFounded DEF OpToRel
<1> HIDE DEF R
<1>2. PICK m \in T : \A k \in T : ~(<<k, m>> \in R)
  BY <1>1, WFMin
<1>3. \A k \in T : ~(k < m)
  BY <1>2 DEF R
<1> QED BY <1>3

\* A set that holds zero and the successor of each of its numbers holds them all.
LEMMA NumbersReached ==
    ASSUME NEW S \in SUBSET Nat, 0 \in S, \A n \in S : n + 1 \in S
    PROVE  S = Nat
<1> SUFFICES ASSUME S # Nat PROVE FALSE
  OBVIOUS
<1>1. PICK m \in Nat \ S : \A k \in Nat \ S : m <= k
  BY LeastNumber
<1>2. m - 1 \in Nat /\ m - 1 \notin Nat \ S
  BY <1>1
<1> QED BY <1>1, <1>2

Counters == [CounterFields -> Nat]
Attested == UNION {[M -> Counters] : M \in SUBSET Validators}
Events == Subjects \X Slots \X Classes

-----------------------------------------------------------------------------
(* Attestations.                                                            *)

LEMMA AttestedShape ==
    ASSUME NEW a
    PROVE  a \in Attested <=> DOMAIN a \in SUBSET Validators /\ a \in [DOMAIN a -> Counters]
BY DEF Attested

LEMMA DominatesOrder ==
    ASSUME NEW c \in Counters, NEW d \in Counters, NEW e \in Counters
    PROVE  Dominates(c, c) /\ (Dominates(c, d) /\ Dominates(d, e) => Dominates(c, e))
<1>1. \A f \in CounterFields : c[f] \in Nat /\ d[f] \in Nat /\ e[f] \in Nat
  BY DEF Counters
<1> QED BY <1>1 DEF Dominates

LEMMA ExtendsOrder ==
    ASSUME NEW a \in Attested, NEW b \in Attested, NEW c \in Attested
    PROVE  Extends(a, a) /\ (Extends(a, b) /\ Extends(b, c) => Extends(a, c))
<1>1. /\ \A m \in DOMAIN a : a[m] \in Counters
      /\ \A m \in DOMAIN b : b[m] \in Counters
      /\ \A m \in DOMAIN c : c[m] \in Counters
  BY AttestedShape
<1> QED BY <1>1, DominatesOrder DEF Extends

LEMMA NoneAttested == None \in Attested /\ DOMAIN None = {}
<1>1. None \in [{} -> Counters] /\ DOMAIN None = {}
  BY DEF None
<1> QED BY <1>1, AttestedShape

\* What insert_service_attestation leaves extends what it found.
LEMMA InsertExtends ==
    ASSUME NEW a \in Attested, NEW member \in Validators, NEW counters \in Counters
    PROVE  /\ Insert(a, member, counters) \in Attested
           /\ DOMAIN Insert(a, member, counters) = DOMAIN a \cup {member}
           /\ Extends(a, Insert(a, member, counters))
<1> DEFINE put == Put(a, member, counters)
<1>1. DOMAIN a \in SUBSET Validators /\ \A m \in DOMAIN a : a[m] \in Counters
  BY AttestedShape
<1>2. DOMAIN put = DOMAIN a \cup {member} /\ put \in [DOMAIN a \cup {member} -> Counters]
      /\ put[member] = counters /\ \A m \in DOMAIN a \ {member} : put[m] = a[m]
  BY <1>1 DEF Put
<1>3. put \in Attested
  BY <1>1, <1>2, AttestedShape
<1>4. CASE /\ member \in DOMAIN a
           /\ Dominates(a[member], counters) \/ ~Dominates(counters, a[member])
  <2>1. Insert(a, member, counters) = a
    BY <1>4 DEF Insert
  <2> QED BY <1>4, <2>1, ExtendsOrder
<1>5. CASE ~(/\ member \in DOMAIN a
             /\ Dominates(a[member], counters) \/ ~Dominates(counters, a[member]))
  <2>1. Insert(a, member, counters) = put
    BY <1>5 DEF Insert
  <2> HIDE DEF put
  <2>2. Extends(a, put)
    <3> SUFFICES ASSUME NEW m \in DOMAIN a PROVE m \in DOMAIN put /\ Dominates(put[m], a[m])
      BY DEF Extends
    <3>1. CASE m = member
      BY <1>2, <1>5, <3>1
    <3>2. CASE m # member
      BY <1>1, <1>2, <3>2, DominatesOrder
    <3> QED BY <3>1, <3>2
  <2> QED BY <1>2, <1>3, <2>1, <2>2
<1> QED BY <1>4, <1>5

\* ... and so does merge_service_aggregate.
LEMMA InsertAllExtends ==
    ASSUME NEW a \in Attested, NEW more \in Attested
    PROVE  /\ InsertAll(a, more) \in Attested
           /\ DOMAIN InsertAll(a, more) = DOMAIN a \cup DOMAIN more
           /\ Extends(a, InsertAll(a, more))
<1> DEFINE all == InsertAll(a, more)
           In(m) == Insert(a, m, more[m])
<1>1. /\ DOMAIN a \in SUBSET Validators /\ DOMAIN more \in SUBSET Validators
      /\ \A m \in DOMAIN a : a[m] \in Counters
      /\ \A m \in DOMAIN more : more[m] \in Counters
  BY AttestedShape
<1>2. DOMAIN all = DOMAIN a \cup DOMAIN more
  BY DEF InsertAll
<1>3. ASSUME NEW m \in DOMAIN more
      PROVE  /\ m \in DOMAIN In(m) /\ In(m)[m] \in Counters /\ all[m] = In(m)[m]
             /\ m \in DOMAIN a => Dominates(In(m)[m], a[m])
  <2>1. In(m) \in Attested /\ DOMAIN In(m) = DOMAIN a \cup {m} /\ Extends(a, In(m))
    BY <1>1, InsertExtends
  <2>2. all[m] = In(m)[m]
    BY DEF InsertAll
  <2> HIDE DEF In, all
  <2>3. In(m)[m] \in Counters
    BY <2>1, AttestedShape
  <2> QED BY <2>1, <2>2, <2>3 DEF Extends
<1>4. \A m \in DOMAIN a \ DOMAIN more : all[m] = a[m]
  BY DEF InsertAll
<1>5. all = [m \in DOMAIN all |-> all[m]]
  BY DEF InsertAll
<1> HIDE DEF all, In
<1>6. \A m \in DOMAIN all : all[m] \in Counters
  BY <1>1, <1>2, <1>3, <1>4
<1>7. all \in Attested
  BY <1>1, <1>2, <1>5, <1>6, AttestedShape
<1>8. Extends(a, all)
  BY <1>1, <1>2, <1>3, <1>4, DominatesOrder DEF Extends
<1> QED BY <1>2, <1>7, <1>8 DEF all

-----------------------------------------------------------------------------
(* Committees and observations.                                             *)

Lower(Q, v) == {u \in Q : u < v}

\* Each place up to the number of its elements is taken by one element of a finite set.
LEMMA PlacesTaken ==
    ASSUME NEW n \in Nat, NEW A \in SUBSET Nat, IsFiniteSet(A), Cardinality(A) = n, NEW k \in 0 .. n - 1
    PROVE  \E v \in A : Cardinality(Lower(A, v)) = k
<1> DEFINE N == {c \in Nat : \A Q \in SUBSET Nat : IsFiniteSet(Q) /\ Cardinality(Q) = c =>
                    \A i \in 0 .. c - 1 : \E v \in Q : Cardinality(Lower(Q, v)) = i}
<1>1. 0 \in N
  OBVIOUS
<1>2. ASSUME NEW c \in N PROVE c + 1 \in N
  <2> SUFFICES ASSUME NEW Q \in SUBSET Nat, IsFiniteSet(Q), Cardinality(Q) = c + 1, NEW i \in 0 .. c
               PROVE  \E v \in Q : Cardinality(Lower(Q, v)) = i
    BY SMT
  <2>1. c \in Nat /\ Q # {}
    BY FS_EmptySet
  <2>2. PICK x \in Q : \A u \in Q : x <= u
    BY <2>1, LeastNumber
  <2> DEFINE R == Q \ {x}
  <2>3. R \in SUBSET Nat /\ IsFiniteSet(R) /\ Cardinality(R) = c
    <3>1. IsFiniteSet(R) /\ Cardinality(R) = (c + 1) - 1
      BY FS_RemoveElement
    <3> QED BY <2>1, <3>1
  <2>0. \A u \in Q : u \in Nat /\ (u < x <=> FALSE) /\ (u # x => x < u)
    BY <2>2
  <2>4. CASE i = 0
    <3>1. Lower(Q, x) = {}
      BY <2>0 DEF Lower
    <3> QED BY <2>4, <3>1, FS_EmptySet
  <2>5. CASE i # 0
    <3>1. i - 1 \in 0 .. c - 1
      BY <2>1, <2>5
    <3> HIDE DEF R
    <3>2. PICK v \in R : Cardinality(Lower(R, v)) = i - 1
      BY <2>3, <3>1
    <3> USE DEF R
    <3>3. Lower(Q, v) = Lower(R, v) \cup {x} /\ x \notin Lower(R, v) /\ v \in Q
      BY <2>0, <3>2 DEF Lower
    <3>4. IsFiniteSet(Lower(R, v))
      BY <2>3, FS_Subset DEF Lower
    <3> HIDE DEF R
    <3>5. Cardinality(Lower(R, v) \cup {x}) = Cardinality(Lower(R, v)) + 1
      BY <3>3, <3>4, FS_AddElement
    <3>6. Cardinality(Lower(Q, v)) = i
      BY <2>1, <3>2, <3>3, <3>5
    <3> QED BY <3>3, <3>6
  <2> QED BY <2>4, <2>5
<1> HIDE DEF N
<1>3. N = Nat
  BY <1>1, <1>2, NumbersReached DEF N
<1> QED BY <1>3 DEF N

LEMMA PlacesDiffer ==
    ASSUME NEW Q \in SUBSET Nat, IsFiniteSet(Q), NEW v \in Q, NEW w \in Q,
           Cardinality(Lower(Q, v)) = Cardinality(Lower(Q, w))
    PROVE  v = w
<1>1. ASSUME NEW x \in Q, NEW y \in Q, x < y,
             Cardinality(Lower(Q, x)) = Cardinality(Lower(Q, y))
      PROVE  FALSE
  <2>1. Lower(Q, x) \subseteq Lower(Q, y) /\ x \in Lower(Q, y) /\ x \notin Lower(Q, x)
    <3>1. \A u \in Q : u \in Nat /\ (u < x => u < y) /\ ~(u < u)
      BY <1>1
    <3> QED BY <1>1, <3>1 DEF Lower
  <2>2. IsFiniteSet(Lower(Q, y))
    BY FS_Subset DEF Lower
  <2>3. Lower(Q, y) = Lower(Q, x)
    BY <1>1, <2>1, <2>2, FS_Subset
  <2> QED BY <2>1, <2>3
<1>2. v < w \/ w < v \/ v = w
  OBVIOUS
<1> QED BY <1>1, <1>2

LEMMA PlaceBounds ==
    ASSUME NEW Q \in SUBSET Nat, IsFiniteSet(Q), NEW v \in Q
    PROVE  Cardinality(Q) \in Nat \ {0} /\ Cardinality(Lower(Q, v)) \in 0 .. Cardinality(Q) - 1
<1>1. /\ IsFiniteSet(Q \ {v}) /\ Cardinality(Q \ {v}) = Cardinality(Q) - 1
      /\ Cardinality(Q) \in Nat /\ Cardinality(Q \ {v}) \in Nat
  BY FS_RemoveElement, FS_CardinalityType
<1>2. Lower(Q, v) \in SUBSET (Q \ {v})
  BY DEF Lower
<1>3. Cardinality(Lower(Q, v)) \in Nat /\ Cardinality(Lower(Q, v)) <= Cardinality(Q \ {v})
  BY <1>1, <1>2, FS_Subset, FS_CardinalityType
<1> QED BY <1>1, <1>3

LEMMA Wraps ==
    ASSUME NEW c \in Nat \ {0}, NEW x \in 0 .. c - 1
    PROVE  x % c = x /\ (x + c) % c = x
OBVIOUS

\* The rotated order of an epoch lists validators, and each of them.
LEMMA OrderLists ==
    ASSUME NEW epoch \in DOMAIN Rotation, NEW subject \in Validators
    PROVE  LET order == Rotated(epoch)
               count == Cardinality(Validators)
           IN  /\ count \in Nat \ {0}
               /\ order \in [1 .. count -> Validators]
               /\ \E i \in 1 .. count : order[i] = subject
<1> DEFINE order == Rotated(epoch)
           count == Cardinality(Validators)
           turn == Rotation[epoch]
           Place(v) == Cardinality(Lower(Validators, v))
<1>1. /\ Validators \in SUBSET Nat /\ IsFiniteSet(Validators)
      /\ turn \in 0 .. count - 1
  BY ServiceEvidenceAssumption DEF ScheduleAssumption
<1>2. count \in Nat \ {0} /\ Place(subject) \in 0 .. count - 1
  BY <1>1, PlaceBounds
<1>3. order = [i \in 1 .. count |-> CHOOSE v \in Validators : Place(v) = (i - 1 + turn) % count]
  BY DEF Rotated, Lower
<1> HIDE DEF order, count, Place, turn
<1>4. ASSUME NEW i \in 1 .. count
      PROVE  order[i] \in Validators /\ Place(order[i]) = (i - 1 + turn) % count
  <2>1. (i - 1 + turn) % count \in 0 .. count - 1
    BY <1>1, <1>2
  <2>2. \E v \in Validators : Place(v) = (i - 1 + turn) % count
    BY <1>1, <1>2, <2>1, PlacesTaken DEF Place, count
  <2> QED BY <1>3, <2>2
<1>5. order \in [1 .. count -> Validators]
  BY <1>3, <1>4
<1>6. \E i \in 1 .. count : order[i] = subject
  <2> DEFINE place == Place(subject)
  <2>1. \E i \in 1 .. count : (i - 1 + turn) % count = place
    <3>1. CASE place >= turn
      <4> DEFINE i == (place - turn) + 1
      <4>1. i \in 1 .. count /\ i - 1 + turn = place
        BY <1>1, <1>2, <3>1
      <4> QED BY <1>2, <4>1, Wraps
    <3>2. CASE place < turn
      <4> DEFINE i == ((place + count) - turn) + 1
      <4>1. i \in 1 .. count /\ i - 1 + turn = place + count
        BY <1>1, <1>2, <3>2
      <4> QED BY <1>2, <4>1, Wraps
    <3> QED BY <1>1, <1>2, <3>1, <3>2
  <2>2. PICK i \in 1 .. count : (i - 1 + turn) % count = place
    BY <2>1
  <2>3. order[i] \in Validators /\ Cardinality(Lower(Validators, order[i]))
                                    = Cardinality(Lower(Validators, subject))
    BY <1>4, <2>2 DEF Place
  <2>4. ASSUME NEW v \in Validators, Cardinality(Lower(Validators, v))
                                      = Cardinality(Lower(Validators, subject))
        PROVE  v = subject
    <3>1. Validators \in SUBSET Nat /\ IsFiniteSet(Validators)
      BY <1>1
    <3> QED BY <2>4, <3>1, PlacesDiffer
  <2> QED BY <2>3, <2>4
<1> QED BY <1>2, <1>5, <1>6 DEF order, count

\* The committee of a subject consists of validators (committee_for).
LEMMA CommitteeKnown ==
    ASSUME NEW epoch \in DOMAIN Rotation, NEW subject \in Validators
    PROVE  Committee(subject, epoch) \subseteq Validators
<1> DEFINE order == Rotated(epoch)
           count == Cardinality(Validators)
           place == CHOOSE i \in DOMAIN order : order[i] = subject
           near == Min({WitnessCount, Len(order) - 1})
<1>1. /\ count \in Nat \ {0} /\ order \in [1 .. count -> Validators]
      /\ \E i \in 1 .. count : order[i] = subject
  BY OrderLists
<1>2. WitnessCount \in Nat
  BY ServiceEvidenceAssumption DEF ScheduleAssumption
<1> HIDE DEF order, count
<1>3. order \in Seq(Validators) /\ DOMAIN order = 1 .. count /\ Len(order) = count
  BY <1>1
<1>4. place \in 1 .. count
  BY <1>1, <1>3
<1> HIDE DEF place
<1>5. ASSUME NEW offset \in 1 .. near
      PROVE  order[((place - 1 + offset) % Len(order)) + 1] \in Validators
  <2>1. offset \in Int
    OBVIOUS
  <2>2. ((place - 1 + offset) % count) + 1 \in 1 .. count
    BY <1>1, <1>4, <2>1
  <2> QED BY <1>1, <1>3, <2>2
<1>6. Committee(subject, epoch)
        = {order[((place - 1 + offset) % Len(order)) + 1] : offset \in 1 .. near}
  BY DEF Committee, Witnesses, order, place
<1> HIDE DEF near
<1> QED BY <1>5, <1>6

LEMMA KeyTypes ==
    ASSUME NEW key \in Keys
    PROVE  /\ CommitteeOf[key] \subseteq Validators
           /\ AggregatorsOf[key] \subseteq Validators
           /\ QuorumOf[key] \in Nat
<1> DEFINE committee == Committee(key[1], key[2])
<1>1. key \in Subjects \X Epochs /\ key[1] \in Validators /\ key[2] \in DOMAIN Rotation
  BY ServiceEvidenceAssumption DEF Keys
<1>2. committee \subseteq Validators
  BY <1>1, CommitteeKnown
<1>3. Cardinality(committee) \in Nat
  BY <1>2, ServiceEvidenceAssumption, FS_Subset, FS_CardinalityType DEF ScheduleAssumption
<1>4. CommitteeOf[key] = committee
  BY <1>1 DEF CommitteeOf
<1>5. AggregatorsOf[key] \subseteq committee
  BY DEF AggregatorsOf, Aggregators
<1>6. QuorumOf[key] = IF Cardinality(committee) = 0 THEN 0 ELSE (Cardinality(committee) * 2) \div 3 + 1
  BY DEF QuorumOf, CommitteeThreshold
<1> HIDE DEF committee
<1> QED BY <1>2, <1>3, <1>4, <1>5, <1>6

\* More attestations of the committee are still a quorum.
LEMMA ValidKept ==
    ASSUME NEW key \in Keys, NEW a \in Attested, NEW b \in Attested, Extends(a, b),
           AggregateValid(key, a), DOMAIN b \subseteq CommitteeOf[key]
    PROVE  AggregateValid(key, b)
<1>1. DOMAIN a \subseteq DOMAIN b /\ DOMAIN b \subseteq Validators
  BY AttestedShape DEF Extends
<1>2. IsFiniteSet(DOMAIN b)
  BY <1>1, ServiceEvidenceAssumption, FS_Subset DEF ScheduleAssumption
<1>3. /\ Cardinality(DOMAIN a) <= Cardinality(DOMAIN b)
      /\ Cardinality(DOMAIN a) \in Nat /\ Cardinality(DOMAIN b) \in Nat
  BY <1>1, <1>2, FS_Subset, FS_CardinalityType
<1>4. Cardinality(DOMAIN b) >= QuorumOf[key]
  BY <1>3, KeyTypes DEF AggregateValid
<1>5. b # None
  <2> SUFFICES ASSUME b = None PROVE FALSE
    OBVIOUS
  <2>1. DOMAIN a = {}
    BY <1>1, NoneAttested
  <2>2. a = None
    BY <2>1, AttestedShape DEF None
  <2> QED BY <2>2 DEF AggregateValid, WellFormed
<1> QED BY <1>4, <1>5 DEF AggregateValid, WellFormed, AttestationValid

LEMMA EventsFinite == IsFiniteSet(Events)
<1> DEFINE P == Subjects \X Slots
           f == [q \in P \X Classes |-> <<q[1][1], q[1][2], q[2]>>]
<1>1. IsFiniteSet(Classes) /\ IsFiniteSet(Validators) /\ Subjects \subseteq Validators
      /\ MaxSlot \in Nat
  BY ServiceEvidenceAssumption DEF ScheduleAssumption
<1>2. IsFiniteSet(Slots)
  BY <1>1, FS_Interval DEF Slots
<1>3. IsFiniteSet(Subjects)
  BY <1>1, FS_Subset
<1>4. IsFiniteSet(P)
  BY <1>2, <1>3, FS_Product
<1>5. IsFiniteSet(P \X Classes)
  BY <1>1, <1>4, FS_Product
<1>6. f \in [P \X Classes -> Events]
  BY DEF Events
<1>7. \A e \in Events : \E q \in P \X Classes : f[q] = e
  <2> SUFFICES ASSUME NEW e \in Events PROVE \E q \in P \X Classes : f[q] = e
    OBVIOUS
  <2>1. /\ e[1] \in Subjects /\ e[2] \in Slots /\ e[3] \in Classes
        /\ e = <<e[1], e[2], e[3]>>
    BY DEF Events
  <2>2. <<<<e[1], e[2]>>, e[3]>> \in P \X Classes
    BY <2>1
  <2>3. f[<<<<e[1], e[2]>>, e[3]>>] = e
    BY <2>1, <2>2
  <2> QED BY <2>2, <2>3
<1>8. f \in Surjection(P \X Classes, Events)
  <2> HIDE DEF f
  <2> QED BY <1>6, <1>7 DEF Surjection
<1> HIDE DEF P, f
<1> QED BY <1>5, <1>8, FS_Surjection

LEMMA ObservedType ==
    ASSUME NEW n \in Validators, NEW key, receipts \in [Validators -> SUBSET Events]
    PROVE  Observed(n, key) \in Counters
<1> DEFINE mine == {r \in receipts[n] : r[1] = key[1] /\ EpochForSlot(r[2]) = key[2]}
           beats == {r \in mine : r[3] = "Heartbeat"}
<1>1. IsFiniteSet(Events)
  BY EventsFinite
<1>2. mine \in SUBSET Events /\ beats \in SUBSET Events
  OBVIOUS
<1>3. Cardinality(mine) \in Nat /\ Cardinality(beats) \in Nat
  BY <1>1, <1>2, FS_Subset, FS_CardinalityType
<1>4. SlotsPerEpoch \in Nat
  BY ServiceEvidenceAssumption DEF ScheduleAssumption
<1>5. Observed(n, key) = CountersFromObserver(Cardinality(beats), Cardinality(mine))
  BY DEF Observed
<1> HIDE DEF mine, beats
<1>6. /\ NoCounters \in Counters
      /\ {"uptime", "windows", "timely", "expected", "peers", "expectedPeers"} \subseteq CounterFields
  BY DEF NoCounters, Counters, CounterFields
<1>7. CountersFromObserver(Cardinality(beats), Cardinality(mine)) \in Counters
  BY <1>3, <1>4, <1>6 DEF CountersFromObserver, Counters
<1> QED BY <1>5, <1>7

-----------------------------------------------------------------------------
(* One step of a node's evidence about one subject and epoch.               *)

\* The book only grows, and the aggregate stays or is replaced by the book.
Grows(key, b, a, bb, aa) ==
    /\ bb \in Attested /\ Extends(b, bb) /\ DOMAIN bb \subseteq CommitteeOf[key]
    /\ aa = a \/ (aa = bb /\ AggregateValid(key, bb))

LEMMA GrowsBacked ==
    ASSUME NEW key \in Keys, NEW b \in Attested, NEW a \in Attested, BackedBy(key, b, a),
           NEW bb, NEW aa, Grows(key, b, a, bb, aa)
    PROVE  aa \in Attested /\ BackedBy(key, bb, aa) /\ Extends(a, aa)
<1>1. Extends(a, b) /\ Extends(b, bb) /\ bb \in Attested /\ DOMAIN bb \subseteq CommitteeOf[key]
  BY DEF BackedBy, Grows
<1>2. Extends(a, bb)
  BY <1>1, ExtendsOrder
<1>3. CASE aa = a
  <2>1. a # None => AggregateValid(key, bb)
    BY <1>1, ValidKept DEF BackedBy
  <2> QED BY <1>1, <1>2, <1>3, <2>1, ExtendsOrder DEF BackedBy
<1>4. CASE aa = bb /\ AggregateValid(key, bb)
  BY <1>1, <1>2, <1>4, ExtendsOrder DEF BackedBy
<1> QED BY <1>3, <1>4 DEF Grows

LEMMA SameGrows ==
    ASSUME NEW key \in Keys, NEW b \in Attested, NEW a, BackedBy(key, b, a)
    PROVE  Grows(key, b, a, b, a)
BY ExtendsOrder DEF Grows, BackedBy

-----------------------------------------------------------------------------
(* The steps.                                                               *)

Sent(messages) ==
    \A m \in messages : m.key \in Keys /\ m.to \in Validators /\ m.attestations \in Attested

EvidenceInv ==
    /\ receipts \in [Validators -> SUBSET Events]
    /\ book \in [Validators -> [Keys -> Attested]]
    /\ aggregates \in [Validators -> [Keys -> Attested]]
    /\ EvidenceBacked
    /\ Sent(net)

LEMMA BookTypes ==
    ASSUME EvidenceInv, NEW n \in Validators, NEW key \in Keys
    PROVE  /\ book[n][key] \in Attested /\ aggregates[n][key] \in Attested
           /\ BackedBy(key, book[n][key], aggregates[n][key])
           /\ DOMAIN book[n][key] \subseteq CommitteeOf[key]
           /\ Grows(key, book[n][key], aggregates[n][key], book[n][key], aggregates[n][key])
<1>1. /\ book[n][key] \in Attested /\ aggregates[n][key] \in Attested
      /\ BackedBy(key, book[n][key], aggregates[n][key])
  BY DEF EvidenceInv, EvidenceBacked
<1> QED BY <1>1, SameGrows DEF BackedBy

\* Where the evidence of every node about every subject and epoch grows, it stays backed and
\* nothing is taken back.
LEMMA GrowsEverywhere ==
    ASSUME EvidenceInv, receipts' \in [Validators -> SUBSET Events], Sent(net'),
           book' \in [Validators -> [Keys -> Attested]],
           aggregates' \in [Validators -> [Keys -> Attested]],
           \A n \in Validators, key \in Keys :
                Grows(key, book[n][key], aggregates[n][key], book'[n][key], aggregates'[n][key])
    PROVE  EvidenceInv' /\ EvidenceKept
<1>1. ASSUME NEW n \in Validators, NEW key \in Keys
      PROVE  /\ BackedBy(key, book'[n][key], aggregates'[n][key])
             /\ Extends(aggregates[n][key], aggregates'[n][key])
  BY <1>1, BookTypes, GrowsBacked
<1>2. (\A n \in Validators, key \in Keys : BackedBy(key, book[n][key], aggregates[n][key]))'
  <2> SUFFICES ASSUME NEW n \in Validators, NEW key \in Keys
               PROVE  BackedBy(key, book[n][key], aggregates[n][key])'
    OBVIOUS
  <2> QED BY <1>1 DEF BackedBy, Extends, AggregateValid, WellFormed, AttestationValid,
                      CommitteeOf, QuorumOf, None, Dominates
<1>3. EvidenceKept
  BY <1>1 DEF EvidenceKept, EvidenceInv, EvidenceBacked
<1>4. (\A m \in net : m.key \in Keys /\ m.to \in Validators /\ m.attestations \in Attested)'
  BY DEF Sent, Keys, Attested
<1>5. EvidenceInv'
  BY <1>2, <1>4 DEF EvidenceInv, EvidenceBacked, Sent, Events, Slots, Attested, Counters, Keys
<1> QED BY <1>3, <1>5

LEMMA QuietStep ==
    ASSUME EvidenceInv, receipts' \in [Validators -> SUBSET Events], UNCHANGED <<book, aggregates>>,
           net' \subseteq net
    PROVE  EvidenceInv' /\ EvidenceKept
<1>1. Sent(net')
  BY DEF EvidenceInv, Sent
<1>2. /\ book' \in [Validators -> [Keys -> Attested]]
      /\ aggregates' \in [Validators -> [Keys -> Attested]]
  BY DEF EvidenceInv, EvidenceBacked
<1> QED BY <1>1, <1>2, BookTypes, GrowsEverywhere

LEMMA EmitStep ==
    ASSUME EvidenceInv, UNCHANGED receipts, NEW n \in Validators, NEW keys \in SUBSET Keys,
           \A key \in keys : n \in CommitteeOf[key], EmitAttestations(n, keys)
    PROVE  EvidenceInv' /\ EvidenceKept
<1> DEFINE after == [key \in keys |-> Insert(book[n][key], n, Observed(n, key))]
           changed == {key \in keys : after[key] # book[n][key]}
           publish == {key \in keys : Publishes(n, key, after[key])}
           newBook == [key \in Keys |-> IF key \in keys THEN after[key] ELSE book[n][key]]
           newHeld == [key \in Keys |-> IF key \in publish THEN after[key] ELSE aggregates[n][key]]
           attesting == UNION {AttestationTo(AggregatorsOf[key] \ {n}, key, n, after[key][n]) :
                                key \in changed}
           publishing == UNION {AggregateTo(Validators \ {n}, key, after[key]) : key \in publish}
<1>1. /\ book' = [book EXCEPT ![n] = newBook]
      /\ aggregates' = [aggregates EXCEPT ![n] = newHeld]
  BY DEF EmitAttestations, EvidenceInv, EvidenceBacked
<1>0. net' = net \cup attesting \cup publishing
  BY DEF EmitAttestations
<1>2. ASSUME NEW key \in keys
      PROVE  /\ after[key] \in Attested
             /\ n \in DOMAIN after[key] /\ after[key][n] \in Counters
             /\ Extends(book[n][key], after[key])
             /\ DOMAIN after[key] \subseteq CommitteeOf[key]
  <2>1. Observed(n, key) \in Counters
    BY ObservedType DEF EvidenceInv
  <2>2. /\ after[key] \in Attested /\ DOMAIN after[key] = DOMAIN book[n][key] \cup {n}
        /\ Extends(book[n][key], after[key])
    BY <2>1, BookTypes, InsertExtends
  <2> HIDE DEF after
  <2>3. after[key][n] \in Counters
    BY <2>2, AttestedShape
  <2> QED BY <2>2, <2>3, BookTypes
<1>3. \A key \in publish : key \in keys /\ AggregateValid(key, after[key])
  BY DEF Publishes, Build
<1> HIDE DEF after
<1>4. ASSUME NEW key \in Keys
      PROVE  Grows(key, book[n][key], aggregates[n][key], newBook[key], newHeld[key])
  <2>1. CASE key \in keys
    <3>1. newBook[key] = after[key]
      BY <2>1
    <3>2. newHeld[key] = aggregates[n][key] \/ (newHeld[key] = after[key] /\ AggregateValid(key, after[key]))
      BY <1>3
    <3> QED BY <1>2, <2>1, <3>1, <3>2 DEF Grows
  <2>2. CASE key \notin keys
    <3>1. newBook[key] = book[n][key] /\ newHeld[key] = aggregates[n][key]
      BY <2>2
    <3> QED BY <3>1, BookTypes
  <2> QED BY <2>1, <2>2
<1>5. newBook \in [Keys -> Attested] /\ newHeld \in [Keys -> Attested]
  <2>1. \A key \in Keys : newBook[key] \in Attested /\ newHeld[key] \in Attested
    BY <1>2, BookTypes
  <2> QED BY <2>1
<1> HIDE DEF newBook, newHeld
<1>6. /\ book' \in [Validators -> [Keys -> Attested]]
      /\ aggregates' \in [Validators -> [Keys -> Attested]]
      /\ book'[n] = newBook /\ aggregates'[n] = newHeld
      /\ \A v \in Validators \ {n} : book'[v] = book[v] /\ aggregates'[v] = aggregates[v]
  BY <1>1, <1>5 DEF EvidenceInv, EvidenceBacked
<1>7. \A v \in Validators, key \in Keys :
        Grows(key, book[v][key], aggregates[v][key], book'[v][key], aggregates'[v][key])
  <2> SUFFICES ASSUME NEW v \in Validators, NEW key \in Keys
               PROVE  Grows(key, book[v][key], aggregates[v][key], book'[v][key], aggregates'[v][key])
    OBVIOUS
  <2>1. CASE v = n
    BY <1>4, <1>6, <2>1
  <2>2. CASE v # n
    BY <1>6, <2>2, BookTypes
  <2> QED BY <2>1, <2>2
<1>8. Sent(net')
  <2> SUFFICES ASSUME NEW m \in net'
               PROVE  m.key \in Keys /\ m.to \in Validators /\ m.attestations \in Attested
    BY DEF Sent
  <2>1. CASE m \in net
    BY <2>1 DEF EvidenceInv, Sent
  <2>2. CASE \E key \in changed : m \in AttestationTo(AggregatorsOf[key] \ {n}, key, n, after[key][n])
    <3>1. PICK key \in changed : m \in AttestationTo(AggregatorsOf[key] \ {n}, key, n, after[key][n])
      BY <2>2
    <3>2. key \in keys /\ m.key = key /\ m.to \in AggregatorsOf[key]
          /\ m.attestations = [v \in {n} |-> after[key][n]]
      BY <3>1 DEF AttestationTo
    <3>3. after[key][n] \in Counters
      BY <1>2, <3>2
    <3>4. DOMAIN m.attestations = {n} /\ m.attestations \in [{n} -> Counters]
      BY <3>2, <3>3
    <3> QED BY <3>2, <3>4, AttestedShape, KeyTypes
  <2>3. CASE \E key \in publish : m \in AggregateTo(Validators \ {n}, key, after[key])
    <3>1. PICK key \in publish : m \in AggregateTo(Validators \ {n}, key, after[key])
      BY <2>3
    <3>2. key \in keys /\ m.key = key /\ m.to \in Validators /\ m.attestations = after[key]
      BY <3>1 DEF AggregateTo
    <3> QED BY <1>2, <3>2
  <2>4. m \in attesting => \E key \in changed :
            m \in AttestationTo(AggregatorsOf[key] \ {n}, key, n, after[key][n])
    OBVIOUS
  <2>5. m \in publishing => \E key \in publish : m \in AggregateTo(Validators \ {n}, key, after[key])
    OBVIOUS
  <2> HIDE DEF attesting, publishing, changed, publish
  <2> QED BY <1>0, <2>1, <2>2, <2>3, <2>4, <2>5
<1>9. receipts' \in [Validators -> SUBSET Events]
  BY DEF EvidenceInv
<1> QED BY <1>6, <1>7, <1>8, <1>9, GrowsEverywhere

\* A step that changes the evidence of one node about one subject and epoch.
LEMMA OneGrows ==
    ASSUME EvidenceInv, UNCHANGED receipts, Sent(net'), NEW n \in Validators, NEW key \in Keys,
           NEW b, NEW a, Grows(key, book[n][key], aggregates[n][key], b, a),
           book' = [book EXCEPT ![n][key] = b], aggregates' = [aggregates EXCEPT ![n][key] = a]
    PROVE  EvidenceInv' /\ EvidenceKept
<1>1. /\ book \in [Validators -> [Keys -> Attested]]
      /\ aggregates \in [Validators -> [Keys -> Attested]]
      /\ receipts' \in [Validators -> SUBSET Events]
  BY DEF EvidenceInv, EvidenceBacked
<1>2. a \in Attested /\ b \in Attested
  BY BookTypes, GrowsBacked DEF Grows
<1>3. /\ book' \in [Validators -> [Keys -> Attested]]
      /\ aggregates' \in [Validators -> [Keys -> Attested]]
      /\ \A v \in Validators, k \in Keys :
            IF v = n /\ k = key
            THEN book'[v][k] = b /\ aggregates'[v][k] = a
            ELSE book'[v][k] = book[v][k] /\ aggregates'[v][k] = aggregates[v][k]
  BY <1>1, <1>2
<1>4. \A v \in Validators, k \in Keys :
        Grows(k, book[v][k], aggregates[v][k], book'[v][k], aggregates'[v][k])
  BY <1>3, BookTypes
<1> QED BY <1>1, <1>3, <1>4, GrowsEverywhere

LEMMA AttestationStep ==
    ASSUME EvidenceInv, UNCHANGED receipts, NEW m \in net, OnAttestation(m.to, m)
    PROVE  EvidenceInv' /\ EvidenceKept
<1> DEFINE n == m.to
           key == m.key
           valid == \A member \in DOMAIN m.attestations : AttestationValid(key, member)
           after == IF valid THEN InsertAll(book[n][key], m.attestations) ELSE book[n][key]
           publish == Publishes(n, key, after)
           held == IF publish THEN after ELSE aggregates[n][key]
           more == IF publish THEN AggregateTo(Validators \ {n}, key, after) ELSE {}
<1>1. n \in Validators /\ key \in Keys /\ m.attestations \in Attested
  BY DEF EvidenceInv, Sent
<1>2. /\ book' = [book EXCEPT ![n][key] = after]
      /\ aggregates' = [aggregates EXCEPT ![n][key] = held]
      /\ net' = (net \ {m}) \cup more
  BY DEF OnAttestation
<1>3. publish => AggregateValid(key, after)
  BY DEF Publishes, Build
<1>4. after \in Attested /\ Extends(book[n][key], after) /\ DOMAIN after \subseteq CommitteeOf[key]
  <2>1. CASE valid
    <3>1. after = InsertAll(book[n][key], m.attestations)
      BY <2>1
    <3>2. DOMAIN m.attestations \subseteq CommitteeOf[key]
      BY <2>1 DEF AttestationValid
    <3> HIDE DEF after, valid
    <3> QED BY <1>1, <3>1, <3>2, BookTypes, InsertAllExtends
  <2>2. CASE ~valid
    <3>1. after = book[n][key]
      BY <2>2
    <3> HIDE DEF after, valid
    <3> QED BY <1>1, <3>1, BookTypes, ExtendsOrder
  <2> QED BY <2>1, <2>2
<1> HIDE DEF after, valid
<1>5. Grows(key, book[n][key], aggregates[n][key], after, held)
  BY <1>3, <1>4 DEF Grows
<1>6. Sent(net')
  <2>1. Sent(net \ {m})
    BY DEF EvidenceInv, Sent
  <2>2. Sent(more)
    BY <1>1, <1>4 DEF Sent, AggregateTo
  <2> HIDE DEF more
  <2> QED BY <1>2, <2>1, <2>2 DEF Sent
<1> HIDE DEF n, key, held
<1> QED BY <1>1, <1>2, <1>5, <1>6, OneGrows

LEMMA AggregateStep ==
    ASSUME EvidenceInv, UNCHANGED receipts, NEW m \in net, OnAggregate(m.to, m)
    PROVE  EvidenceInv' /\ EvidenceKept
<1> DEFINE n == m.to
           key == m.key
           after == IF AggregateValid(key, m.attestations)
                    THEN InsertAll(book[n][key], m.attestations) ELSE book[n][key]
           held == Merge(key, after, aggregates[n][key])
<1>1. n \in Validators /\ key \in Keys /\ m.attestations \in Attested
  BY DEF EvidenceInv, Sent
<1>2. /\ book' = [book EXCEPT ![n][key] = after]
      /\ aggregates' = [aggregates EXCEPT ![n][key] = held]
      /\ net' = net \ {m}
  BY DEF OnAggregate
<1>3. after \in Attested /\ Extends(book[n][key], after) /\ DOMAIN after \subseteq CommitteeOf[key]
  <2>1. CASE AggregateValid(key, m.attestations)
    <3>1. after = InsertAll(book[n][key], m.attestations)
      BY <2>1
    <3>2. DOMAIN m.attestations \subseteq CommitteeOf[key]
      BY <2>1 DEF AggregateValid, AttestationValid
    <3> HIDE DEF after
    <3> QED BY <1>1, <3>1, <3>2, BookTypes, InsertAllExtends
  <2>2. CASE ~AggregateValid(key, m.attestations)
    <3>1. after = book[n][key]
      BY <2>2
    <3> HIDE DEF after
    <3> QED BY <1>1, <3>1, BookTypes, ExtendsOrder
  <2> QED BY <2>1, <2>2
<1> HIDE DEF after
<1>4. held = aggregates[n][key] \/ (held = after /\ AggregateValid(key, after))
  BY DEF Merge, InsertAggregate, Build
<1>5. Grows(key, book[n][key], aggregates[n][key], after, held)
  BY <1>3, <1>4 DEF Grows
<1>6. Sent(net')
  BY <1>2 DEF EvidenceInv, Sent
<1> HIDE DEF n, key, held
<1> QED BY <1>1, <1>2, <1>5, <1>6, OneGrows

LEMMA RestartStep ==
    ASSUME EvidenceInv, NEW n \in MayRestart, Restart(n)
    PROVE  EvidenceInv' /\ EvidenceKept
<1> DEFINE restored == RestoreEvidence(book[n], aggregates[n])
<1>1. n \in Validators
  BY ServiceEvidenceAssumption
<1>2. UNCHANGED <<book, receipts, net>> /\ aggregates' = [aggregates EXCEPT ![n] = restored]
  BY DEF Restart, EvidenceInv, EvidenceBacked
<1>3. ASSUME NEW key \in Keys
      PROVE  /\ Grows(key, book[n][key], aggregates[n][key], book[n][key], restored[key])
             /\ restored[key] \in Attested
  <2>1. CASE aggregates[n][key] = None
    <3>1. restored[key] = aggregates[n][key]
      BY <2>1 DEF RestoreEvidence
    <3> HIDE DEF restored
    <3> QED BY <1>1, <3>1, BookTypes
  <2>2. CASE aggregates[n][key] # None
    <3>1. AggregateValid(key, book[n][key]) /\ book[n][key] # None
      BY <1>1, <2>2, BookTypes DEF BackedBy, AggregateValid, WellFormed
    <3>2. restored[key] = book[n][key]
      BY <2>2, <3>1 DEF RestoreEvidence, Merge, InsertAggregate, Build
    <3> HIDE DEF restored
    <3> QED BY <1>1, <3>1, <3>2, BookTypes DEF Grows
  <2> QED BY <2>1, <2>2
<1>4. restored \in [Keys -> Attested]
  <2>1. restored = [key \in Keys |-> restored[key]]
    BY DEF RestoreEvidence
  <2> HIDE DEF restored
  <2> QED BY <1>3, <2>1
<1> HIDE DEF restored
<1>5. /\ book' \in [Validators -> [Keys -> Attested]]
      /\ aggregates' \in [Validators -> [Keys -> Attested]]
      /\ receipts' \in [Validators -> SUBSET Events]
      /\ aggregates'[n] = restored
      /\ \A v \in Validators \ {n} : aggregates'[v] = aggregates[v]
  BY <1>1, <1>2, <1>4 DEF EvidenceInv, EvidenceBacked
<1>6. \A v \in Validators, key \in Keys :
        Grows(key, book[v][key], aggregates[v][key], book'[v][key], aggregates'[v][key])
  <2> SUFFICES ASSUME NEW v \in Validators, NEW key \in Keys
               PROVE  Grows(key, book[v][key], aggregates[v][key], book'[v][key], aggregates'[v][key])
    OBVIOUS
  <2>1. CASE v = n
    BY <1>2, <1>3, <1>5, <2>1
  <2>2. CASE v # n
    BY <1>2, <1>5, <2>2, BookTypes
  <2> QED BY <2>1, <2>2
<1>7. Sent(net')
  BY <1>2 DEF EvidenceInv, Sent
<1> QED BY <1>5, <1>6, <1>7, GrowsEverywhere

LEMMA EvidenceStep ==
    ASSUME EvidenceInv, [Next]_vars
    PROVE  EvidenceInv' /\ EvidenceKept
<1>1. receipts \in [Validators -> SUBSET Events]
  BY DEF EvidenceInv
<1>2. CASE Elapse
  BY <1>1, <1>2, QuietStep DEF Elapse
<1>3. ASSUME NEW w \in Validators, NEW s \in Subjects, NEW t \in Slots, NEW c \in Classes,
             IssueReceipt(w, s, t, c)
      PROVE  EvidenceInv' /\ EvidenceKept
  <2>1. receipts' = [receipts EXCEPT ![w] = receipts[w] \cup {<<s, t, c>>}]
    BY <1>1, <1>3 DEF IssueReceipt
  <2>2. <<s, t, c>> \in Events
    BY DEF Events
  <2>3. receipts' \in [Validators -> SUBSET Events]
    BY <1>1, <2>1, <2>2
  <2> QED BY <1>3, <2>3, QuietStep DEF IssueReceipt
<1>4. ASSUME NEW n \in Validators, Tick(n) PROVE EvidenceInv' /\ EvidenceKept
  <2> DEFINE keys == AttestKeys(n, AttestableEpochs(EpochForSlot(now)))
  <2>1. UNCHANGED receipts /\ (EmitAttestations(n, keys) \/ UNCHANGED <<book, aggregates, net>>)
    BY <1>4 DEF Tick
  <2>2. keys \in SUBSET Keys /\ \A key \in keys : n \in CommitteeOf[key]
    BY DEF AttestKeys
  <2> HIDE DEF keys
  <2>3. CASE EmitAttestations(n, keys)
    BY <2>1, <2>2, <2>3, EmitStep
  <2>4. CASE UNCHANGED <<book, aggregates, net>>
    BY <1>1, <2>1, <2>4, QuietStep
  <2> QED BY <2>1, <2>3, <2>4
<1>5. ASSUME NEW m \in net, Deliver(m) PROVE EvidenceInv' /\ EvidenceKept
  <2>1. UNCHANGED receipts /\ (OnAttestation(m.to, m) \/ OnAggregate(m.to, m))
    BY <1>5 DEF Deliver
  <2> QED BY <2>1, AttestationStep, AggregateStep
<1>6. ASSUME NEW m \in net, Lose(m) PROVE EvidenceInv' /\ EvidenceKept
  BY <1>1, <1>6, QuietStep DEF Lose
<1>7. ASSUME NEW n \in MayRestart, ApplySnapshot(n) PROVE EvidenceInv' /\ EvidenceKept
  <2>1. PICK known \in SUBSET receipts[n] : receipts' = [receipts EXCEPT ![n] = known]
    BY <1>7 DEF ApplySnapshot
  <2>2. n \in Validators
    BY ServiceEvidenceAssumption
  <2>3. receipts' \in [Validators -> SUBSET Events]
    BY <1>1, <2>1, <2>2
  <2> QED BY <1>7, <2>3, QuietStep DEF ApplySnapshot
<1>8. CASE UNCHANGED vars
  BY <1>1, <1>8, QuietStep DEF vars
<1> QED BY <1>2, <1>3, <1>4, <1>5, <1>6, <1>7, <1>8, RestartStep DEF Next

LEMMA EvidenceStarts ==
    ASSUME Init
    PROVE  EvidenceInv
<1>1. receipts \in [Validators -> SUBSET Events]
  <2>1. 0 .. StartSlot - 1 \subseteq Slots
    BY ServiceEvidenceAssumption DEF Slots
  <2> QED BY <2>1 DEF Init, Events
<1>2. /\ book \in [Validators -> [Keys -> Attested]]
      /\ aggregates \in [Validators -> [Keys -> Attested]]
      /\ \A n \in Validators, key \in Keys : book[n][key] = None /\ aggregates[n][key] = None
  BY NoneAttested DEF Init
<1>3. \A n \in Validators, key \in Keys : BackedBy(key, book[n][key], aggregates[n][key])
  BY <1>2, NoneAttested DEF BackedBy, Extends
<1>4. Sent(net)
  BY DEF Init, Sent
<1> QED BY <1>1, <1>2, <1>3, <1>4 DEF EvidenceInv, EvidenceBacked

\* Whatever an aggregate holds stands in the book of attestations too, which then has a
\* quorum of the committee, and no order of arrival, repetition, loss, snapshot or restart
\* takes evidence back: the members of an aggregate stay and their counters only rise
\* (insert_service_attestation, merge_service_aggregate, restore_service_evidence).
THEOREM EvidenceNeverShrinks == Spec => []EvidenceBacked /\ EvidenceGrows
<1>1. EvidenceInv /\ [Next]_vars => EvidenceInv'
  BY EvidenceStep
<1>2. EvidenceInv /\ [Next]_vars => [EvidenceKept]_vars
  BY EvidenceStep
<1>3. EvidenceInv => EvidenceBacked
  BY DEF EvidenceInv
<1> QED BY <1>1, <1>2, <1>3, EvidenceStarts, PTL DEF Spec, EvidenceGrows

-----------------------------------------------------------------------------
(* The reported score.                                                      *)

\* What ReportedScoreCurrent says of a subject.
Current(reported, held, n, epoch) ==
    reported # None /\ epoch > 0 /\ DOMAIN Evidence(held, n, epoch) # {} =>
        reported = <<Max(DOMAIN Evidence(held, n, epoch)), ConfirmedScore(held, n, epoch)>>

ScoreInv ==
    /\ EvidenceInv
    /\ now \in Nat /\ slot \in [Validators -> Int]
    /\ scores = [n \in Subjects |-> scores[n]]
    /\ \A n \in Subjects : Current(scores[n], aggregates[n], n, EpochForSlot(slot[n]))

\* refresh_service_scores for an epoch leaves the score of that epoch.
LEMMA RefreshedCurrent ==
    ASSUME NEW old, NEW held, NEW n, NEW epoch
    PROVE  Current(Refreshed(old, held, n, epoch), held, n, epoch)
BY DEF Refreshed, Current

\* Before the first slot there is no epoch to have a score of.
LEMMA NoEpochBefore ==
    ASSUME NEW t \in Int, EpochForSlot(t) > 0
    PROVE  Max({t, 0}) = t
<1>1. SlotsPerEpoch \in Nat \ {0}
  BY ServiceEvidenceAssumption DEF ScheduleAssumption
<1>2. t >= 0
  BY <1>1 DEF EpochForSlot
<1>3. \E x \in {t, 0} : \A y \in {t, 0} : y <= x
  BY <1>2
<1> QED BY <1>2, <1>3 DEF Max

\* A step in which at most one node's slot, evidence or score changes.
LEMMA OneScored ==
    ASSUME ScoreInv, EvidenceInv', now' \in Nat, NEW n \in Validators,
           slot' \in [Validators -> Int], scores' = [v \in Subjects |-> scores'[v]],
           \A v \in Validators \ {n} :
                slot'[v] = slot[v] /\ aggregates'[v] = aggregates[v],
           \A v \in Subjects \ {n} : scores'[v] = scores[v],
           n \in Subjects => Current(scores'[n], aggregates'[n], n, EpochForSlot(slot'[n]))
    PROVE  ScoreInv'
<1>1. ASSUME NEW v \in Subjects
      PROVE  Current(scores'[v], aggregates'[v], v, EpochForSlot(slot'[v]))
  <2>1. CASE v = n
    BY <2>1
  <2>2. CASE v # n
    <3>1. slot'[v] = slot[v] /\ aggregates'[v] = aggregates[v] /\ scores'[v] = scores[v]
      BY <2>2, ServiceEvidenceAssumption
    <3> QED BY <3>1 DEF ScoreInv
  <2> QED BY <2>1, <2>2
<1>2. (\A v \in Subjects : Current(scores[v], aggregates[v], v, EpochForSlot(slot[v])))'
  BY <1>1
<1> QED BY <1>2 DEF ScoreInv

LEMMA RefreshChanges ==
    ASSUME ScoreInv, NEW n, NEW held, NEW epoch, Refresh(n, held, epoch)
    PROVE  /\ scores' = [v \in Subjects |-> scores'[v]]
           /\ \A v \in Subjects \ {n} : scores'[v] = scores[v]
           /\ n \in Subjects => scores'[n] = Refreshed(scores[n], held, n, epoch)
BY DEF Refresh, ScoreInv

LEMMA ScoreStep ==
    ASSUME ScoreInv, [Next]_vars
    PROVE  ScoreInv'
<1>1. EvidenceInv'
  BY EvidenceStep DEF ScoreInv
<1>2. /\ aggregates \in [Validators -> [Keys -> Attested]]
      /\ now \in Nat /\ slot \in [Validators -> Int] /\ scores = [v \in Subjects |-> scores[v]]
      /\ \A v \in Subjects : Current(scores[v], aggregates[v], v, EpochForSlot(slot[v]))
  BY DEF ScoreInv, EvidenceInv, EvidenceBacked
<1>3. ASSUME UNCHANGED <<slot, aggregates, scores>>, now' \in Nat PROVE ScoreInv'
  <2>1. (\A v \in Subjects : Current(scores[v], aggregates[v], v, EpochForSlot(slot[v])))'
    BY <1>2, <1>3
  <2> QED BY <1>1, <1>2, <1>3, <2>1 DEF ScoreInv
<1>4. ASSUME NEW n \in Validators, Tick(n) PROVE ScoreInv'
  <2> DEFINE epoch == EpochForSlot(now)
  <2>1. slot' = [slot EXCEPT ![n] = now] /\ now' = now /\ Refresh(n, aggregates'[n], epoch)
    BY <1>4 DEF Tick
  <2>2. \A v \in Validators \ {n} : aggregates'[v] = aggregates[v]
    BY <1>2, <1>4 DEF Tick, EmitAttestations
  <2>3. slot' \in [Validators -> Int] /\ slot'[n] = now
        /\ \A v \in Validators \ {n} : slot'[v] = slot[v]
    BY <1>2, <2>1
  <2>4. /\ scores' = [v \in Subjects |-> scores'[v]]
        /\ \A v \in Subjects \ {n} : scores'[v] = scores[v]
        /\ n \in Subjects => scores'[n] = Refreshed(scores[n], aggregates'[n], n, epoch)
    BY <2>1, RefreshChanges
  <2>5. n \in Subjects => Current(scores'[n], aggregates'[n], n, EpochForSlot(slot'[n]))
    BY <2>3, <2>4, RefreshedCurrent
  <2> QED BY <1>1, <1>2, <2>1, <2>2, <2>3, <2>4, <2>5, OneScored
<1>5. ASSUME NEW m \in net, Deliver(m) PROVE ScoreInv'
  <2> DEFINE n == m.to
             epoch == EpochForSlot(Max({slot[n], 0}))
  <2>1. UNCHANGED <<now, slot>> /\ n \in Validators
    BY <1>5 DEF Deliver, ScoreInv, EvidenceInv, Sent
  <2>2. \A v \in Validators \ {n} : aggregates'[v] = aggregates[v]
    BY <1>2, <1>5 DEF Deliver, OnAttestation, OnAggregate
  <2>3. CASE Refresh(n, aggregates'[n], epoch)
    <3>1. /\ scores' = [v \in Subjects |-> scores'[v]]
          /\ \A v \in Subjects \ {n} : scores'[v] = scores[v]
          /\ n \in Subjects => scores'[n] = Refreshed(scores[n], aggregates'[n], n, epoch)
      BY <2>3, RefreshChanges
    <3>2. Current(Refreshed(scores[n], aggregates'[n], n, epoch), aggregates'[n], n, epoch)
      BY RefreshedCurrent
    <3>3. EpochForSlot(slot[n]) > 0 => epoch = EpochForSlot(slot[n])
      BY <1>2, <2>1, NoEpochBefore
    <3>4. n \in Subjects => Current(scores'[n], aggregates'[n], n, EpochForSlot(slot'[n]))
      <4> HIDE DEF epoch, n
      <4> QED BY <2>1, <3>1, <3>2, <3>3 DEF Current
    <3> HIDE DEF n, epoch
    <3> QED BY <1>1, <1>2, <2>1, <2>2, <3>1, <3>4, OneScored
  <2>4. CASE aggregates' = aggregates /\ UNCHANGED scores
    BY <1>2, <1>3, <2>1, <2>4
  <2> QED BY <1>5, <2>3, <2>4 DEF Deliver
<1>6. ASSUME NEW n \in MayRestart, Restart(n) PROVE ScoreInv'
  <2>1. n \in Validators
    BY ServiceEvidenceAssumption
  <2>2. PICK last \in {now - 1, now} : slot' = [slot EXCEPT ![n] = last]
    BY <1>6 DEF Restart
  <2>3. slot' \in [Validators -> Int] /\ \A v \in Validators \ {n} : slot'[v] = slot[v]
    <3>1. last \in Int
      BY <1>2
    <3> QED BY <1>2, <2>2, <3>1
  <2>4. now' = now /\ \A v \in Validators \ {n} : aggregates'[v] = aggregates[v]
    BY <1>2, <1>6 DEF Restart
  <2>5. /\ scores' = [v \in Subjects |-> scores'[v]]
        /\ \A v \in Subjects \ {n} : scores'[v] = scores[v]
        /\ n \in Subjects => scores'[n] = None
    BY <1>2, <1>6 DEF Restart
  <2>6. n \in Subjects => Current(scores'[n], aggregates'[n], n, EpochForSlot(slot'[n]))
    BY <2>5 DEF Current
  <2> QED BY <1>1, <1>2, <2>1, <2>3, <2>4, <2>5, <2>6, OneScored
<1>7. CASE Elapse
  BY <1>2, <1>3, <1>7 DEF Elapse
<1>8. ASSUME NEW w \in Validators, NEW s \in Subjects, NEW t \in Slots, NEW c \in Classes,
             IssueReceipt(w, s, t, c)
      PROVE  ScoreInv'
  BY <1>2, <1>3, <1>8 DEF IssueReceipt
<1>9. ASSUME NEW m \in net, Lose(m) PROVE ScoreInv'
  BY <1>2, <1>3, <1>9 DEF Lose
<1>10. ASSUME NEW n \in MayRestart, ApplySnapshot(n) PROVE ScoreInv'
  BY <1>2, <1>3, <1>10 DEF ApplySnapshot
<1>11. CASE UNCHANGED vars
  BY <1>2, <1>3, <1>11 DEF vars
<1> QED BY <1>4, <1>5, <1>6, <1>7, <1>8, <1>9, <1>10, <1>11 DEF Next

\* From its first slot after a start, the score a subject reports (latest_service_scores,
\* which refresh_service_scores writes from four places) is the one that the evidence it
\* holds gives for its epoch, and so the one that v2_gating_state goes by.
THEOREM ReportedScoreAlwaysCurrent == Spec => []ReportedScoreCurrent
<1>1. Init => ScoreInv
  <2> SUFFICES ASSUME Init PROVE ScoreInv
    OBVIOUS
  <2>1. now \in Nat /\ slot \in [Validators -> Int]
    BY ServiceEvidenceAssumption DEF Init
  <2>2. scores = [n \in Subjects |-> scores[n]] /\ \A n \in Subjects : scores[n] = None
    BY DEF Init
  <2> QED BY <2>1, <2>2, EvidenceStarts DEF ScoreInv, Current
<1>2. ScoreInv /\ [Next]_vars => ScoreInv'
  BY ScoreStep
<1>3. ScoreInv => ReportedScoreCurrent
  BY DEF ScoreInv, Current, ReportedScoreCurrent
<1> QED BY <1>1, <1>2, <1>3, PTL DEF Spec

-----------------------------------------------------------------------------
(* Aggregates settle.  The evidence about one subject and epoch: the books  *)
(* b and aggregates a of the validators and the mail on its way.            *)

\* A holding h has counters of member m that are no less than c.
Has(h, m, c) == m \in DOMAIN h /\ Dominates(h[m], c)

BookOf(key) == [n \in Validators |-> book[n][key]]
HeldOf(key) == [n \in Validators |-> aggregates[n][key]]
MailOf(key) == {x \in net : x.key = key}

Holdings(b, mail) == {b[n] : n \in Validators} \cup {x.attestations : x \in mail}

\* Nobody knows more of a member's counters than the member itself.
Led(b, mail) == \A h \in Holdings(b, mail) : \A m \in DOMAIN h : Has(b[m], m, h[m])

\* Of two counters of one member one dominates the other.
Chained(b, mail) ==
    \A h, k \in Holdings(b, mail) : \A m \in DOMAIN h \cap DOMAIN k :
        Dominates(h[m], k[m]) \/ Dominates(k[m], h[m])

IsAggregate(x) == x.type # "ServiceAttestation"

Posted(key, mail) ==
    \A x \in mail :
        /\ x.to \in Validators /\ x.attestations \in Attested
        /\ DOMAIN x.attestations \subseteq CommitteeOf[key]
        /\ IsAggregate(x) => AggregateValid(key, x.attestations)

\* What holds whatever is lost.
Orderly(key, b, mail) == Posted(key, mail) /\ Led(b, mail) /\ Chained(b, mail)

\* Every aggregator has or gets what a member attested last.
Collected(key, b, mail) ==
    \A m \in Validators : m \in DOMAIN b[m] =>
        \A g \in AggregatorsOf[key] :
            \/ Has(b[g], m, b[m][m])
            \/ \E x \in mail : x.to = g /\ Has(x.attestations, m, b[m][m])

\* Every validator has or gets an aggregate with counters of member m no less than c.
Known(a, mail, m, c) ==
    \A p \in Validators :
        \/ Has(a[p], m, c)
        \/ \E x \in mail : IsAggregate(x) /\ x.to = p /\ Has(x.attestations, m, c)

Published(a, mail, h) == \A m \in DOMAIN h : Known(a, mail, m, h[m])

Begun(a, mail) == (\E p \in Validators : a[p] # None) \/ (\E x \in mail : IsAggregate(x))

\* An aggregator has published all of its book.
Leader(a, b, mail, g) == a[g] = b[g] /\ a[g] # None /\ Published(a, mail, b[g])

\* What holds as long as nothing is lost.
Flow(key, b, a, mail) ==
    /\ Collected(key, b, mail)
    /\ \A x \in mail : IsAggregate(x) => Published(a, mail, x.attestations)
    /\ Begun(a, mail) => \E g \in AggregatorsOf[key] : Leader(a, b, mail, g)

\* Where a book entry comes from that a node n has after it took mail gone: its old book,
\* the mail, or itself.
From(old, gone, n, after, m) ==
    \/ m \in DOMAIN old /\ after[m] = old[m]
    \/ \E x \in gone : m \in DOMAIN x.attestations /\ after[m] = x.attestations[m]
    \/ m = n

\* A node whose own attestation changed sends it to the aggregators.
Attests(key, n, old, after, more) ==
    n \in DOMAIN after =>
        \/ n \in DOMAIN old /\ after[n] = old[n]
        \/ \A g \in AggregatorsOf[key] \ {n} :
            \E x \in more : x.to = g /\ Has(x.attestations, n, after[n])

\* Node n takes mail gone, its book becomes after and its aggregate becomes taken, and it
\* posts more.
Takes(key, b, mail, n, gone, after, more) ==
    /\ after \in Attested /\ Extends(b[n], after) /\ DOMAIN after \subseteq CommitteeOf[key]
    /\ gone \subseteq mail /\ \A x \in gone : x.to = n /\ Extends(x.attestations, after)
    /\ \A m \in DOMAIN after : From(b[n], gone, n, after, m)
    /\ \A x \in more :
        /\ x.to \in Validators /\ x.attestations \in Attested
        /\ \A m \in DOMAIN x.attestations : m \in DOMAIN after /\ x.attestations[m] = after[m]
        /\ IsAggregate(x) => AggregateValid(key, x.attestations)
    /\ Attests(key, n, b[n], after, more)

\* The ways in which its aggregate becomes taken: it stays, it is published, or it is
\* rebuilt from aggregates alone.
Stays(key, held, n, gone, after, taken, more) ==
    /\ taken = held
    /\ \A x \in gone \cup more : ~IsAggregate(x)
    /\ n \in AggregatorsOf[key] /\ after # held => ~AggregateValid(key, after)

Publishing(key, n, after, taken, more) ==
    /\ n \in AggregatorsOf[key]
    /\ taken = after /\ AggregateValid(key, after)
    /\ \A p \in Validators \ {n} :
        \E x \in more : IsAggregate(x) /\ x.to = p /\ x.attestations = after
    /\ \A x \in more : IsAggregate(x) => x.attestations = after

Merged(old, gone, after) ==
    \A m \in DOMAIN after :
        \/ m \in DOMAIN old /\ after[m] = old[m]
        \/ \E x \in gone : m \in DOMAIN x.attestations /\ after[m] = x.attestations[m]

Rebuilds(key, old, held, gone, after, taken, more) ==
    /\ taken = after /\ AggregateValid(key, after)
    /\ held # None \/ gone # {}
    /\ \A x \in gone : IsAggregate(x)
    /\ more = {}
    /\ Merged(old, gone, after)

Settles(key, old, held, n, gone, after, taken, more) ==
    \/ Stays(key, held, n, gone, after, taken, more)
    \/ Publishing(key, n, after, taken, more)
    \/ Rebuilds(key, old, held, gone, after, taken, more)

\* Two holdings that extend each other are the same.
LEMMA ExtendsBoth ==
    ASSUME NEW h \in Attested, NEW k \in Attested, Extends(h, k), Extends(k, h)
    PROVE  h = k
<1>1. DOMAIN h = DOMAIN k
  BY DEF Extends
<1>2. ASSUME NEW m \in DOMAIN h PROVE h[m] = k[m]
  <2>1. h[m] \in Counters /\ k[m] \in Counters
    BY <1>1, AttestedShape
  <2>2. \A f \in CounterFields : h[m][f] \in Nat /\ k[m][f] \in Nat /\ h[m][f] >= k[m][f] /\ k[m][f] >= h[m][f]
    BY <1>1, <2>1 DEF Extends, Dominates, Counters
  <2>3. \A f \in CounterFields : h[m][f] = k[m][f]
    BY <2>2
  <2> QED BY <2>1, <2>3 DEF Counters
<1>3. h \in [DOMAIN h -> Counters] /\ k \in [DOMAIN k -> Counters]
  BY AttestedShape
<1> QED BY <1>1, <1>2, <1>3

LEMMA HasMore ==
    ASSUME NEW h \in Attested, NEW k \in Attested, Extends(h, k), NEW m, NEW c \in Counters,
           Has(h, m, c)
    PROVE  Has(k, m, c)
<1>1. m \in DOMAIN h /\ m \in DOMAIN k /\ h[m] \in Counters /\ k[m] \in Counters
      /\ Dominates(k[m], h[m]) /\ Dominates(h[m], c)
  BY AttestedShape DEF Has, Extends
<1>2. Dominates(k[m], c)
  BY <1>1, DominatesOrder
<1> QED BY <1>1, <1>2 DEF Has

LEMMA HasOwn ==
    ASSUME NEW h \in Attested, NEW m \in DOMAIN h
    PROVE  m \in Validators /\ h[m] \in Counters /\ Has(h, m, h[m])
<1>1. m \in Validators /\ h[m] \in Counters
  BY AttestedShape
<1> QED BY <1>1, DominatesOrder DEF Has

LEMMA HoldingsTyped ==
    ASSUME NEW key \in Keys, NEW b \in [Validators -> Attested], NEW mail, Posted(key, mail),
           NEW h \in Holdings(b, mail)
    PROVE  h \in Attested
BY DEF Holdings, Posted

\* Counters of a member that chain with those held are inserted, unless they are there.
LEMMA InsertChained ==
    ASSUME NEW h \in Attested, NEW k \in Attested,
           \A m \in DOMAIN h \cap DOMAIN k : Dominates(h[m], k[m]) \/ Dominates(k[m], h[m])
    PROVE  /\ Extends(k, InsertAll(h, k))
           /\ \A m \in DOMAIN InsertAll(h, k) :
                \/ m \in DOMAIN h /\ InsertAll(h, k)[m] = h[m]
                \/ m \in DOMAIN k /\ InsertAll(h, k)[m] = k[m] /\ ~Has(h, m, k[m])
<1> DEFINE all == InsertAll(h, k)
<1>1. DOMAIN all = DOMAIN h \cup DOMAIN k
  BY DEF InsertAll
<1>2. \A m \in DOMAIN h \ DOMAIN k : all[m] = h[m]
  BY DEF InsertAll
<1>3. ASSUME NEW m \in DOMAIN k
      PROVE  /\ Dominates(all[m], k[m])
             /\ (m \in DOMAIN h /\ all[m] = h[m]) \/ (all[m] = k[m] /\ ~Has(h, m, k[m]))
  <2>1. all[m] = Insert(h, m, k[m])[m]
    BY DEF InsertAll
  <2> HIDE DEF all
  <2>2. k[m] \in Counters
    BY AttestedShape
  <2>3. CASE m \in DOMAIN h /\ Dominates(h[m], k[m])
    <3>1. Insert(h, m, k[m]) = h
      BY <2>3 DEF Insert
    <3> QED BY <2>1, <2>3, <3>1
  <2>4. CASE ~(m \in DOMAIN h /\ Dominates(h[m], k[m]))
    <3>1. Insert(h, m, k[m]) = Put(h, m, k[m])
      BY <2>4 DEF Insert
    <3>2. Put(h, m, k[m])[m] = k[m]
      BY DEF Put
    <3> QED BY <2>1, <2>2, <2>4, <3>1, <3>2, DominatesOrder DEF Has
  <2> QED BY <2>3, <2>4
<1> HIDE DEF all
<1>4. Extends(k, all)
  BY <1>1, <1>3 DEF Extends
<1> QED BY <1>1, <1>2, <1>3, <1>4 DEF all

LEMMA OrderlyKept ==
    ASSUME NEW key \in Keys, NEW b \in [Validators -> Attested], NEW mail, NEW n \in Validators,
           NEW gone, NEW after, NEW more, Takes(key, b, mail, n, gone, after, more),
           Orderly(key, b, mail)
    PROVE  Orderly(key, [b EXCEPT ![n] = after], (mail \ gone) \cup more)
<1> DEFINE bb == [b EXCEPT ![n] = after]
           post == (mail \ gone) \cup more
<1>1. /\ bb[n] = after /\ \A v \in Validators \ {n} : bb[v] = b[v]
      /\ bb \in [Validators -> Attested] /\ after \in Attested
      /\ \A v \in Validators : b[v] \in Attested /\ bb[v] \in Attested
  BY DEF Takes
<1>2. \A v \in Validators : Extends(b[v], bb[v])
  BY <1>1, ExtendsOrder DEF Takes
<1>3. \A h \in Holdings(bb, post) : \A m \in DOMAIN h :
        \/ m = n /\ n \in DOMAIN after /\ h[m] = after[n]
        \/ \E k \in Holdings(b, mail) : m \in DOMAIN k /\ k[m] = h[m]
  <2> SUFFICES ASSUME NEW h \in Holdings(bb, post), NEW m \in DOMAIN h
               PROVE  \/ m = n /\ n \in DOMAIN after /\ h[m] = after[n]
                      \/ \E k \in Holdings(b, mail) : m \in DOMAIN k /\ k[m] = h[m]
    OBVIOUS
  <2>1. \A x \in post : x \in mail \/ x \in more
    OBVIOUS
  <2> HIDE DEF bb, post
  <2>2. ASSUME m \in DOMAIN after, h[m] = after[m]
        PROVE  \/ m = n /\ n \in DOMAIN after /\ h[m] = after[n]
               \/ \E k \in Holdings(b, mail) : m \in DOMAIN k /\ k[m] = h[m]
    <3>1. From(b[n], gone, n, after, m) /\ gone \subseteq mail
      BY <2>2 DEF Takes
    <3>2. b[n] \in Holdings(b, mail) /\ \A x \in gone : x.attestations \in Holdings(b, mail)
      BY <3>1 DEF Holdings
    <3> QED BY <2>2, <3>1, <3>2 DEF From
  <2>3. CASE \E v \in Validators : h = bb[v]
    <3>1. PICK v \in Validators : h = bb[v]
      BY <2>3
    <3>2. CASE v = n
      BY <1>1, <2>2, <3>1, <3>2
    <3>3. CASE v # n
      BY <1>1, <3>1, <3>3 DEF Holdings
    <3> QED BY <3>2, <3>3
  <2>4. CASE \E x \in mail : h = x.attestations
    BY <2>4 DEF Holdings
  <2>5. CASE \E x \in more : h = x.attestations
    BY <2>2, <2>5 DEF Takes
  <2> QED BY <2>1, <2>3, <2>4, <2>5 DEF Holdings
<1>4. Posted(key, post)
  <2> SUFFICES ASSUME NEW x \in post
               PROVE  /\ x.to \in Validators /\ x.attestations \in Attested
                      /\ DOMAIN x.attestations \subseteq CommitteeOf[key]
                      /\ IsAggregate(x) => AggregateValid(key, x.attestations)
    BY DEF Posted
  <2>1. CASE x \in mail
    BY <2>1 DEF Orderly, Posted
  <2>2. CASE x \in more
    BY <2>2 DEF Takes
  <2> QED BY <2>1, <2>2
<1> HIDE DEF bb, post
<1>5. Led(bb, post)
  <2> SUFFICES ASSUME NEW h \in Holdings(bb, post), NEW m \in DOMAIN h
               PROVE  Has(bb[m], m, h[m])
    BY DEF Led
  <2>1. CASE m = n /\ n \in DOMAIN after /\ h[m] = after[n]
    BY <1>1, <2>1, HasOwn
  <2>2. CASE \E k \in Holdings(b, mail) : m \in DOMAIN k /\ k[m] = h[m]
    <3>1. PICK k \in Holdings(b, mail) : m \in DOMAIN k /\ k[m] = h[m]
      BY <2>2
    <3>2. Has(b[m], m, k[m])
      BY <3>1 DEF Orderly, Led
    <3>3. k[m] \in Counters /\ m \in Validators
      BY <3>1, HoldingsTyped, HasOwn DEF Orderly
    <3> QED BY <1>1, <1>2, <3>1, <3>2, <3>3, HasMore
  <2> QED BY <1>3, <2>1, <2>2
<1>6. Chained(bb, post)
  <2> SUFFICES ASSUME NEW h \in Holdings(bb, post), NEW k \in Holdings(bb, post),
                      NEW m \in DOMAIN h \cap DOMAIN k
               PROVE  Dominates(h[m], k[m]) \/ Dominates(k[m], h[m])
    BY DEF Chained
  <2>1. Has(bb[m], m, h[m]) /\ Has(bb[m], m, k[m])
    BY <1>5 DEF Led
  <2>2. CASE m = n /\ (h[m] = after[n] \/ k[m] = after[n])
    BY <1>1, <2>1, <2>2 DEF Has
  <2>3. CASE /\ \E hh \in Holdings(b, mail) : m \in DOMAIN hh /\ hh[m] = h[m]
             /\ \E kk \in Holdings(b, mail) : m \in DOMAIN kk /\ kk[m] = k[m]
    BY <2>3 DEF Orderly, Chained
  <2> QED BY <1>3, <2>2, <2>3
<1> QED BY <1>4, <1>5, <1>6 DEF Orderly, bb, post

\* What is known stays known: mail to node n that goes is in its aggregate.
LEMMA KnownKept ==
    ASSUME NEW key \in Keys, NEW b \in [Validators -> Attested], NEW a \in [Validators -> Attested],
           NEW mail, NEW n \in Validators, NEW gone, NEW after, NEW more, NEW taken \in Attested,
           Takes(key, b, mail, n, gone, after, more), Posted(key, mail), Extends(a[n], taken),
           Settles(key, b[n], a[n], n, gone, after, taken, more),
           NEW m, NEW c \in Counters, Known(a, mail, m, c)
    PROVE  Known([a EXCEPT ![n] = taken], (mail \ gone) \cup more, m, c)
<1> DEFINE aa == [a EXCEPT ![n] = taken]
           post == (mail \ gone) \cup more
<1>1. aa[n] = taken /\ \A v \in Validators \ {n} : aa[v] = a[v]
  OBVIOUS
<1>2. \A v \in Validators : a[v] \in Attested /\ aa[v] \in Attested
  BY <1>1
<1>3. \A v \in Validators : Extends(a[v], aa[v])
  BY <1>1, <1>2, ExtendsOrder
<1>4. \A x \in mail \ gone : x \in post
  OBVIOUS
<1> HIDE DEF aa, post
<1> SUFFICES ASSUME NEW p \in Validators
             PROVE  \/ Has(aa[p], m, c)
                    \/ \E x \in post : IsAggregate(x) /\ x.to = p /\ Has(x.attestations, m, c)
  BY DEF Known, aa, post
<1>5. CASE Has(a[p], m, c)
  BY <1>2, <1>3, <1>5, HasMore
<1>6. ASSUME NEW x \in mail, IsAggregate(x), x.to = p, Has(x.attestations, m, c)
      PROVE  \/ Has(aa[p], m, c)
             \/ \E y \in post : IsAggregate(y) /\ y.to = p /\ Has(y.attestations, m, c)
  <2>1. CASE x \notin gone
    BY <1>4, <1>6, <2>1
  <2>2. CASE x \in gone
    <3>1. x.to = n /\ Extends(x.attestations, after) /\ after \in Attested
          /\ x.attestations \in Attested
      BY <2>2 DEF Takes, Posted
    <3>2. taken = after
      BY <1>6, <2>2 DEF Settles, Stays, Publishing, Rebuilds
    <3> QED BY <1>1, <1>6, <3>1, <3>2, HasMore
  <2> QED BY <2>1, <2>2
<1> QED BY <1>5, <1>6 DEF Known

LEMMA CollectedKept ==
    ASSUME NEW key \in Keys, NEW b \in [Validators -> Attested], NEW mail, NEW n \in Validators,
           NEW gone, NEW after, NEW more, Takes(key, b, mail, n, gone, after, more),
           Posted(key, mail), Collected(key, b, mail)
    PROVE  Collected(key, [b EXCEPT ![n] = after], (mail \ gone) \cup more)
<1> DEFINE bb == [b EXCEPT ![n] = after]
           post == (mail \ gone) \cup more
<1>1. /\ bb[n] = after /\ \A v \in Validators \ {n} : bb[v] = b[v]
      /\ after \in Attested
      /\ \A v \in Validators : b[v] \in Attested /\ bb[v] \in Attested
  BY DEF Takes
<1>2. \A v \in Validators : Extends(b[v], bb[v])
  BY <1>1, ExtendsOrder DEF Takes
<1>3. (\A x \in mail \ gone : x \in post) /\ (\A x \in more : x \in post)
  OBVIOUS
<1> HIDE DEF bb, post
<1> SUFFICES ASSUME NEW m \in Validators, m \in DOMAIN bb[m], NEW g \in AggregatorsOf[key]
             PROVE  \/ Has(bb[g], m, bb[m][m])
                    \/ \E x \in post : x.to = g /\ Has(x.attestations, m, bb[m][m])
  BY DEF Collected, bb, post
<1>4. g \in Validators
  BY KeyTypes
<1>5. CASE m \in DOMAIN b[m] /\ bb[m][m] = b[m][m]
  <2>1. b[m][m] \in Counters
    BY <1>1, <1>5, HasOwn
  <2>2. CASE Has(b[g], m, b[m][m])
    BY <1>1, <1>2, <1>4, <1>5, <2>1, <2>2, HasMore
  <2>3. ASSUME NEW x \in mail, x.to = g, Has(x.attestations, m, b[m][m])
        PROVE  \/ Has(bb[g], m, bb[m][m])
               \/ \E y \in post : y.to = g /\ Has(y.attestations, m, bb[m][m])
    <3>1. CASE x \notin gone
      BY <1>3, <1>5, <2>3, <3>1
    <3>2. CASE x \in gone
      <4>1. x.to = n /\ Extends(x.attestations, after) /\ x.attestations \in Attested
        BY <3>2 DEF Takes, Posted
      <4>2. Has(after, m, b[m][m])
        BY <1>1, <2>1, <2>3, <4>1, HasMore
      <4> QED BY <1>1, <1>5, <2>3, <4>1, <4>2
    <3> QED BY <3>1, <3>2
  <2> QED BY <1>5, <2>2, <2>3 DEF Collected
<1>6. CASE ~(m \in DOMAIN b[m] /\ bb[m][m] = b[m][m])
  <2>1. m = n /\ n \in DOMAIN after /\ bb[m][m] = after[n]
    BY <1>1, <1>6
  <2>2. \A v \in AggregatorsOf[key] \ {n} : \E x \in more : x.to = v /\ Has(x.attestations, n, after[n])
    BY <1>1, <1>6, <2>1 DEF Takes, Attests
  <2>3. Has(after, n, after[n])
    BY <1>1, <2>1, HasOwn
  <2> QED BY <1>1, <1>3, <2>1, <2>2, <2>3
<1> QED BY <1>5, <1>6

\* All of its book is known once an aggregator has published it.
LEMMA PublishedNow ==
    ASSUME NEW key \in Keys, NEW a \in [Validators -> Attested], NEW mail, NEW n \in Validators,
           NEW gone, NEW after \in Attested, NEW more, NEW taken,
           Publishing(key, n, after, taken, more)
    PROVE  Published([a EXCEPT ![n] = taken], (mail \ gone) \cup more, after)
<1> SUFFICES ASSUME NEW m \in DOMAIN after, NEW p \in Validators
             PROVE  \/ Has([a EXCEPT ![n] = taken][p], m, after[m])
                    \/ \E x \in (mail \ gone) \cup more :
                        IsAggregate(x) /\ x.to = p /\ Has(x.attestations, m, after[m])
  BY DEF Published, Known
<1>1. Has(after, m, after[m])
  BY HasOwn
<1>2. CASE p = n
  BY <1>1, <1>2 DEF Publishing
<1>3. CASE p # n
  BY <1>1, <1>3 DEF Publishing
<1> QED BY <1>2, <1>3

LEMMA FlowKept ==
    ASSUME NEW key \in Keys, NEW b \in [Validators -> Attested], NEW a \in [Validators -> Attested],
           NEW mail, NEW n \in Validators, NEW gone, NEW after, NEW more, NEW taken \in Attested,
           Takes(key, b, mail, n, gone, after, more), Orderly(key, b, mail), Extends(a[n], taken),
           Settles(key, b[n], a[n], n, gone, after, taken, more),
           \A v \in Validators : BackedBy(key, b[v], a[v]), Flow(key, b, a, mail)
    PROVE  Flow(key, [b EXCEPT ![n] = after], [a EXCEPT ![n] = taken], (mail \ gone) \cup more)
<1> DEFINE bb == [b EXCEPT ![n] = after]
           aa == [a EXCEPT ![n] = taken]
           post == (mail \ gone) \cup more
<1>1. /\ bb[n] = after /\ \A v \in Validators \ {n} : bb[v] = b[v]
      /\ aa[n] = taken /\ \A v \in Validators \ {n} : aa[v] = a[v]
      /\ after \in Attested /\ Posted(key, mail)
      /\ \A v \in Validators : b[v] \in Attested /\ a[v] \in Attested
  BY DEF Takes, Orderly
<1>2. Collected(key, bb, post)
  BY <1>1, CollectedKept DEF Flow
<1>3. ASSUME NEW m, NEW c \in Counters, Known(a, mail, m, c) PROVE Known(aa, post, m, c)
  BY <1>1, <1>3, KnownKept
<1>4. Publishing(key, n, after, taken, more) => Published(aa, post, after)
  BY <1>1, PublishedNow
<1>5. ASSUME NEW h \in Attested, Published(a, mail, h) PROVE Published(aa, post, h)
  BY <1>3, <1>5, HasOwn DEF Published
<1>6. \A x \in post : x \in mail \/ x \in more
  OBVIOUS
<1> HIDE DEF aa, bb, post
<1>7. ASSUME NEW x \in post, IsAggregate(x) PROVE Published(aa, post, x.attestations)
  <2>1. CASE x \in mail
    BY <1>1, <1>5, <1>7, <2>1 DEF Flow, Posted
  <2>2. CASE x \in more
    BY <1>4, <1>7, <2>2 DEF Settles, Stays, Publishing, Rebuilds
  <2> QED BY <1>6, <2>1, <2>2
<1>8. ASSUME Begun(aa, post) PROVE \E g \in AggregatorsOf[key] : Leader(aa, bb, post, g)
  <2>1. CASE Publishing(key, n, after, taken, more)
    <3>1. Leader(aa, bb, post, n)
      BY <1>1, <1>4, <2>1 DEF Publishing, Leader, AggregateValid, WellFormed
    <3> QED BY <2>1, <3>1 DEF Publishing
  <2>2. CASE ~Publishing(key, n, after, taken, more)
    <3>1. Stays(key, a[n], n, gone, after, taken, more)
          \/ Rebuilds(key, b[n], a[n], gone, after, taken, more)
      BY <2>2 DEF Settles
    <3>2. Begun(a, mail)
      <4>1. CASE Stays(key, a[n], n, gone, after, taken, more)
        <5>1. aa[n] = a[n] /\ \A x \in more : ~IsAggregate(x)
          BY <1>1, <4>1 DEF Stays
        <5> QED BY <1>1, <1>6, <1>8, <5>1 DEF Begun
      <4>2. CASE Rebuilds(key, b[n], a[n], gone, after, taken, more)
        BY <4>2 DEF Rebuilds, Begun, Takes
      <4> QED BY <3>1, <4>1, <4>2
    <3>3. PICK g \in AggregatorsOf[key] : Leader(a, b, mail, g)
      BY <3>2 DEF Flow
    <3>4. g \in Validators
      BY KeyTypes
    <3>5. CASE g # n
      <4>1. aa[g] = a[g] /\ bb[g] = b[g]
        BY <1>1, <3>4, <3>5
      <4> QED BY <1>1, <1>5, <3>3, <3>4, <4>1 DEF Leader
    <3>6. CASE g = n /\ Stays(key, a[n], n, gone, after, taken, more)
      <4>1. a[n] = b[n] /\ a[n] # None /\ Published(a, mail, b[n])
        BY <3>3, <3>6 DEF Leader
      <4>2. AggregateValid(key, b[n])
        BY <4>1 DEF BackedBy
      <4>3. AggregateValid(key, after)
        BY <1>1, <4>2, ValidKept DEF Takes
      <4>4. after = a[n] /\ taken = a[n]
        BY <3>6, <4>3 DEF Stays
      <4> QED BY <1>1, <1>5, <3>6, <4>1, <4>4 DEF Leader
    <3>7. CASE g = n /\ Rebuilds(key, b[n], a[n], gone, after, taken, more)
      <4>1. taken = after /\ after # None
        BY <3>7 DEF Rebuilds, AggregateValid, WellFormed
      <4>2. Published(aa, post, after)
        <5> SUFFICES ASSUME NEW m \in DOMAIN after PROVE Known(aa, post, m, after[m])
          BY DEF Published
        <5>1. after[m] \in Counters
          BY <1>1, HasOwn
        <5>2. CASE m \in DOMAIN b[n] /\ after[m] = b[n][m]
          BY <1>3, <3>3, <3>7, <5>1, <5>2 DEF Leader, Published
        <5>3. CASE \E x \in gone : m \in DOMAIN x.attestations /\ after[m] = x.attestations[m]
          <6>1. PICK x \in gone : m \in DOMAIN x.attestations /\ after[m] = x.attestations[m]
            BY <5>3
          <6>2. x \in mail /\ IsAggregate(x)
            BY <3>7 DEF Rebuilds, Takes
          <6>3. Known(a, mail, m, after[m])
            BY <6>1, <6>2 DEF Flow, Published
          <6> QED BY <1>3, <5>1, <6>3
        <5> QED BY <3>7, <5>2, <5>3 DEF Rebuilds, Merged
      <4> QED BY <1>1, <3>7, <4>1, <4>2 DEF Leader
    <3> QED BY <3>1, <3>5, <3>6, <3>7
  <2> QED BY <2>1, <2>2
<1> QED BY <1>2, <1>7, <1>8 DEF Flow, aa, bb, post

KeyInv(key) ==
    /\ Orderly(key, BookOf(key), MailOf(key))
    /\ losses = 0 => Flow(key, BookOf(key), HeldOf(key), MailOf(key))

SettleInv ==
    /\ EvidenceInv /\ losses \in Nat
    /\ \A key \in Keys : KeyInv(key)

\* Node n merges the attestations of a message: none of its own is news to it.
LEMMA TakesMail ==
    ASSUME NEW key \in Keys, NEW b \in [Validators -> Attested], NEW mail, Orderly(key, b, mail),
           NEW x \in mail, NEW n \in Validators, x.to = n, DOMAIN b[n] \subseteq CommitteeOf[key],
           NEW after, after = InsertAll(b[n], x.attestations), NEW more,
           \A y \in more : y.to \in Validators /\ y.attestations = after /\ AggregateValid(key, after)
    PROVE  Takes(key, b, mail, n, {x}, after, more) /\ Merged(b[n], {x}, after)
<1>1. b[n] \in Attested /\ x.attestations \in Attested /\ DOMAIN x.attestations \subseteq CommitteeOf[key]
  BY DEF Orderly, Posted
<1>2. b[n] \in Holdings(b, mail) /\ x.attestations \in Holdings(b, mail)
  BY DEF Holdings
<1>3. /\ after \in Attested /\ DOMAIN after = DOMAIN b[n] \cup DOMAIN x.attestations
      /\ Extends(b[n], after)
  BY <1>1, InsertAllExtends
<1>4. \A m \in DOMAIN b[n] \cap DOMAIN x.attestations :
        Dominates(b[n][m], x.attestations[m]) \/ Dominates(x.attestations[m], b[n][m])
  BY <1>2 DEF Orderly, Chained
<1>5. /\ Extends(x.attestations, after)
      /\ \A m \in DOMAIN after :
            \/ m \in DOMAIN b[n] /\ after[m] = b[n][m]
            \/ /\ m \in DOMAIN x.attestations /\ after[m] = x.attestations[m]
               /\ ~Has(b[n], m, x.attestations[m])
  BY <1>1, <1>4, InsertChained
<1>6. n \in DOMAIN x.attestations => Has(b[n], n, x.attestations[n])
  BY <1>2 DEF Orderly, Led
<1>7. Merged(b[n], {x}, after)
  BY <1>5 DEF Merged
<1>8. Attests(key, n, b[n], after, more)
  BY <1>5, <1>6 DEF Attests
<1>9. \A m \in DOMAIN after : From(b[n], {x}, n, after, m)
  BY <1>5 DEF From
<1> QED BY <1>1, <1>3, <1>5, <1>7, <1>8, <1>9 DEF Takes

LEMMA KeyTyped ==
    ASSUME EvidenceInv, NEW key \in Keys
    PROVE  /\ BookOf(key) \in [Validators -> Attested] /\ HeldOf(key) \in [Validators -> Attested]
           /\ \A v \in Validators : /\ BookOf(key)[v] = book[v][key]
                                    /\ HeldOf(key)[v] = aggregates[v][key]
                                    /\ BackedBy(key, BookOf(key)[v], HeldOf(key)[v])
<1>1. \A v \in Validators : /\ book[v][key] \in Attested /\ aggregates[v][key] \in Attested
                            /\ BackedBy(key, book[v][key], aggregates[v][key])
  BY BookTypes
<1>2. /\ BookOf(key) \in [Validators -> Attested] /\ HeldOf(key) \in [Validators -> Attested]
      /\ \A v \in Validators : BookOf(key)[v] = book[v][key] /\ HeldOf(key)[v] = aggregates[v][key]
  BY <1>1 DEF BookOf, HeldOf
<1> QED BY <1>1, <1>2

LEMMA KeyStep ==
    ASSUME EvidenceInv, NEW key \in Keys, KeyInv(key), EvidenceInv', EvidenceKept, losses' = losses,
           NEW n \in Validators, NEW gone, NEW after, NEW taken, NEW more,
           Takes(key, BookOf(key), MailOf(key), n, gone, after, more),
           Settles(key, BookOf(key)[n], HeldOf(key)[n], n, gone, after, taken, more),
           book'[n][key] = after, aggregates'[n][key] = taken,
           \A v \in Validators \ {n} : /\ book'[v][key] = book[v][key]
                                       /\ aggregates'[v][key] = aggregates[v][key],
           MailOf(key)' = (MailOf(key) \ gone) \cup more
    PROVE  KeyInv(key)'
<1> DEFINE b == BookOf(key)
           a == HeldOf(key)
           mail == MailOf(key)
<1>1. b \in [Validators -> Attested] /\ a \in [Validators -> Attested]
      /\ \A v \in Validators : BackedBy(key, b[v], a[v])
  BY KeyTyped
<1>2. a' \in [Validators -> Attested] /\ a'[n] = taken
  <2>1. aggregates' \in [Validators -> [Keys -> Attested]]
    BY DEF EvidenceInv, Keys, Attested, Counters
  <2> QED BY <2>1 DEF HeldOf
<1>3. taken \in Attested
  BY <1>2
<1>4. Extends(a[n], taken)
  <2>1. key \in DOMAIN aggregates[n] /\ a[n] = aggregates[n][key]
    BY KeyTyped DEF EvidenceInv
  <2> QED BY <2>1 DEF EvidenceKept
<1>5. b' = [b EXCEPT ![n] = after]
  BY DEF BookOf
<1>6. a' = [a EXCEPT ![n] = taken]
  BY DEF HeldOf
<1>7. Orderly(key, b, mail) /\ (losses = 0 => Flow(key, b, a, mail))
  BY DEF KeyInv
<1> HIDE DEF a, b, mail
<1>8. Orderly(key, [b EXCEPT ![n] = after], (mail \ gone) \cup more)
  BY <1>1, <1>7, OrderlyKept DEF b, mail
<1>9. losses = 0 => Flow(key, [b EXCEPT ![n] = after], [a EXCEPT ![n] = taken], (mail \ gone) \cup more)
  BY <1>1, <1>3, <1>4, <1>7, FlowKept DEF a, b, mail
<1>10. mail' = (mail \ gone) \cup more
  BY DEF mail
<1>11. Orderly(key, b', mail') /\ (losses' = 0 => Flow(key, b', a', mail'))
  BY <1>5, <1>6, <1>8, <1>9, <1>10
<1> QED BY <1>11 DEF KeyInv, a, b, mail

LEMMA KeySame ==
    ASSUME NEW key \in Keys, KeyInv(key), losses' = losses, MailOf(key)' = MailOf(key),
           \A v \in Validators : /\ book'[v][key] = book[v][key]
                                 /\ aggregates'[v][key] = aggregates[v][key]
    PROVE  KeyInv(key)'
<1>1. BookOf(key)' = BookOf(key) /\ HeldOf(key)' = HeldOf(key)
  BY DEF BookOf, HeldOf
<1> QED BY <1>1 DEF KeyInv

LEMMA KeyLost ==
    ASSUME NEW key \in Keys, KeyInv(key), losses' # 0, UNCHANGED book, net' \subseteq net
    PROVE  KeyInv(key)'
<1>1. BookOf(key)' = BookOf(key) /\ MailOf(key)' \subseteq MailOf(key)
  BY DEF BookOf, MailOf
<1>2. Orderly(key, BookOf(key), MailOf(key)')
  BY <1>1 DEF KeyInv, Orderly, Posted, Led, Chained, Holdings
<1> QED BY <1>1, <1>2 DEF KeyInv

LEMMA PublishesWhenNew ==
    ASSUME NEW n, NEW key, NEW after
    PROVE  /\ Publishes(n, key, after) => n \in AggregatorsOf[key] /\ AggregateValid(key, after)
           /\ ~Publishes(n, key, after) /\ n \in AggregatorsOf[key] /\ after # aggregates[n][key]
                => ~AggregateValid(key, after)
BY DEF Publishes, Build, AggregateValid, WellFormed

\* What a node posts: an aggregate, and an attestation of its own.
Alone(member, c) == [m \in {member} |-> c]
Aggregating(n, key, h) == AggregateTo(Validators \ {n}, key, h)
Attesting(n, key, c) == AttestationTo(AggregatorsOf[key] \ {n}, key, n, c)

LEMMA AggregateMail ==
    ASSUME NEW n, NEW key, NEW h
    PROVE  /\ \A x \in Aggregating(n, key, h) :
                IsAggregate(x) /\ x.key = key /\ x.to \in Validators /\ x.attestations = h
           /\ \A p \in Validators \ {n} : \E x \in Aggregating(n, key, h) :
                IsAggregate(x) /\ x.to = p /\ x.attestations = h
<1> SUFFICES ASSUME NEW p \in Validators \ {n}
             PROVE  \E x \in Aggregating(n, key, h) :
                        IsAggregate(x) /\ x.to = p /\ x.attestations = h
  BY DEF Aggregating, AggregateTo, IsAggregate
<1> DEFINE x == [type |-> "ServiceAggregate", key |-> key, attestations |-> h, to |-> p]
<1>1. x \in Aggregating(n, key, h)
  BY DEF Aggregating, AggregateTo
<1>2. IsAggregate(x) /\ x.to = p /\ x.attestations = h
  BY DEF IsAggregate
<1> QED BY <1>1, <1>2

LEMMA AttestationMail ==
    ASSUME NEW n, NEW key, NEW c
    PROVE  /\ \A x \in Attesting(n, key, c) :
                /\ ~IsAggregate(x) /\ x.key = key /\ x.to \in AggregatorsOf[key]
                /\ x.attestations = Alone(n, c)
           /\ \A p \in AggregatorsOf[key] \ {n} :
                \E x \in Attesting(n, key, c) :
                    x.to = p /\ x.attestations = Alone(n, c)
<1> DEFINE own == Alone(n, c)
           posts == Attesting(n, key, c)
<1>1. posts = {[type |-> "ServiceAttestation", key |-> key, attestations |-> own, to |-> p] :
                p \in AggregatorsOf[key] \ {n}}
  BY DEF Attesting, AttestationTo, Alone
<1> HIDE DEF own
<1>2. \A x \in posts : /\ ~IsAggregate(x) /\ x.key = key /\ x.to \in AggregatorsOf[key]
                       /\ x.attestations = own
  BY <1>1 DEF IsAggregate
<1>3. ASSUME NEW p \in AggregatorsOf[key] \ {n}
      PROVE  \E x \in posts : x.to = p /\ x.attestations = own
  <2> DEFINE x == [type |-> "ServiceAttestation", key |-> key, attestations |-> own, to |-> p]
  <2>1. x \in posts
    BY <1>1
  <2>2. x.to = p /\ x.attestations = own
    OBVIOUS
  <2> HIDE DEF posts, x
  <2> QED BY <2>1, <2>2
<1> QED BY <1>2, <1>3 DEF own

LEMMA DeliverSettles ==
    ASSUME SettleInv, EvidenceInv', EvidenceKept, losses' = losses, NEW m \in net,
           IF m.type = "ServiceAttestation" THEN OnAttestation(m.to, m) ELSE OnAggregate(m.to, m),
           NEW key \in Keys
    PROVE  KeyInv(key)'
<1> DEFINE n == m.to
           b == BookOf(key)
           a == HeldOf(key)
           mail == MailOf(key)
           after == InsertAll(book[n][key], m.attestations)
<1>1. /\ n \in Validators /\ m.key \in Keys
      /\ book \in [Validators -> [Keys -> Attested]]
      /\ aggregates \in [Validators -> [Keys -> Attested]]
      /\ EvidenceInv /\ KeyInv(key)
  BY DEF SettleInv, EvidenceInv, Sent
<1>2. CASE m.key # key
  <2>1. PICK bk, held, more :
            /\ book' = [book EXCEPT ![n][m.key] = bk]
            /\ aggregates' = [aggregates EXCEPT ![n][m.key] = held]
            /\ net' = (net \ {m}) \cup more /\ \A x \in more : x.key = m.key
    <3>1. CASE m.type = "ServiceAttestation"
      <4> DEFINE valid == \A member \in DOMAIN m.attestations : AttestationValid(m.key, member)
                 new == IF valid THEN InsertAll(book[n][m.key], m.attestations) ELSE book[n][m.key]
                 publish == Publishes(n, m.key, new)
                 posts == IF publish THEN Aggregating(n, m.key, new) ELSE {}
      <4>1. /\ book' = [book EXCEPT ![n][m.key] = new]
            /\ aggregates' = [aggregates EXCEPT ![n][m.key] = IF publish THEN new ELSE @]
            /\ net' = (net \ {m}) \cup posts
        BY <3>1 DEF OnAttestation, Aggregating
      <4>2. \A x \in posts : x.key = m.key
        BY AggregateMail
      <4> HIDE DEF new, publish, posts
      <4> QED BY <4>1, <4>2
    <3>2. CASE m.type # "ServiceAttestation"
      <4> DEFINE new == IF AggregateValid(m.key, m.attestations)
                        THEN InsertAll(book[n][m.key], m.attestations) ELSE book[n][m.key]
                 merged == Merge(m.key, new, aggregates[n][m.key])
                 posts == {}
      <4>1. /\ book' = [book EXCEPT ![n][m.key] = new]
            /\ aggregates' = [aggregates EXCEPT ![n][m.key] = merged]
            /\ net' = (net \ {m}) \cup posts /\ \A x \in posts : x.key = m.key
        BY <3>2 DEF OnAggregate
      <4> HIDE DEF new, merged, posts
      <4> QED BY <4>1
    <3> QED BY <3>1, <3>2
  <2>2. \A v \in Validators : book'[v][key] = book[v][key] /\ aggregates'[v][key] = aggregates[v][key]
    BY <1>1, <1>2, <2>1
  <2>3. MailOf(key)' = MailOf(key)
    BY <1>2, <2>1 DEF MailOf
  <2> QED BY <1>1, <2>2, <2>3, KeySame
<1>3. CASE m.key = key
  <2>1. /\ m \in mail /\ Orderly(key, b, mail)
        /\ b \in [Validators -> Attested] /\ b[n] = book[n][key] /\ a[n] = aggregates[n][key]
        /\ DOMAIN b[n] \subseteq CommitteeOf[key]
    BY <1>1, <1>3, KeyTyped, BookTypes DEF MailOf, KeyInv
  <2>2. /\ m.attestations \in Attested /\ DOMAIN m.attestations \subseteq CommitteeOf[key]
        /\ IsAggregate(m) => AggregateValid(key, m.attestations)
    BY <2>1 DEF Orderly, Posted
  <2> DEFINE publish == Publishes(n, key, after)
             more == IF publish THEN Aggregating(n, key, after) ELSE {}
  <2>3. CASE m.type = "ServiceAttestation"
    <3> DEFINE taken == IF publish THEN after ELSE aggregates[n][key]
    <3>1. /\ book' = [book EXCEPT ![n][key] = after]
          /\ aggregates' = [aggregates EXCEPT ![n][key] = taken]
          /\ net' = (net \ {m}) \cup more
      BY <1>3, <2>2, <2>3 DEF OnAttestation, AttestationValid, Aggregating
    <3>2. MailOf(key)' = (MailOf(key) \ {m}) \cup more
      BY <1>3, <3>1, AggregateMail DEF MailOf
    <3>3. publish => n \in AggregatorsOf[key] /\ AggregateValid(key, after)
      BY PublishesWhenNew
    <3>4. ~publish /\ n \in AggregatorsOf[key] /\ after # a[n] => ~AggregateValid(key, after)
      BY <2>1, PublishesWhenNew
    <3>5. \A x \in more : /\ x.to \in Validators /\ x.attestations = after /\ publish
                          /\ IsAggregate(x)
      BY AggregateMail
    <3>6. publish => \A p \in Validators \ {n} : \E x \in more :
                        IsAggregate(x) /\ x.to = p /\ x.attestations = after
      BY AggregateMail
    <3>7. (publish => taken = after) /\ (~publish => taken = a[n] /\ more = {})
      BY <2>1
    <3>8. /\ book'[n][key] = after /\ aggregates'[n][key] = taken
          /\ \A v \in Validators \ {n} : /\ book'[v][key] = book[v][key]
                                         /\ aggregates'[v][key] = aggregates[v][key]
      BY <1>1, <3>1
    <3>9. after = InsertAll(b[n], m.attestations)
      BY <2>1
    <3> HIDE DEF n, a, b, mail, after, publish, more, taken
    <3>10. Takes(key, b, mail, n, {m}, after, more)
      BY <1>1, <2>1, <3>3, <3>5, <3>9, TakesMail DEF n
    <3>11. Settles(key, b[n], a[n], n, {m}, after, taken, more)
      <4>1. CASE publish
        BY <3>3, <3>5, <3>6, <3>7, <4>1 DEF Settles, Publishing
      <4>2. CASE ~publish
        BY <2>3, <3>4, <3>7, <4>2 DEF Settles, Stays, IsAggregate
      <4> QED BY <4>1, <4>2
    <3> QED BY <1>1, <3>2, <3>8, <3>10, <3>11, KeyStep DEF a, b, mail
  <2>4. CASE m.type # "ServiceAttestation"
    <3>1. IsAggregate(m) /\ AggregateValid(key, m.attestations)
      BY <2>2, <2>4 DEF IsAggregate
    <3>2. /\ book' = [book EXCEPT ![n][key] = after]
          /\ aggregates' = [aggregates EXCEPT ![n][key] = Merge(key, after, aggregates[n][key])]
          /\ net' = net \ {m}
      BY <1>3, <2>4, <3>1 DEF OnAggregate
    <3>3. after = InsertAll(b[n], m.attestations)
      BY <2>1
    <3>4. MailOf(key)' = (MailOf(key) \ {m}) \cup {}
      BY <1>3, <3>2 DEF MailOf
    <3> DEFINE none == {}
    <3>5. \A y \in none : y.to \in Validators /\ y.attestations = after /\ AggregateValid(key, after)
      OBVIOUS
    <3> HIDE DEF n, a, b, mail, after, none
    <3>10. Takes(key, b, mail, n, {m}, after, none) /\ Merged(b[n], {m}, after)
      BY <1>1, <2>1, <3>3, <3>5, TakesMail DEF n
    <3>6. AggregateValid(key, after)
      BY <2>2, <3>1, <3>10, ValidKept DEF Takes
    <3>7. Merge(key, after, aggregates[n][key]) = after
      BY <3>6 DEF Merge, InsertAggregate, Build, AggregateValid, WellFormed
    <3>8. /\ book'[n][key] = after /\ aggregates'[n][key] = after
          /\ \A v \in Validators \ {n} : /\ book'[v][key] = book[v][key]
                                         /\ aggregates'[v][key] = aggregates[v][key]
      BY <1>1, <3>2, <3>7
    <3>9. Settles(key, b[n], a[n], n, {m}, after, after, {})
      BY <3>1, <3>6, <3>10 DEF Settles, Rebuilds
    <3>11. Takes(key, b, mail, n, {m}, after, {})
      BY <3>10 DEF none
    <3> QED BY <1>1, <3>4, <3>8, <3>9, <3>11, KeyStep DEF a, b, mail
  <2> QED BY <2>3, <2>4
<1> QED BY <1>2, <1>3

LEMMA RestartSettles ==
    ASSUME SettleInv, EvidenceInv', EvidenceKept, NEW n \in MayRestart, Restart(n), NEW key \in Keys
    PROVE  KeyInv(key)'
<1> DEFINE b == BookOf(key)
           a == HeldOf(key)
           mail == MailOf(key)
<1>1. /\ n \in Validators /\ EvidenceInv /\ KeyInv(key)
      /\ aggregates \in [Validators -> [Keys -> Attested]]
      /\ UNCHANGED <<book, net, losses>>
      /\ aggregates' = [aggregates EXCEPT ![n] = RestoreEvidence(book[n], aggregates[n])]
  BY ServiceEvidenceAssumption DEF SettleInv, EvidenceInv, Restart
<1>2. /\ aggregates'[n][key] = IF aggregates[n][key] = None THEN None
                               ELSE Merge(key, book[n][key], None)
      /\ \A v \in Validators \ {n} : aggregates'[v] = aggregates[v]
      /\ MailOf(key)' = MailOf(key)
  BY <1>1 DEF RestoreEvidence, MailOf
<1>3. CASE aggregates[n][key] = None
  <2>1. \A v \in Validators : aggregates'[v][key] = aggregates[v][key]
    BY <1>2, <1>3
  <2> QED BY <1>1, <1>2, <2>1, KeySame
<1>4. CASE aggregates[n][key] # None
  <2>1. /\ b \in [Validators -> Attested] /\ b[n] = book[n][key] /\ a[n] = aggregates[n][key]
        /\ BackedBy(key, b[n], a[n]) /\ b[n] \in Attested
    BY <1>1, KeyTyped
  <2>2. AggregateValid(key, b[n]) /\ DOMAIN b[n] \subseteq CommitteeOf[key]
    BY <1>4, <2>1 DEF BackedBy
  <2>3. aggregates'[n][key] = b[n]
    BY <1>2, <1>4, <2>1, <2>2 DEF Merge, InsertAggregate, Build, AggregateValid, WellFormed
  <2> HIDE DEF a, b, mail
  <2>4. Takes(key, b, mail, n, {}, b[n], {})
    BY <2>1, <2>2, ExtendsOrder DEF Takes, From, Attests
  <2>5. Settles(key, b[n], a[n], n, {}, b[n], b[n], {})
    BY <1>4, <2>1, <2>2 DEF Settles, Rebuilds, Merged
  <2>6. MailOf(key)' = (MailOf(key) \ {}) \cup {}
    BY <1>2
  <2> QED BY <1>1, <1>2, <2>1, <2>3, <2>4, <2>5, <2>6, KeyStep DEF a, b, mail
<1> QED BY <1>3, <1>4

LEMMA EmitSettles ==
    ASSUME SettleInv, EvidenceInv', EvidenceKept, losses' = losses, NEW n \in Validators,
           NEW keys \in SUBSET Keys, \A key \in keys : n \in CommitteeOf[key],
           EmitAttestations(n, keys), NEW key \in Keys
    PROVE  KeyInv(key)'
<1> DEFINE b == BookOf(key)
           a == HeldOf(key)
           mail == MailOf(key)
           after == Insert(book[n][key], n, Observed(n, key))
           publish == Publishes(n, key, after)
           taken == IF publish THEN after ELSE aggregates[n][key]
           attesting == IF after # book[n][key]
                        THEN Attesting(n, key, after[n]) ELSE {}
           publishing == IF publish THEN Aggregating(n, key, after) ELSE {}
           more == attesting \cup publishing
<1>1. /\ EvidenceInv /\ KeyInv(key)
      /\ book \in [Validators -> [Keys -> Attested]]
      /\ aggregates \in [Validators -> [Keys -> Attested]]
  BY DEF SettleInv, EvidenceInv
<1>2. \A v \in Validators \ {n} : book'[v] = book[v] /\ aggregates'[v] = aggregates[v]
  BY <1>1 DEF EmitAttestations
<1> DEFINE put == [k \in keys |-> Insert(book[n][k], n, Observed(n, k))]
           changed == {k \in keys : put[k] # book[n][k]}
           complete == {k \in keys : Publishes(n, k, put[k])}
           news == (UNION {Attesting(n, k, put[k][n]) : k \in changed})
                   \cup UNION {Aggregating(n, k, put[k]) : k \in complete}
<1>5. \A x : x \in news <=>
            \/ \E k \in changed : x \in Attesting(n, k, put[k][n]) /\ x.key = k
            \/ \E k \in complete : x \in Aggregating(n, k, put[k]) /\ x.key = k
  <2>1. \A k : /\ \A x \in Attesting(n, k, put[k][n]) : x.key = k
               /\ \A x \in Aggregating(n, k, put[k]) : x.key = k
    BY AggregateMail, AttestationMail
  <2> HIDE DEF put, changed, complete
  <2> QED BY <2>1
<1>6. net' = net \cup news
  BY DEF EmitAttestations, Attesting, Aggregating
<1> HIDE DEF news
<1>3. CASE key \notin keys
  <2>1. book'[n][key] = book[n][key] /\ aggregates'[n][key] = aggregates[n][key]
    BY <1>1, <1>3 DEF EmitAttestations
  <2>2. MailOf(key)' = MailOf(key)
    <3>1. \A x \in news : x.key # key
      BY <1>3, <1>5
    <3> QED BY <1>6, <3>1 DEF MailOf
  <2> QED BY <1>1, <1>2, <2>1, <2>2, KeySame
<1>4. CASE key \in keys
  <2>1. book'[n][key] = after /\ aggregates'[n][key] = taken
    BY <1>1, <1>4 DEF EmitAttestations
  <2>2. MailOf(key)' = (MailOf(key) \ {}) \cup more
    <3>1. \A x : x \in more => x.key = key
      BY AggregateMail, AttestationMail
    <3>2. \A x : x \in news /\ x.key = key <=> x \in more
      BY <1>4, <1>5, <3>1
    <3> HIDE DEF more
    <3> QED BY <1>6, <3>1, <3>2 DEF MailOf
  <2>3. /\ b \in [Validators -> Attested] /\ b[n] = book[n][key] /\ a[n] = aggregates[n][key]
        /\ b[n] \in Attested /\ DOMAIN b[n] \subseteq CommitteeOf[key] /\ n \in CommitteeOf[key]
    BY <1>1, <1>4, KeyTyped, BookTypes
  <2>4. Observed(n, key) \in Counters
    BY ObservedType DEF SettleInv, EvidenceInv
  <2>5. /\ after \in Attested /\ DOMAIN after = DOMAIN b[n] \cup {n} /\ Extends(b[n], after)
    BY <2>3, <2>4, InsertExtends
  <2>6. \A v \in DOMAIN b[n] \ {n} : after[v] = b[n][v]
    BY <2>3 DEF Insert, Put
  <2>7. after # b[n] \/ (n \in DOMAIN b[n] /\ after[n] = b[n][n])
    BY <2>5
  <2>8. /\ publish => n \in AggregatorsOf[key] /\ AggregateValid(key, after)
        /\ ~publish /\ n \in AggregatorsOf[key] /\ after # a[n] => ~AggregateValid(key, after)
    BY <2>3, PublishesWhenNew
  <2>9. \A x \in publishing : x.to \in Validators /\ x.attestations = after /\ publish
    BY AggregateMail
  <2>10. publish => \A p \in Validators \ {n} : \E x \in publishing :
                        IsAggregate(x) /\ x.to = p /\ x.attestations = after
    BY AggregateMail
  <2>11. \A x \in attesting : /\ ~IsAggregate(x) /\ x.to \in AggregatorsOf[key]
                              /\ x.attestations = Alone(n, after[n])
    BY AttestationMail
  <2>12. after # b[n] => \A g \in AggregatorsOf[key] \ {n} : \E x \in attesting :
                            x.to = g /\ x.attestations = Alone(n, after[n])
    BY <2>3, AttestationMail
  <2>13. /\ (publish => taken = after) /\ (~publish => taken = a[n] /\ publishing = {})
         /\ \A x : x \in more <=> x \in attesting \/ x \in publishing
    BY <2>3
  <2> HIDE DEF a, b, mail, after, publish, taken, attesting, publishing, more
  <2>14. after[n] \in Counters /\ n \in DOMAIN after /\ Has(after, n, after[n])
    BY <2>5, HasOwn
  <2>15. LET own == Alone(n, after[n])
         IN  own \in Attested /\ DOMAIN own = {n} /\ own[n] = after[n] /\ Has(own, n, after[n])
    <3> DEFINE own == Alone(n, after[n])
    <3>1. own \in [{n} -> Counters] /\ DOMAIN own = {n} /\ own[n] = after[n]
      BY <2>14 DEF Alone
    <3> HIDE DEF own
    <3>2. own \in Attested
      BY <3>1, AttestedShape
    <3>3. Has(own, n, after[n])
      BY <2>14, <3>1 DEF Has
    <3> QED BY <3>1, <3>2, <3>3 DEF own
  <2>16. Takes(key, b, mail, n, {}, after, more)
    <3>1. \A v \in DOMAIN after : From(b[n], {}, n, after, v)
      BY <2>5, <2>6 DEF From
    <3>2. Attests(key, n, b[n], after, more)
      BY <2>7, <2>12, <2>13, <2>15 DEF Attests
    <3>3. ASSUME NEW x \in more
          PROVE  /\ x.to \in Validators /\ x.attestations \in Attested
                 /\ \A v \in DOMAIN x.attestations : v \in DOMAIN after /\ x.attestations[v] = after[v]
                 /\ IsAggregate(x) => AggregateValid(key, x.attestations)
      <4>1. CASE x \in publishing
        BY <2>5, <2>8, <2>9, <4>1
      <4>2. CASE x \in attesting
        BY <2>11, <2>14, <2>15, <4>2, KeyTypes
      <4> QED BY <2>13, <4>1, <4>2
    <3> QED BY <2>3, <2>5, <3>1, <3>2, <3>3 DEF Takes
  <2>17. Settles(key, b[n], a[n], n, {}, after, taken, more)
    <3>1. CASE publish
      BY <2>8, <2>9, <2>10, <2>11, <2>13, <3>1 DEF Settles, Publishing
    <3>2. CASE ~publish
      BY <2>8, <2>11, <2>13, <3>2 DEF Settles, Stays
    <3> QED BY <3>1, <3>2
  <2> QED BY <1>1, <1>2, <2>1, <2>2, <2>16, <2>17, KeyStep DEF a, b, mail
<1> QED BY <1>3, <1>4

LEMMA SettleStep ==
    ASSUME SettleInv, [Next]_vars
    PROVE  SettleInv'
<1>1. EvidenceInv /\ losses \in Nat /\ \A key \in Keys : KeyInv(key)
  BY DEF SettleInv
<1>2. EvidenceInv' /\ EvidenceKept
  BY <1>1, EvidenceStep
<1>3. ASSUME losses' \in Nat, \A key \in Keys : KeyInv(key)' PROVE SettleInv'
  BY <1>2, <1>3 DEF SettleInv, Keys
<1>4. ASSUME UNCHANGED <<book, aggregates, net, losses>> PROVE SettleInv'
  <2>1. \A key \in Keys : MailOf(key)' = MailOf(key)
    BY <1>4 DEF MailOf
  <2>2. \A key \in Keys : KeyInv(key)'
    BY <1>1, <1>4, <2>1, KeySame
  <2> QED BY <1>1, <1>3, <1>4, <2>2
<1>5. ASSUME NEW n \in Validators, Tick(n) PROVE SettleInv'
  <2> DEFINE keys == AttestKeys(n, AttestableEpochs(EpochForSlot(now)))
  <2>1. /\ UNCHANGED losses
        /\ EmitAttestations(n, keys) \/ UNCHANGED <<book, aggregates, net>>
    BY <1>5 DEF Tick
  <2>2. keys \in SUBSET Keys /\ \A key \in keys : n \in CommitteeOf[key]
    BY DEF AttestKeys
  <2> HIDE DEF keys
  <2>3. CASE EmitAttestations(n, keys)
    <3>1. \A key \in Keys : KeyInv(key)'
      BY <1>2, <2>1, <2>2, <2>3, EmitSettles
    <3> QED BY <1>1, <1>3, <2>1, <3>1
  <2> QED BY <1>4, <2>1, <2>3
<1>6. ASSUME NEW m \in net, Deliver(m) PROVE SettleInv'
  <2>1. /\ UNCHANGED losses
        /\ IF m.type = "ServiceAttestation" THEN OnAttestation(m.to, m) ELSE OnAggregate(m.to, m)
    BY <1>6 DEF Deliver
  <2>2. \A key \in Keys : KeyInv(key)'
    BY <1>2, <2>1, DeliverSettles
  <2> QED BY <1>1, <1>3, <2>1, <2>2
<1>7. ASSUME NEW m \in net, Lose(m) PROVE SettleInv'
  <2>1. losses' = losses + 1 /\ UNCHANGED book /\ net' \subseteq net
    BY <1>7 DEF Lose
  <2>2. losses' \in Nat /\ losses' # 0
    BY <1>1, <2>1
  <2>3. \A key \in Keys : KeyInv(key)'
    BY <1>1, <2>1, <2>2, KeyLost
  <2> QED BY <1>3, <2>2, <2>3
<1>8. ASSUME NEW n \in MayRestart, Restart(n) PROVE SettleInv'
  <2>1. \A key \in Keys : KeyInv(key)'
    BY <1>2, <1>8, RestartSettles
  <2> QED BY <1>1, <1>3, <1>8, <2>1 DEF Restart
<1>9. CASE Elapse
  BY <1>4, <1>9 DEF Elapse
<1>10. ASSUME NEW w \in Validators, NEW s \in Subjects, NEW t \in Slots, NEW c \in Classes,
              IssueReceipt(w, s, t, c)
       PROVE  SettleInv'
  BY <1>4, <1>10 DEF IssueReceipt
<1>11. ASSUME NEW n \in MayRestart, ApplySnapshot(n) PROVE SettleInv'
  BY <1>4, <1>11 DEF ApplySnapshot
<1>12. CASE UNCHANGED vars
  BY <1>4, <1>12 DEF vars
<1> QED BY <1>5, <1>6, <1>7, <1>8, <1>9, <1>10, <1>11, <1>12 DEF Next

LEMMA SettleStarts ==
    ASSUME Init
    PROVE  SettleInv
<1>1. EvidenceInv
  BY EvidenceStarts
<1>2. ASSUME NEW key \in Keys PROVE KeyInv(key)
  <2>1. /\ MailOf(key) = {}
        /\ \A n \in Validators : BookOf(key)[n] = None /\ HeldOf(key)[n] = None
    BY DEF Init, MailOf, BookOf, HeldOf
  <2>2. \A h \in Holdings(BookOf(key), MailOf(key)) : DOMAIN h = {}
    BY <2>1, NoneAttested DEF Holdings
  <2>3. Orderly(key, BookOf(key), MailOf(key))
    BY <2>1, <2>2 DEF Orderly, Posted, Led, Chained
  <2>4. Flow(key, BookOf(key), HeldOf(key), MailOf(key))
    BY <2>1, NoneAttested DEF Flow, Collected, Begun
  <2> QED BY <2>3, <2>4 DEF KeyInv
<1> QED BY <1>1, <1>2 DEF SettleInv, Init

\* With nothing lost and nothing on its way, the aggregate of every validator is the book
\* of the aggregator that published all of it.
LEMMA SettledAgree ==
    ASSUME SettleInv, net = {}, losses = 0, NEW key \in Keys, NEW p \in Validators, NEW q \in Validators
    PROVE  aggregates[p][key] = aggregates[q][key]
<1> DEFINE b == BookOf(key)
           a == HeldOf(key)
           mail == MailOf(key)
<1>1. /\ b \in [Validators -> Attested] /\ a \in [Validators -> Attested]
      /\ \A v \in Validators : BackedBy(key, b[v], a[v])
      /\ a[p] = aggregates[p][key] /\ a[q] = aggregates[q][key]
  BY KeyTyped DEF SettleInv
<1>2. mail = {}
  BY DEF MailOf
<1>3. Orderly(key, b, mail) /\ Flow(key, b, a, mail)
  BY DEF SettleInv, KeyInv
<1> HIDE DEF a, b, mail
<1>4. CASE \A v \in Validators : a[v] = None
  BY <1>1, <1>4
<1>5. CASE \E v \in Validators : a[v] # None
  <2>1. PICK g \in AggregatorsOf[key] : Leader(a, b, mail, g)
    BY <1>3, <1>5 DEF Flow, Begun
  <2>2. g \in Validators /\ b[g] \in Attested
    BY <1>1, KeyTypes
  <2>3. ASSUME NEW v \in Validators PROVE a[v] = b[g]
    <3>1. a[v] \in Attested /\ b[v] \in Attested /\ Extends(a[v], b[v])
      BY <1>1 DEF BackedBy
    <3>2. Extends(b[g], a[v])
      BY <1>2, <2>1 DEF Leader, Published, Known, Has, Extends
    <3>3. ASSUME NEW m \in DOMAIN b[v] PROVE m \in DOMAIN b[g] /\ Dominates(b[g][m], b[v][m])
      <4>1. b[v] \in Holdings(b, mail)
        BY DEF Holdings
      <4>2. Has(b[m], m, b[v][m]) /\ m \in Validators /\ b[v][m] \in Counters
        BY <1>3, <3>1, <4>1, HasOwn DEF Orderly, Led
      <4>3. m \in DOMAIN b[m] /\ b[m] \in Attested
        BY <1>1, <4>2 DEF Has
      <4>4. Has(b[g], m, b[m][m])
        BY <1>2, <1>3, <4>2, <4>3 DEF Flow, Collected
      <4>5. b[m][m] \in Counters /\ b[g][m] \in Counters /\ m \in DOMAIN b[g]
        BY <2>2, <4>3, <4>4, HasOwn DEF Has
      <4> QED BY <4>2, <4>4, <4>5, DominatesOrder DEF Has
    <3>4. Extends(b[v], b[g])
      BY <3>3 DEF Extends
    <3>5. Extends(a[v], b[g])
      BY <2>2, <3>1, <3>4, ExtendsOrder
    <3> QED BY <2>2, <3>1, <3>2, <3>5, ExtendsBoth
  <2> QED BY <1>1, <2>3
<1> QED BY <1>4, <1>5

\* Attestations settle to one result whatever the order of their delivery and whoever
\* restarts: when nothing was lost and nothing is on its way, all nodes hold the same
\* aggregates (merge_service_aggregate, maybe_publish_service_aggregate).
THEOREM AggregatesAlwaysSettle == Spec => []AggregatesSettle
<1>1. Init => SettleInv
  BY SettleStarts
<1>2. SettleInv /\ [Next]_vars => SettleInv'
  BY SettleStep
<1>3. SettleInv => AggregatesSettle
  <2> SUFFICES ASSUME SettleInv, net = {}, losses = 0, NEW n \in Validators, NEW p \in Validators
               PROVE  aggregates[n] = aggregates[p]
    BY DEF AggregatesSettle
  <2>1. aggregates[n] \in [Keys -> Attested] /\ aggregates[p] \in [Keys -> Attested]
    BY DEF SettleInv, EvidenceInv
  <2>2. \A key \in Keys : aggregates[n][key] = aggregates[p][key]
    BY SettledAgree
  <2> QED BY <2>1, <2>2
<1> QED BY <1>1, <1>2, <1>3, PTL DEF Spec

-----------------------------------------------------------------------------
(* Numbers.                                                                 *)

LEMMA GrowsWith ==
    ASSUME NEW a \in Nat, NEW x \in Int, NEW y \in Int, x <= y
    PROVE  a * x <= a * y
OBVIOUS

LEMMA DivideBounds ==
    ASSUME NEW len \in Nat \ {0}, NEW t \in Nat
    PROVE  /\ t \div len \in Nat
           /\ len * (t \div len) <= t /\ t < len * (t \div len) + len
OBVIOUS

LEMMA DivideUnique ==
    ASSUME NEW len \in Nat \ {0}, NEW t \in Nat, NEW q \in Nat, len * q <= t, t < len * q + len
    PROVE  t \div len = q
<1> DEFINE d == t \div len
<1>1. d \in Nat /\ len * d <= t /\ t < len * d + len
  BY DivideBounds
<1> HIDE DEF d
<1>2. CASE d < q
  <2>1. len * (d + 1) <= len * q
    BY <1>1, <1>2, GrowsWith
  <2>2. len * (d + 1) = len * d + len
    BY <1>1
  <2>3. len * d \in Int /\ len * q \in Int
    BY <1>1
  <2> QED BY <1>1, <2>1, <2>2, <2>3
<1>3. CASE q < d
  <2>1. len * (q + 1) <= len * d
    BY <1>1, <1>3, GrowsWith
  <2>2. len * (q + 1) = len * q + len
    BY <1>1
  <2>3. len * d \in Int /\ len * q \in Int
    BY <1>1
  <2> QED BY <1>1, <2>1, <2>2, <2>3
<1>4. d = q
  BY <1>1, <1>2, <1>3
<1> QED BY <1>4 DEF d

LEMMA LeastOfTwo ==
    ASSUME NEW a \in Int, NEW b \in Int
    PROVE  Min({a, b}) = IF a <= b THEN a ELSE b
<1> DEFINE m == IF a <= b THEN a ELSE b
<1>1. m \in {a, b} /\ \A y \in {a, b} : m <= y
  OBVIOUS
<1>2. \A x \in {a, b} : (\A y \in {a, b} : x <= y) => x = m
  OBVIOUS
<1> HIDE DEF m
<1>3. Min({a, b}) = m
  BY <1>1, <1>2 DEF Min
<1> QED BY <1>3 DEF m

LEMMA GreatestOfTwo ==
    ASSUME NEW a \in Int, NEW b \in Int
    PROVE  Max({a, b}) = IF a >= b THEN a ELSE b
<1> DEFINE m == IF a >= b THEN a ELSE b
<1>1. m \in {a, b} /\ \A y \in {a, b} : m >= y
  OBVIOUS
<1>2. \A x \in {a, b} : (\A y \in {a, b} : x >= y) => x = m
  OBVIOUS
<1> HIDE DEF m
<1>3. Max({a, b}) = m
  BY <1>1, <1>2 DEF Max
<1> QED BY <1>3 DEF m

-----------------------------------------------------------------------------
(* The committees of the schedule.                                          *)

\* What a sum of two places is modulo the number of places.
LEMMA TurnedIndex ==
    ASSUME NEW n \in Nat \ {0}, NEW x \in 0 .. 2 * n - 1
    PROVE  x % n = IF x < n THEN x ELSE x - n
<1>1. CASE x < n
  BY <1>1
<1>2. CASE x >= n
  BY <1>2
<1> QED BY <1>1, <1>2

\* An epoch's order lists every validator once.
LEMMA OrderListsOnce ==
    ASSUME NEW e \in DOMAIN Rotation
    PROVE  \A i, j \in 1 .. Cardinality(Validators) : Rotated(e)[i] = Rotated(e)[j] => i = j
<1> DEFINE n == Cardinality(Validators)
           order == Rotated(e)
<1>1. Validators # {} /\ IsFiniteSet(Validators)
  BY ServiceEvidenceAssumption DEF ScheduleAssumption
<1>2. n \in Nat /\ order \in [1 .. n -> Validators]
      /\ \A v \in Validators : \E i \in 1 .. n : order[i] = v
  BY <1>1, OrderLists
<1>3. IsFiniteSet(1 .. n) /\ Cardinality(1 .. n) = n
  BY <1>2, FS_Interval
<1> HIDE DEF order
<1>4. order \in Surjection(1 .. n, Validators)
  BY <1>2 DEF Surjection
<1>5. order \in Injection(1 .. n, Validators)
  BY <1>3, <1>4, FS_SurjSameCardinalityImpliesInj
<1> QED BY <1>5 DEF Injection, IsInjective, order

\* A committee has as many members as the genesis asks for and the localnet has others.
LEMMA CommitteeSize ==
    ASSUME NEW e \in DOMAIN Rotation, NEW v \in Validators
    PROVE  /\ Committee(v, e) \in SUBSET (Validators \ {v})
           /\ IsFiniteSet(Committee(v, e))
           /\ Cardinality(Committee(v, e)) =
                 IF WitnessCount <= Cardinality(Validators) - 1 THEN WitnessCount
                 ELSE Cardinality(Validators) - 1
<1> DEFINE n == Cardinality(Validators)
           near == IF WitnessCount <= n - 1 THEN WitnessCount ELSE n - 1
           order == Rotated(e)
           p == CHOOSE i \in DOMAIN order : order[i] = v
           next(o) == ((p - 1 + o) % n) + 1
<1>1. n \in Nat \ {0} /\ WitnessCount \in Nat
  <2>1. n \in Nat /\ n # 0
    BY ServiceEvidenceAssumption, FS_CardinalityType, FS_EmptySet DEF ScheduleAssumption
  <2> QED BY <2>1, ServiceEvidenceAssumption DEF ScheduleAssumption
<1>2. /\ order \in [1 .. n -> Validators]
      /\ \A i, j \in 1 .. n : order[i] = order[j] => i = j
      /\ \A u \in Validators : \E i \in 1 .. n : order[i] = u
  BY OrderLists, OrderListsOnce
<1>3. DOMAIN order = 1 .. n /\ Len(order) = n
  <2> HIDE DEF order, n
  <2>1. order \in Seq(Validators) /\ DOMAIN order = 1 .. n
    BY <1>1, <1>2
  <2> QED BY <1>1, <2>1
<1>4. p \in 1 .. n /\ order[p] = v
  <2> HIDE DEF order, n
  <2> QED BY <1>2, <1>3
<1>5. Committee(v, e) = {order[next(o)] : o \in 1 .. near}
  <2>1. Min({WitnessCount, n - 1}) = near
    BY <1>1, LeastOfTwo
  <2>2. Committee(v, e) = {order[((p - 1 + o) % Len(order)) + 1] :
                              o \in 1 .. Min({WitnessCount, Len(order) - 1})}
    BY DEF Committee, Witnesses
  <2> HIDE DEF order, p, n, near
  <2> QED BY <1>3, <2>1, <2>2
<1> HIDE DEF order, p, n
<1>6. near \in 0 .. n - 1
  BY <1>1
<1> HIDE DEF near
<1>7. \A o \in 1 .. near : next(o) = IF p + o <= n THEN p + o ELSE p + o - n
  <2> SUFFICES ASSUME NEW o \in 1 .. near
               PROVE  next(o) = IF p + o <= n THEN p + o ELSE p + o - n
    OBVIOUS
  <2>1. PICK x \in 0 .. 2 * n - 1 : x = p - 1 + o
    BY <1>1, <1>4, <1>6
  <2>2. x % n = IF x < n THEN x ELSE x - n
    BY <1>1, TurnedIndex
  <2>3. next(o) = (x % n) + 1
    BY <2>1
  <2> HIDE DEF next
  <2> QED BY <1>1, <1>4, <1>6, <2>1, <2>2, <2>3
<1> HIDE DEF next
<1>8. \A o \in 1 .. near : next(o) \in 1 .. n /\ next(o) # p
  BY <1>1, <1>4, <1>6, <1>7
<1>9. \A o, q \in 1 .. near : next(o) = next(q) => o = q
  BY <1>1, <1>4, <1>6, <1>7
<1>10. Committee(v, e) \in SUBSET (Validators \ {v})
  BY <1>2, <1>4, <1>5, <1>8
<1> DEFINE f == [o \in 1 .. near |-> order[next(o)]]
<1>11. f \in Bijection(1 .. near, Committee(v, e))
  <2>1. f \in [1 .. near -> Committee(v, e)]
    BY <1>5
  <2>2. \A o, q \in 1 .. near : f[o] = f[q] => o = q
    BY <1>2, <1>8, <1>9
  <2>3. \A m \in Committee(v, e) : \E o \in 1 .. near : f[o] = m
    BY <1>5
  <2> HIDE DEF f
  <2> QED BY <2>1, <2>2, <2>3 DEF Bijection, Injection, Surjection, IsInjective
<1>12. IsFiniteSet(1 .. near) /\ Cardinality(1 .. near) = near
  BY <1>6, FS_Interval
<1>13. IsFiniteSet(Committee(v, e)) /\ Cardinality(Committee(v, e)) = near
  BY <1>11, <1>12, FS_Bijection DEF ExistsBijection
<1> QED BY <1>10, <1>13 DEF near, n

\* In a localnet of five validators or more with a witness count of four or more, every
\* service committee of every epoch still has its threshold (service_committee_threshold)
\* when any one of its members is silent: what QuorumSurvivesOneSilent says of small
\* localnets, for all of them and for every rotation of the schedule.
THEOREM CommitteesSurviveSilence ==
    ASSUME Cardinality(Validators) >= 5, WitnessCount >= 4,
           NEW e \in DOMAIN Rotation, NEW v \in Validators, NEW silent
    PROVE  Cardinality(Committee(v, e) \ {silent}) >= CommitteeThreshold(v, e)
<1> DEFINE C == Committee(v, e)
           s == Cardinality(C)
<1>1. IsFiniteSet(C) /\ s \in Nat /\ s >= 4
  <2>1. Cardinality(Validators) \in Nat /\ WitnessCount \in Nat
    BY ServiceEvidenceAssumption, FS_CardinalityType DEF ScheduleAssumption
  <2> QED BY <2>1, CommitteeSize, FS_CardinalityType
<1> HIDE DEF C
<1>2. Cardinality(C \ {silent}) >= s - 1
  <2>1. Cardinality(C \ {silent}) = IF silent \in C THEN Cardinality(C) - 1 ELSE Cardinality(C)
    BY <1>1, FS_RemoveElement, Zenon
  <2> QED BY <1>1, <2>1
<1>3. CommitteeThreshold(v, e) = (s * 2) \div 3 + 1
  BY <1>1 DEF CommitteeThreshold, C
<1> HIDE DEF s
<1>4. (s * 2) \div 3 + 1 <= s - 1
  BY <1>1
<1>5. Cardinality(C \ {silent}) \in Nat
  BY <1>1, FS_RemoveElement, FS_CardinalityType
<1>6. Cardinality(C \ {silent}) >= CommitteeThreshold(v, e)
  BY <1>1, <1>2, <1>3, <1>4, <1>5
<1> QED BY <1>6 DEF C

-----------------------------------------------------------------------------
(* The score of full service.                                               *)

\* The counters of full service: every window, every expected receipt and peer, no penalty.
FullService ==
    {c \in Counters : /\ c.windows > 0 /\ c.expected > 0 /\ c.expectedPeers > 0
                      /\ c.uptime >= c.windows /\ c.timely >= c.expected
                      /\ c.peers >= c.expectedPeers
                      /\ c.failed = 0 /\ c.invalid = 0}

\* A divisor of the common denominator takes its full share of it.
LEMMA FullShare ==
    ASSUME NEW n \in Nat, NEW of \in Nat \ {0}, NEW rest \in Nat, n >= of
    PROVE  Capped(n, of) * ((of * rest) \div of) = of * rest
<1>1. Capped(n, of) = of
  BY LeastOfTwo DEF Capped
<1>2. PICK t \in Nat : t = of * rest
  OBVIOUS
<1>3. t \div of = rest
  BY <1>2, DivideUnique
<1> QED BY <1>1, <1>2, <1>3

ProperWeights(weights, threshold) ==
    /\ weights \in [{"uptime", "delivery", "diversity", "penalty"} -> Nat]
    /\ threshold \in 0 .. 100
    /\ weights.uptime + weights.delivery + weights.diversity >= threshold

LEMMA Distributes ==
    ASSUME NEW a \in Nat, NEW b \in Nat, NEW c \in Nat, NEW d \in Nat
    PROVE  a * d + b * d + c * d = (a + b + c) * d
OBVIOUS

\* Full service scores at least every threshold that the weights can reach.
LEMMA FullScores ==
    ASSUME NEW c \in FullService, NEW weights, NEW threshold, ProperWeights(weights, threshold)
    PROVE  ~Below(Score(c, weights), threshold)
<1> DEFINE w == c.windows
           x == c.expected
           p == c.expectedPeers
           den == Max({c.windows, 1}) * Max({c.expected, 1}) * Max({c.expectedPeers, 1})
           part(n, of) == IF of = 0 THEN 0 ELSE Capped(n, of) * (den \div of)
           raw == weights.uptime * part(c.uptime, c.windows)
                   + weights.delivery * part(c.timely, c.expected)
                   + weights.diversity * part(c.peers, c.expectedPeers)
                   - weights.penalty * part(c.failed + c.invalid, Max({c.windows, 1}))
           sum == weights.uptime + weights.delivery + weights.diversity
<1>1. /\ w \in Nat \ {0} /\ x \in Nat \ {0} /\ p \in Nat \ {0}
      /\ c.uptime \in Nat /\ c.uptime >= w /\ c.timely \in Nat /\ c.timely >= x
      /\ c.peers \in Nat /\ c.peers >= p
      /\ c.failed = 0 /\ c.invalid = 0
  BY DEF FullService, Counters, CounterFields
<1>2. Max({c.windows, 1}) = w /\ Max({c.expected, 1}) = x /\ Max({c.expectedPeers, 1}) = p
  BY <1>1, GreatestOfTwo
<1>3. PICK d \in Nat \ {0} : d = w * x * p
  <2>1. w * x \in Nat \ {0}
    BY <1>1
  <2>2. (w * x) * p \in Nat \ {0}
    BY <1>1, <2>1
  <2> QED BY <2>2
<1>4. den = d
  BY <1>2, <1>3
<1>5. /\ \E rest \in Nat : d = w * rest
      /\ \E rest \in Nat : d = x * rest
      /\ \E rest \in Nat : d = p * rest
  <2>1. x * p \in Nat /\ w * p \in Nat /\ w * x \in Nat
    BY <1>1
  <2>2. d = w * (x * p) /\ d = x * (w * p) /\ d = p * (w * x)
    BY <1>1, <1>3
  <2> QED BY <2>1, <2>2
<1> HIDE DEF den, w, x, p
<1>6. /\ part(c.uptime, w) = d /\ part(c.timely, x) = d /\ part(c.peers, p) = d
  <2>1. ASSUME NEW n \in Nat, NEW of \in Nat \ {0}, n >= of, \E rest \in Nat : d = of * rest
        PROVE  part(n, of) = d
    <3>1. PICK rest \in Nat : d = of * rest
      BY <2>1
    <3>2. Capped(n, of) * ((of * rest) \div of) = of * rest
      BY <2>1, FullShare
    <3> QED BY <1>4, <3>1, <3>2
  <2> QED BY <1>1, <1>5, <2>1
<1>7. part(c.failed + c.invalid, w) = 0
  <2>1. Capped(0, w) = 0
    BY <1>1, LeastOfTwo DEF Capped
  <2>2. d \div w \in Nat
    BY <1>1, DivideBounds
  <2>3. c.failed + c.invalid = 0
    BY <1>1
  <2>4. part(0, w) = 0
    BY <1>1, <1>4, <2>1, <2>2
  <2> QED BY <2>3, <2>4
<1>8. /\ weights.uptime \in Nat /\ weights.delivery \in Nat /\ weights.diversity \in Nat
      /\ weights.penalty \in Nat /\ threshold \in 0 .. 100 /\ sum \in Nat /\ sum >= threshold
  BY DEF ProperWeights
<1> HIDE DEF part
<1>9. raw = weights.uptime * d + weights.delivery * d + weights.diversity * d
  BY <1>1, <1>2, <1>6, <1>7, <1>8 DEF w, x, p
<1>10. raw = sum * d /\ raw \in Nat
  BY <1>8, <1>9, Distributes
<1> HIDE DEF raw, sum
<1>11. threshold * d <= raw /\ threshold * d <= 100 * d /\ 100 * d \in Nat /\ threshold * d \in Nat
  <2>1. d * threshold <= d * sum /\ d * threshold <= d * 100
    BY <1>8, GrowsWith
  <2> QED BY <1>8, <1>10, <2>1
<1>12. /\ Max({0, Min({raw, 100 * den})}) \in Int /\ threshold * den \in Int
       /\ Max({0, Min({raw, 100 * den})}) >= threshold * den
  <2>1. PICK least \in Nat : least = Min({raw, 100 * d}) /\ least >= threshold * d
    BY <1>10, <1>11, LeastOfTwo
  <2>2. Max({0, least}) = IF 0 >= least THEN 0 ELSE least
    BY GreatestOfTwo
  <2> QED BY <1>4, <1>11, <2>1, <2>2
<1>13. Score(c, weights) = <<Max({0, Min({raw, 100 * den})}), den>>
  BY DEF Score, raw, part, den
<1> QED BY <1>12, <1>13 DEF Below

\* A sum of full counters over a non-empty set is full.
LEMMA FullAdds ==
    ASSUME NEW c \in FullService
    PROVE  /\ AddCounters(NoCounters, c) \in FullService
           /\ \A d \in FullService : AddCounters(d, c) \in FullService
<1>1. \A f \in CounterFields : c[f] \in Nat
  BY DEF FullService, Counters
<1>2. AddCounters(NoCounters, c) = c
  <2>1. c = [f \in CounterFields |-> c[f]]
    BY DEF FullService, Counters
  <2>2. \A f \in CounterFields : NoCounters[f] + c[f] = c[f]
    BY <1>1 DEF NoCounters
  <2> QED BY <2>1, <2>2 DEF AddCounters
<1>3. ASSUME NEW d \in FullService PROVE AddCounters(d, c) \in FullService
  <2>1. \A f \in CounterFields : d[f] \in Nat /\ AddCounters(d, c)[f] = d[f] + c[f]
    BY DEF FullService, Counters, AddCounters
  <2>2. AddCounters(d, c) \in Counters
    BY <1>1, <2>1 DEF Counters, AddCounters
  <2> QED BY <1>1, <2>1, <2>2 DEF FullService, CounterFields
<1> QED BY <1>2, <1>3

LEMMA FullScales ==
    ASSUME NEW c \in FullService, NEW k \in Nat \ {0}
    PROVE  ScaleCounters(c, k) \in FullService
<1>1. \A f \in CounterFields : c[f] \in Nat /\ ScaleCounters(c, k)[f] = c[f] * k
  BY DEF FullService, Counters, ScaleCounters
<1>2. ScaleCounters(c, k) \in Counters
  BY <1>1 DEF Counters, ScaleCounters
<1>3. \A a, b \in Nat : (a >= b => a * k >= b * k) /\ (a > 0 => a * k > 0)
  OBVIOUS
<1> HIDE DEF ScaleCounters
<1>4. /\ c.windows > 0 /\ c.expected > 0 /\ c.expectedPeers > 0
      /\ c.uptime >= c.windows /\ c.timely >= c.expected /\ c.peers >= c.expectedPeers
      /\ c.failed = 0 /\ c.invalid = 0
  BY DEF FullService
<1>5. \A f \in {"windows", "expected", "expectedPeers", "uptime", "timely", "peers", "failed", "invalid"} :
        c[f] \in Nat /\ ScaleCounters(c, k)[f] = c[f] * k
  BY <1>1 DEF CounterFields
<1> QED BY <1>2, <1>3, <1>4, <1>5 DEF FullService

First(S) == CHOOSE x \in S : TRUE
IsFold(f, b, S) ==
    f = [T \in SUBSET S |->
            IF T = {} THEN NoCounters ELSE AddCounters(f[T \ {First(T)}], b[First(T)])]

LEMMA FoldExists ==
    ASSUME NEW S, IsFiniteSet(S), NEW b
    PROVE  \E f : IsFold(f, b, S)
<1> DEFINE All == SUBSET S
           Part(f, T) == IF T = {} THEN NoCounters ELSE AddCounters(f[T \ {First(T)}], b[First(T)])
           Good(f, k) == /\ f = [T \in All |-> f[T]]
                         /\ \A T \in All : Cardinality(T) <= k => f[T] = Part(f, T)
           N == {k \in Nat : \E f : Good(f, k)}
<1>0. \A T \in All : /\ IsFiniteSet(T) /\ Cardinality(T) \in Nat
                     /\ Cardinality(T) <= Cardinality(S)
  BY FS_Subset, FS_CardinalityType
<1>1. 0 \in N
  <2> DEFINE f == [T \in All |-> NoCounters]
  <2>1. ASSUME NEW T \in All, Cardinality(T) <= 0 PROVE T = {}
    BY <1>0, <2>1, FS_EmptySet
  <2>2. Good(f, 0)
    BY <2>1
  <2> QED BY <2>2
<1>2. ASSUME NEW k \in N PROVE k + 1 \in N
  <2>1. k \in Nat
    OBVIOUS
  <2>2. PICK f : Good(f, k)
    OBVIOUS
  <2> DEFINE g == [T \in All |-> Part(f, T)]
  <2>3. ASSUME NEW T \in All, Cardinality(T) <= k + 1 PROVE g[T] = Part(g, T)
    <3> DEFINE x == First(T)
               R == T \ {x}
    <3>1. CASE T = {}
      BY <3>1
    <3>2. CASE T # {}
      <4>1. x \in T
        BY <3>2 DEF First
      <4>2. R \in All /\ Cardinality(R) <= k
        BY <1>0, <2>1, <2>3, <4>1, FS_RemoveElement
      <4>3. f[R] = Part(f, R)
        BY <2>2, <4>2
      <4>4. g[R] = f[R]
        BY <4>2, <4>3
      <4>5. g[T] = AddCounters(f[R], b[x]) /\ Part(g, T) = AddCounters(g[R], b[x])
        BY <3>2
      <4> QED BY <4>4, <4>5
    <3> QED BY <3>1, <3>2
  <2>4. g = [T \in All |-> g[T]]
    OBVIOUS
  <2>5. Good(g, k + 1)
    BY <2>3, <2>4
  <2>6. k + 1 \in Nat
    BY <2>1
  <2> HIDE DEF g, Good
  <2> QED BY <2>5, <2>6
<1>3. N = Nat
  <2> HIDE DEF N
  <2> QED BY <1>1, <1>2, NumbersReached DEF N
<1>4. Cardinality(S) \in N
  BY <1>3, FS_CardinalityType
<1>5. PICK f : Good(f, Cardinality(S))
  BY <1>4
<1>6. \A T \in All : f[T] = Part(f, T)
  BY <1>0, <1>5
<1>7. f = [T \in All |-> Part(f, T)]
  BY <1>5, <1>6
<1> QED BY <1>7 DEF IsFold

LEMMA FoldFull ==
    ASSUME NEW S, IsFiniteSet(S), S # {}, NEW b \in [S -> FullService], NEW f, IsFold(f, b, S)
    PROVE  f[S] \in FullService
<1> DEFINE N == {k \in Nat : \A T \in SUBSET S : Cardinality(T) = k =>
                    f[T] \in FullService \/ (T = {} /\ f[T] = NoCounters)}
<1>0. \A T \in SUBSET S : IsFiniteSet(T) /\ Cardinality(T) \in Nat
  BY FS_Subset, FS_CardinalityType
<1>1. 0 \in N
  <2>1. ASSUME NEW T \in SUBSET S, Cardinality(T) = 0 PROVE T = {} /\ f[T] = NoCounters
    <3>1. T = {}
      BY <1>0, <2>1, FS_EmptySet
    <3> QED BY <3>1 DEF IsFold
  <2> QED BY <2>1
<1>2. ASSUME NEW k \in N PROVE k + 1 \in N
  <2>1. k \in Nat /\ k + 1 \in Nat
    OBVIOUS
  <2>2. ASSUME NEW T \in SUBSET S, Cardinality(T) = k + 1 PROVE f[T] \in FullService
    <3> DEFINE x == First(T)
               R == T \ {x}
    <3>1. T # {}
      <4>1. Cardinality({}) = 0
        BY FS_EmptySet
      <4>2. Cardinality(T) # 0
        BY <2>1, <2>2
      <4> QED BY <4>1, <4>2, Zenon
    <3>2. x \in T
      BY <3>1 DEF First
    <3>3. Cardinality(R) = (k + 1) - 1
      BY <1>0, <2>2, <3>2, FS_RemoveElement
    <3>4. R \in SUBSET S /\ Cardinality(R) = k
      BY <2>1, <3>3
    <3>5. f[R] \in FullService \/ f[R] = NoCounters
      BY <3>4
    <3>6. f[T] = AddCounters(f[R], b[x])
      BY <3>1 DEF IsFold
    <3>7. b[x] \in FullService
      BY <3>2
    <3> HIDE DEF x, R
    <3> QED BY <3>5, <3>6, <3>7, FullAdds
  <2> QED BY <2>1, <2>2
<1>3. N = Nat
  <2> HIDE DEF N
  <2> QED BY <1>1, <1>2, NumbersReached DEF N
<1> QED BY <1>0, <1>3

\* What members who all attest full service attest together is full service.
LEMMA AggregateFull ==
    ASSUME NEW M, IsFiniteSet(M), M # {}, NEW a \in [M -> FullService]
    PROVE  AggregateCounters(a) \in FullService
<1> DEFINE f == CHOOSE g : IsFold(g, a, M)
<1>1. IsFold(f, a, M)
  BY FoldExists
<1>2. DOMAIN a = M
  OBVIOUS
<1>3. AggregateCounters(a) = f[M]
  BY <1>2 DEF AggregateCounters, FoldSet, MapThenFoldSet, IsFold, First
<1> HIDE DEF f
<1> QED BY <1>1, <1>3, FoldFull

\* A bounded set of natural numbers has a greatest element.
LEMMA GreatestNumber ==
    ASSUME NEW k \in Nat, NEW T \in SUBSET (0 .. k), T # {}
    PROVE  Max(T) \in T
<1> DEFINE R == {k - x : x \in T}
<1>1. R \in SUBSET Nat /\ R # {}
  <2>1. \A x \in T : k - x \in Nat
    OBVIOUS
  <2>2. PICK z \in T : TRUE
    OBVIOUS
  <2>3. k - z \in R
    OBVIOUS
  <2> QED BY <2>1, <2>3
<1>2. PICK m \in R : \A y \in R : m <= y
  BY <1>1, LeastNumber
<1>3. PICK x \in T : m = k - x
  BY <1>2
<1>4. \A y \in T : x >= y
  <2> SUFFICES ASSUME NEW y \in T PROVE x >= y
    OBVIOUS
  <2>1. k - y \in R
    OBVIOUS
  <2>2. k - x <= k - y
    BY <1>2, <1>3, <2>1
  <2> QED BY <2>2
<1> QED BY <1>4 DEF Max

\* The epochs a score is made of: finitely many followed epochs with an aggregate, each with
\* a positive weight.
LEMMA EvidenceEpochs ==
    ASSUME NEW held, NEW subject, NEW epoch \in Nat, NEW weight, weight = Evidence(held, subject, epoch)
    PROVE  /\ IsFiniteSet(DOMAIN weight)
           /\ \A e \in DOMAIN weight : /\ e \in Followed /\ held[<<subject, e>>] # None
                                       /\ weight[e] \in Nat \ {0}
<1> DEFINE window == IF Window >= 1 THEN Window ELSE 1
           first == IF epoch - window >= 0 THEN epoch - window ELSE 0
           recent == {e \in Followed \cap (first .. epoch - 1) : held[<<subject, e>>] # None}
           known == {e \in Followed \cap (0 .. epoch - 1) : held[<<subject, e>>] # None}
<1>1. window \in Nat /\ first \in Nat
  BY ServiceEvidenceAssumption
<1>2. Max({Window, 1}) = window
  BY ServiceEvidenceAssumption, GreatestOfTwo
<1>3. Max({epoch - Max({Window, 1}), 0}) = first
  <2>1. PICK x \in Int : x = epoch - window
    BY <1>1
  <2>2. Max({x, 0}) = IF x >= 0 THEN x ELSE 0
    BY GreatestOfTwo
  <2> HIDE DEF window
  <2> QED BY <1>2, <2>1, <2>2
<1>4. weight = IF recent # {} THEN [e \in recent |-> e - first + 1]
               ELSE [e \in LatestBefore(held, subject, epoch) |-> 1]
  <2> HIDE DEF first, window
  <2> QED BY <1>3 DEF Evidence
<1>5. LatestBefore(held, subject, epoch) = IF known = {} THEN {} ELSE {Max(known)}
  BY DEF LatestBefore
<1>6. CASE recent # {}
  <2>1. DOMAIN weight = recent /\ \A e \in recent : weight[e] = e - first + 1
    BY <1>4, <1>6
  <2>2. IsFiniteSet(first .. epoch - 1)
    <3>1. PICK x \in Int : x = epoch - 1
      OBVIOUS
    <3> HIDE DEF first
    <3> QED BY <1>1, <3>1, FS_Interval
  <2>3. recent \in SUBSET (first .. epoch - 1)
    OBVIOUS
  <2>4. IsFiniteSet(recent)
    <3> HIDE DEF recent, first
    <3> QED BY <2>2, <2>3, FS_Subset
  <2>5. \A e \in recent : e \in Followed /\ held[<<subject, e>>] # None
    OBVIOUS
  <2>6. \A e \in recent : e - first + 1 \in Nat \ {0}
    BY <1>1, <2>3
  <2> HIDE DEF recent, first
  <2> QED BY <2>1, <2>4, <2>5, <2>6
<1>7. CASE recent = {}
  <2>1. weight = [e \in LatestBefore(held, subject, epoch) |-> 1]
    BY <1>4, <1>7
  <2>2. CASE known = {}
    <3>1. DOMAIN weight = {}
      BY <1>5, <2>1, <2>2
    <3> QED BY <3>1, FS_EmptySet
  <2>3. CASE known # {}
    <3>1. DOMAIN weight = {Max(known)} /\ weight[Max(known)] = 1
      BY <1>5, <2>1, <2>3
    <3>2. known \in SUBSET (0 .. epoch)
      OBVIOUS
    <3>3. Max(known) \in known
      BY <2>3, <3>2, GreatestNumber
    <3>4. IsFiniteSet(DOMAIN weight)
      BY <3>1, FS_Singleton
    <3> QED BY <3>1, <3>3, <3>4
  <2> QED BY <2>2, <2>3
<1> QED BY <1>6, <1>7

AllFull(attestations) == \A m \in DOMAIN attestations : attestations[m] \in FullService

LEMMA HeldFull ==
    ASSUME NEW a \in Attested, a # None, AllFull(a)
    PROVE  AggregateCounters(a) \in FullService
<1>1. DOMAIN a \in SUBSET Validators /\ a = [m \in DOMAIN a |-> a[m]]
  BY AttestedShape
<1>2. IsFiniteSet(DOMAIN a)
  BY <1>1, ServiceEvidenceAssumption, FS_Subset DEF ScheduleAssumption
<1>3. DOMAIN a # {}
  <2> SUFFICES ASSUME DOMAIN a = {} PROVE FALSE
    OBVIOUS
  <2>1. a = None
    BY AttestedShape DEF None
  <2> QED BY <2>1
<1>4. a \in [DOMAIN a -> FullService]
  BY <1>1 DEF AllFull
<1> QED BY <1>2, <1>3, <1>4, AggregateFull

\* Where all evidence is of full service the score is not below the threshold.
LEMMA ConfirmedFull ==
    ASSUME ServedInTime, NEW held \in [Keys -> Attested], \A key \in Keys : AllFull(held[key]),
           NEW subject \in Subjects, NEW epoch \in Nat,
           DOMAIN Evidence(held, subject, epoch) # {}
    PROVE  ~Below(ConfirmedScore(held, subject, epoch), Threshold)
<1> DEFINE weight == Evidence(held, subject, epoch)
           D == DOMAIN weight
           Scaled(e) == ScaleCounters(AggregateCounters(held[<<subject, e>>]), weight[e])
           b == [e \in D |-> Scaled(e)]
           IsOwn(g) == g = [T \in SUBSET D |->
                                IF T = {} THEN NoCounters
                                ELSE AddCounters(g[T \ {First(T)}], Scaled(First(T)))]
           f == CHOOSE g : IsOwn(g)
<1>1. /\ IsFiniteSet(D) /\ D # {}
      /\ \A e \in D : e \in Followed /\ held[<<subject, e>>] # None /\ weight[e] \in Nat \ {0}
  <2> HIDE DEF weight
  <2> QED BY EvidenceEpochs DEF weight
<1>2. b \in [D -> FullService]
  <2>1. ASSUME NEW e \in D PROVE Scaled(e) \in FullService
    <3>1. <<subject, e>> \in Keys
      BY <1>1 DEF Keys
    <3>2. AggregateCounters(held[<<subject, e>>]) \in FullService
      BY <1>1, <3>1, HeldFull
    <3>3. weight[e] \in Nat \ {0}
      BY <1>1
    <3> HIDE DEF weight
    <3> QED BY <3>2, <3>3, FullScales
  <2> HIDE DEF Scaled, D
  <2> QED BY <2>1
<1>3. \A g : IsOwn(g) <=> IsFold(g, b, D)
  <2> HIDE DEF Scaled, D, weight
  <2>1. \A T \in SUBSET D : T # {} => First(T) \in D /\ b[First(T)] = Scaled(First(T))
    BY DEF First
  <2> HIDE DEF b
  <2> SUFFICES ASSUME NEW g PROVE IsOwn(g) <=> IsFold(g, b, D)
    OBVIOUS
  <2>2. [T \in SUBSET D |-> IF T = {} THEN NoCounters
                             ELSE AddCounters(g[T \ {First(T)}], Scaled(First(T)))]
        = [T \in SUBSET D |-> IF T = {} THEN NoCounters
                             ELSE AddCounters(g[T \ {First(T)}], b[First(T)])]
    BY <2>1
  <2> QED BY <2>2 DEF IsFold
<1>4. \E g : IsFold(g, b, D)
  <2> HIDE DEF b, D
  <2> QED BY <1>1, FoldExists
<1>5. IsOwn(f)
  <2> HIDE DEF IsOwn
  <2> QED BY <1>3, <1>4
<1>6. IsFold(f, b, D)
  <2> HIDE DEF IsOwn, f
  <2> QED BY <1>3, <1>5
<1>7. f[D] \in FullService
  <2> HIDE DEF f, b, D
  <2> QED BY <1>1, <1>2, <1>6, FoldFull
<1>8. ConfirmedScore(held, subject, epoch) = Score(f[D], Weights)
  BY DEF ConfirmedScore, FoldSet, MapThenFoldSet, First
<1>9. ProperWeights(Weights, Threshold)
  BY ServiceEvidenceAssumption DEF ProperWeights, ServedInTime
<1> HIDE DEF f, D
<1> QED BY <1>7, <1>8, <1>9, FullScores

\* The gate does not refuse a subject of which all evidence is of full service.
LEMMA GateOpen ==
    ASSUME ServedInTime, NEW held \in [Keys -> Attested], \A key \in Keys : AllFull(held[key]),
           NEW subject \in Subjects, NEW epoch \in Nat
    PROVE  Gate(held, subject, epoch) # "reject"
BY ConfirmedFull DEF Gate

-----------------------------------------------------------------------------
(* A subject that serves in time is never refused.                          *)

\* Every witness has the receipts of the heartbeats that were due up to a slot.
Heard(r, last) ==
    \A w \in Validators, s \in Subjects, t \in Slots :
        /\ t <= last /\ t <= LastService /\ EpochForSlot(t) \in Followed
        /\ w \in CommitteeOf[<<s, EpochForSlot(t)>>]
        => <<s, t, "Heartbeat">> \in r[w]

LEMMA NothingOwed ==
    ASSUME NEW last \in Int, Owed(last) = {}
    PROVE  Heard(receipts, last)
<1> SUFFICES ASSUME NEW w \in Validators, NEW s \in Subjects, NEW t \in Slots,
                    t <= last, t <= LastService, EpochForSlot(t) \in Followed,
                    w \in CommitteeOf[<<s, EpochForSlot(t)>>], <<s, t, "Heartbeat">> \notin receipts[w]
             PROVE  FALSE
  BY DEF Heard
<1>1. t <= Min({last, LastService})
  <2>1. Min({last, LastService}) = IF last <= LastService THEN last ELSE LastService
    BY ServiceEvidenceAssumption, LeastOfTwo
  <2> QED BY <2>1
<1>2. <<w, s, t>> \in Owed(last)
  BY <1>1 DEF Owed
<1> QED BY <1>2

LEMMA KeyParts ==
    ASSUME NEW key \in Keys
    PROVE  key[1] \in Subjects /\ key[2] \in Followed /\ key[2] \in Nat /\ key = <<key[1], key[2]>>
<1>1. EpochForSlot(MaxSlot) \in Nat
  BY ServiceEvidenceAssumption, DivideBounds DEF ScheduleAssumption, EpochForSlot
<1>2. key[1] \in Subjects /\ key[2] \in Followed /\ key = <<key[1], key[2]>>
  BY DEF Keys
<1>3. key[2] \in 0 .. EpochForSlot(MaxSlot)
  BY <1>2, ServiceEvidenceAssumption DEF Epochs
<1> QED BY <1>1, <1>2, <1>3

\* A member of a committee that has heard every heartbeat of an epoch attests full service.
LEMMA HeardAllFull ==
    ASSUME NEW n \in Validators, NEW key \in Keys, receipts \in [Validators -> SUBSET Events],
           \A t \in Slots : EpochForSlot(t) = key[2] => <<key[1], t, "Heartbeat">> \in receipts[n],
           (key[2] + 1) * SlotsPerEpoch <= MaxSlot + 1
    PROVE  Observed(n, key) \in FullService
<1> DEFINE mine == {r \in receipts[n] : r[1] = key[1] /\ EpochForSlot(r[2]) = key[2]}
           beats == {r \in mine : r[3] = "Heartbeat"}
           len == SlotsPerEpoch
           start == len * key[2]
           g == [i \in 1 .. len |-> <<key[1], start + i - 1, "Heartbeat">>]
<1>1. len \in Nat \ {0} /\ MaxSlot \in Nat
  BY ServiceEvidenceAssumption DEF ScheduleAssumption
<1>2. key[1] \in Subjects /\ key[2] \in Nat
  BY KeyParts
<1>3. start \in Nat /\ start + len <= MaxSlot + 1
  BY <1>1, <1>2
<1>4. \A i \in 1 .. len : start + i - 1 \in Slots /\ EpochForSlot(start + i - 1) = key[2]
  <2> SUFFICES ASSUME NEW i \in 1 .. len
               PROVE  start + i - 1 \in Slots /\ EpochForSlot(start + i - 1) = key[2]
    OBVIOUS
  <2>1. PICK t \in Nat : t = start + i - 1
    BY <1>1, <1>3
  <2>2. t <= MaxSlot /\ start <= t /\ t < start + len
    BY <1>1, <1>3, <2>1
  <2>3. t \div len = key[2]
    BY <1>1, <1>2, <2>2, DivideUnique
  <2> HIDE DEF start
  <2> QED BY <1>1, <2>1, <2>2, <2>3 DEF Slots, EpochForSlot
<1>5. \A i \in 1 .. len : <<key[1], start + i - 1, "Heartbeat">> \in beats
  BY <1>4
<1>6. g \in Injection(1 .. len, beats)
  <2>1. g \in [1 .. len -> beats]
    BY <1>5
  <2>2. \A i, j \in 1 .. len : g[i] = g[j] => i = j
    <3> SUFFICES ASSUME NEW i \in 1 .. len, NEW j \in 1 .. len, g[i] = g[j] PROVE i = j
      OBVIOUS
    <3>1. start + i - 1 = start + j - 1
      OBVIOUS
    <3> HIDE DEF start
    <3> QED BY <1>3, <3>1
  <2> HIDE DEF g
  <2> QED BY <2>1, <2>2 DEF Injection, IsInjective
<1>7. mine \in SUBSET Events /\ beats \in SUBSET mine
  OBVIOUS
<1>8. Observed(n, key) = CountersFromObserver(Cardinality(beats), Cardinality(mine))
  BY DEF Observed
<1> HIDE DEF mine, beats, g
<1>9. IsFiniteSet(mine) /\ IsFiniteSet(beats) /\ Cardinality(beats) <= Cardinality(mine)
  BY <1>7, EventsFinite, FS_Subset
<1>10. Cardinality(mine) \in Nat /\ Cardinality(beats) \in Nat
  BY <1>9, FS_CardinalityType
<1>11. Cardinality(1 .. len) = len
  BY <1>1, FS_Interval
<1>12. Cardinality(1 .. len) <= Cardinality(beats)
  BY <1>6, <1>9, FS_Injection
<1>13. Cardinality(beats) >= len /\ Cardinality(mine) >= len
  BY <1>1, <1>9, <1>10, <1>11, <1>12
<1>14. PICK h \in Nat, r \in Nat : h = Cardinality(beats) /\ r = Cardinality(mine) /\ h >= len /\ r >= len
  BY <1>10, <1>13
<1>15. Observed(n, key) \in Counters
  BY ObservedType
<1>16. CountersFromObserver(h, r) \in Counters
  BY <1>8, <1>14, <1>15
<1>17. LET c == CountersFromObserver(h, r)
       IN  /\ c.uptime = h /\ c.windows = len /\ c.timely = r /\ c.expected = len
           /\ c.peers = 1 /\ c.expectedPeers = 1 /\ c.failed = 0 /\ c.invalid = 0
  <2>1. r > 0
    BY <1>1, <1>14
  <2> QED BY <2>1 DEF CountersFromObserver, NoCounters, CounterFields
<1>18. CountersFromObserver(h, r) \in FullService
  BY <1>1, <1>14, <1>16, <1>17 DEF FullService
<1> QED BY <1>8, <1>14, <1>18

\* When an epoch is attested, all that its subject was heard of has been receipted
\* (refresh_recent_service_attestations goes up to three epochs back).
LEMMA AttestsFull ==
    ASSUME ServedInTime, receipts \in [Validators -> SUBSET Events], now \in Slots,
           Heard(receipts, now - 1 - Delay), NEW n \in Validators,
           NEW key \in AttestKeys(n, AttestableEpochs(EpochForSlot(now)))
    PROVE  Observed(n, key) \in FullService
<1> DEFINE len == SlotsPerEpoch
           e == key[2]
<1>1. len \in Nat \ {0} /\ MaxSlot \in Nat /\ now \in Nat /\ now <= MaxSlot /\ Delay \in Nat
      /\ Delay <= 2 * len /\ LastService \in Int
  BY ServiceEvidenceAssumption DEF ScheduleAssumption, Slots, ServedInTime
<1>2. key \in Keys /\ n \in CommitteeOf[key] /\ e \in AttestableEpochs(EpochForSlot(now))
  BY DEF AttestKeys
<1>3. key[1] \in Subjects /\ e \in Followed /\ e \in Nat /\ key = <<key[1], e>>
  BY <1>2, KeyParts
<1>4. e <= EpochForSlot(now) - 3
  <2>1. PICK epoch \in Nat : epoch = EpochForSlot(now)
    BY <1>1, DivideBounds DEF EpochForSlot
  <2>2. Max({Window, 1}) \in Int
    BY ServiceEvidenceAssumption, GreatestOfTwo
  <2>3. PICK x \in Int : x = epoch - 3 - (Max({Window, 1}) - 1)
    BY <2>2
  <2>4. Max({x, 0}) \in Int
    BY GreatestOfTwo
  <2>5. e \in Max({x, 0}) .. epoch - 3
    BY <1>2, <2>1, <2>3 DEF AttestableEpochs
  <2> HIDE DEF e
  <2> QED BY <2>1, <2>4, <2>5
<1> HIDE DEF e
<1>5. len * (e + 3) <= now
  <2> DEFINE d == now \div len
  <2>1. d \in Nat /\ len * d <= now
    BY <1>1, DivideBounds
  <2>2. e + 3 <= d
    BY <1>3, <1>4, <2>1 DEF EpochForSlot
  <2> HIDE DEF d
  <2>3. len * (e + 3) <= len * d
    BY <1>1, <1>3, <2>1, <2>2, GrowsWith
  <2> QED BY <1>1, <1>3, <2>1, <2>3
<1>6. PICK start \in Nat : start = len * e
  BY <1>1, <1>3
<1>7. start + 3 * len <= now /\ (e + 1) * len = start + len
  BY <1>1, <1>3, <1>5, <1>6
<1>8. start + len <= LastService + 1
  BY <1>3, <1>7 DEF ServedInTime
<1>9. ASSUME NEW t \in Slots, EpochForSlot(t) = e
      PROVE  <<key[1], t, "Heartbeat">> \in receipts[n]
  <2>1. t \in Nat
    BY DEF Slots
  <2>2. t < len * e + len
    BY <1>1, <1>9, <2>1, DivideBounds DEF EpochForSlot
  <2>3. t < start + len
    BY <1>6, <2>2
  <2>4. t <= now - 1 - Delay /\ t <= LastService
    BY <1>1, <1>7, <1>8, <2>1, <2>3
  <2>5. n \in CommitteeOf[<<key[1], EpochForSlot(t)>>] /\ EpochForSlot(t) \in Followed
    BY <1>2, <1>3, <1>9
  <2> QED BY <1>3, <2>4, <2>5 DEF Heard
<1>10. (e + 1) * SlotsPerEpoch <= MaxSlot + 1
  BY <1>1, <1>6, <1>7
<1> QED BY <1>2, <1>9, <1>10, HeardAllFull DEF e

LEMMA InsertFull ==
    ASSUME NEW a, AllFull(a), NEW m, NEW c \in FullService
    PROVE  AllFull(Insert(a, m, c)) /\ m \in DOMAIN Insert(a, m, c)
BY DEF Insert, Put, AllFull

LEMMA InsertAllFull ==
    ASSUME NEW a, AllFull(a), NEW more, AllFull(more)
    PROVE  AllFull(InsertAll(a, more))
<1> SUFFICES ASSUME NEW m \in DOMAIN a \cup DOMAIN more
             PROVE  InsertAll(a, more)[m] \in FullService
  BY DEF AllFull, InsertAll
<1>1. CASE m \in DOMAIN more
  <2>1. more[m] \in FullService /\ InsertAll(a, more)[m] = Insert(a, m, more[m])[m]
    BY <1>1 DEF AllFull, InsertAll
  <2> QED BY <2>1, InsertFull DEF AllFull
<1>2. CASE m \notin DOMAIN more
  BY <1>2 DEF AllFull, InsertAll
<1> QED BY <1>1, <1>2

\* All that is recorded, aggregated or on its way attests full service.
VaultFull(b, a, mail) ==
    /\ \A v \in Validators, key \in Keys : AllFull(b[v][key]) /\ AllFull(a[v][key])
    /\ \A m \in mail : AllFull(m.attestations)

LEMMA EmitFull ==
    ASSUME EvidenceInv, VaultFull(book, aggregates, net), NEW n \in Validators, NEW keys \in SUBSET Keys,
           \A key \in keys : Observed(n, key) \in FullService, EmitAttestations(n, keys)
    PROVE  VaultFull(book', aggregates', net')
<1> DEFINE after == [key \in keys |-> Insert(book[n][key], n, Observed(n, key))]
           changed == {key \in keys : after[key] # book[n][key]}
           publish == {key \in keys : Publishes(n, key, after[key])}
           newBook == [key \in Keys |-> IF key \in keys THEN after[key] ELSE book[n][key]]
           newHeld == [key \in Keys |-> IF key \in publish THEN after[key] ELSE aggregates[n][key]]
           attesting == UNION {AttestationTo(AggregatorsOf[key] \ {n}, key, n, after[key][n]) :
                                key \in changed}
           publishing == UNION {AggregateTo(Validators \ {n}, key, after[key]) : key \in publish}
<1>1. /\ book' = [book EXCEPT ![n] = newBook]
      /\ aggregates' = [aggregates EXCEPT ![n] = newHeld]
  BY DEF EmitAttestations, EvidenceInv, EvidenceBacked
<1>2. net' = net \cup attesting \cup publishing
  BY DEF EmitAttestations
<1>3. ASSUME NEW key \in keys PROVE AllFull(after[key]) /\ n \in DOMAIN after[key]
  BY InsertFull DEF VaultFull
<1>4. \A key \in publish : key \in keys
  OBVIOUS
<1>5. \A key \in changed : key \in keys
  OBVIOUS
<1>6. \A m \in attesting : \E key \in changed :
            m \in AttestationTo(AggregatorsOf[key] \ {n}, key, n, after[key][n])
  OBVIOUS
<1>7. \A m \in publishing : \E key \in publish : m \in AggregateTo(Validators \ {n}, key, after[key])
  OBVIOUS
<1> HIDE DEF after, changed, publish, attesting, publishing
<1>8. \A key \in Keys : AllFull(newBook[key]) /\ AllFull(newHeld[key])
  BY <1>3, <1>4 DEF VaultFull
<1> HIDE DEF newBook, newHeld
<1>9. \A v \in Validators, key \in Keys : AllFull(book'[v][key]) /\ AllFull(aggregates'[v][key])
  <2>1. /\ book'[n] = newBook /\ aggregates'[n] = newHeld
        /\ \A v \in Validators \ {n} : book'[v] = book[v] /\ aggregates'[v] = aggregates[v]
    BY <1>1 DEF EvidenceInv, EvidenceBacked
  <2> QED BY <1>8, <2>1 DEF VaultFull
<1>10. ASSUME NEW m \in attesting PROVE AllFull(m.attestations)
  <2>1. PICK key \in changed : m \in AttestationTo(AggregatorsOf[key] \ {n}, key, n, after[key][n])
    BY <1>6
  <2>2. m.attestations = [v \in {n} |-> after[key][n]]
    BY <2>1 DEF AttestationTo
  <2>3. after[key][n] \in FullService
    BY <1>3, <1>5 DEF AllFull
  <2> QED BY <2>2, <2>3 DEF AllFull
<1>11. ASSUME NEW m \in publishing PROVE AllFull(m.attestations)
  <2>1. PICK key \in publish : m \in AggregateTo(Validators \ {n}, key, after[key])
    BY <1>7
  <2>2. m.attestations = after[key]
    BY <2>1 DEF AggregateTo
  <2> QED BY <1>3, <1>4, <2>2
<1>12. \A m \in net' : AllFull(m.attestations)
  BY <1>2, <1>10, <1>11 DEF VaultFull
<1> QED BY <1>9, <1>12 DEF VaultFull

\* A message changes one entry of its receiver, to the merge with what it carries.
LEMMA DeliverFull ==
    ASSUME EvidenceInv, VaultFull(book, aggregates, net), NEW m \in net,
           OnAttestation(m.to, m) \/ OnAggregate(m.to, m)
    PROVE  VaultFull(book', aggregates', net')
<1> DEFINE n == m.to
           key == m.key
           merged == InsertAll(book[n][key], m.attestations)
<1>1. /\ n \in Validators /\ key \in Keys /\ AllFull(m.attestations)
      /\ AllFull(book[n][key]) /\ AllFull(aggregates[n][key])
  BY DEF EvidenceInv, Sent, VaultFull
<1>2. AllFull(merged)
  BY <1>1, InsertAllFull
<1> HIDE DEF merged
<1>3. ASSUME NEW b, NEW a, AllFull(b), AllFull(a),
             book' = [book EXCEPT ![n][key] = b], aggregates' = [aggregates EXCEPT ![n][key] = a]
      PROVE  \A v \in Validators, k \in Keys : AllFull(book'[v][k]) /\ AllFull(aggregates'[v][k])
  <2> HIDE DEF n, key
  <2>1. \A v \in Validators, k \in Keys :
            IF v = n /\ k = key THEN book'[v][k] = b /\ aggregates'[v][k] = a
            ELSE book'[v][k] = book[v][k] /\ aggregates'[v][k] = aggregates[v][k]
    BY <1>3 DEF EvidenceInv, EvidenceBacked
  <2> QED BY <1>3, <2>1 DEF VaultFull
<1>4. CASE OnAttestation(n, m)
  <2> DEFINE valid == \A member \in DOMAIN m.attestations : AttestationValid(key, member)
             after == IF valid THEN merged ELSE book[n][key]
             publish == Publishes(n, key, after)
             held == IF publish THEN after ELSE aggregates[n][key]
             more == IF publish THEN AggregateTo(Validators \ {n}, key, after) ELSE {}
  <2>1. /\ book' = [book EXCEPT ![n][key] = after]
        /\ aggregates' = [aggregates EXCEPT ![n][key] = held]
        /\ net' = (net \ {m}) \cup more
    BY <1>4 DEF OnAttestation, merged
  <2>2. AllFull(after)
    BY <1>1, <1>2
  <2> HIDE DEF after
  <2>3. AllFull(held)
    BY <1>1, <2>2
  <2>4. \A y \in more : AllFull(y.attestations)
    BY <2>2 DEF AggregateTo
  <2> HIDE DEF held, more, n, key
  <2> QED BY <1>3, <2>1, <2>2, <2>3, <2>4 DEF VaultFull
<1>5. CASE OnAggregate(n, m)
  <2> DEFINE after == IF AggregateValid(key, m.attestations) THEN merged ELSE book[n][key]
             held == Merge(key, after, aggregates[n][key])
  <2>1. /\ book' = [book EXCEPT ![n][key] = after]
        /\ aggregates' = [aggregates EXCEPT ![n][key] = held]
        /\ net' = net \ {m}
    BY <1>5 DEF OnAggregate, merged
  <2>2. AllFull(after)
    BY <1>1, <1>2
  <2> HIDE DEF after
  <2>3. AllFull(held)
    BY <1>1, <2>2 DEF Merge, InsertAggregate, Build
  <2> HIDE DEF held, n, key
  <2> QED BY <1>3, <2>1, <2>2, <2>3 DEF VaultFull
<1> QED BY <1>4, <1>5

LEMMA RestartFull ==
    ASSUME EvidenceInv, VaultFull(book, aggregates, net), NEW n \in Validators, Restart(n)
    PROVE  VaultFull(book', aggregates', net')
<1> DEFINE restored == RestoreEvidence(book[n], aggregates[n])
<1>1. UNCHANGED <<book, net>> /\ aggregates' = [aggregates EXCEPT ![n] = restored]
  BY DEF Restart, EvidenceInv, EvidenceBacked
<1>2. \A key \in Keys : AllFull(restored[key])
  <2>1. AllFull(None)
    BY NoneAttested DEF AllFull
  <2>2. \A key \in Keys : restored[key] \in {None, book[n][key]}
    BY DEF RestoreEvidence, Merge, InsertAggregate, Build
  <2> HIDE DEF restored
  <2> QED BY <2>1, <2>2 DEF VaultFull
<1> HIDE DEF restored
<1>3. aggregates'[n] = restored /\ \A v \in Validators \ {n} : aggregates'[v] = aggregates[v]
  BY <1>1 DEF EvidenceInv, EvidenceBacked
<1> QED BY <1>1, <1>2, <1>3 DEF VaultFull

ServedInv ==
    /\ EvidenceInv
    /\ now \in Slots
    /\ Heard(receipts, now - 1 - Delay)
    /\ VaultFull(book, aggregates, net)
    /\ gate = [v \in Validators |-> gate[v]]
    /\ \A v \in Subjects : gate[v] # "reject"
    /\ snapshots \in Nat

\* What is to be shown of a step.
LEMMA ServedKept ==
    ASSUME EvidenceInv', now' \in Slots, Heard(receipts', now' - 1 - Delay),
           VaultFull(book', aggregates', net'),
           gate' = [v \in Validators |-> gate'[v]], \A v \in Subjects : gate'[v] # "reject",
           snapshots' \in Nat
    PROVE  ServedInv'
<1>1. Heard(receipts, now - 1 - Delay)'
  BY DEF Heard, Slots, CommitteeOf
<1>2. VaultFull(book, aggregates, net)'
  BY DEF VaultFull, AllFull, Keys
<1> QED BY <1>1, <1>2 DEF ServedInv, Slots

LEMMA ServedTick ==
    ASSUME ServedInTime, ServedInv, NEW n \in Validators, Tick(n)
    PROVE  ServedInv'
<1> DEFINE keys == AttestKeys(n, AttestableEpochs(EpochForSlot(now)))
           epoch == EpochForSlot(now)
<1>1. EvidenceInv' /\ EvidenceInv
  BY EvidenceStep DEF ServedInv, Next
<1>2. /\ now' = now /\ receipts' = receipts /\ snapshots' = snapshots
      /\ EmitAttestations(n, keys) \/ UNCHANGED <<book, aggregates, net>>
      /\ gate' = IF n \in Subjects
                 THEN [gate EXCEPT ![n] = Gate(aggregates'[n], n, epoch)] ELSE gate
  BY DEF Tick
<1>3. \A key \in keys : Observed(n, key) \in FullService
  BY AttestsFull DEF ServedInv, EvidenceInv
<1>4. keys \in SUBSET Keys
  BY DEF AttestKeys
<1> HIDE DEF keys
<1>5. VaultFull(book', aggregates', net')
  <2>1. CASE EmitAttestations(n, keys)
    BY <1>1, <1>3, <1>4, <2>1, EmitFull DEF ServedInv
  <2>2. CASE UNCHANGED <<book, aggregates, net>>
    BY <2>2 DEF ServedInv
  <2> QED BY <1>2, <2>1, <2>2
<1>6. epoch \in Nat
  <2>1. now \in Nat /\ SlotsPerEpoch \in Nat \ {0}
    BY ServiceEvidenceAssumption DEF ServedInv, Slots, ScheduleAssumption
  <2> QED BY <2>1, DivideBounds DEF EpochForSlot
<1>7. aggregates'[n] \in [Keys -> Attested]
  <2>1. (aggregates \in [Validators -> [Keys -> Attested]])'
    BY <1>1 DEF EvidenceInv
  <2> QED BY <2>1 DEF Keys, Attested, Counters
<1>8. n \in Subjects => Gate(aggregates'[n], n, epoch) # "reject"
  <2>1. \A key \in Keys : AllFull(aggregates'[n][key])
    BY <1>5 DEF VaultFull
  <2> HIDE DEF epoch
  <2>2. ASSUME NEW held \in [Keys -> Attested], \A key \in Keys : AllFull(held[key]), n \in Subjects
        PROVE  Gate(held, n, epoch) # "reject"
    BY <1>6, <2>2, GateOpen
  <2> QED BY <1>7, <2>1, <2>2
<1>9. gate' = [v \in Validators |-> gate'[v]] /\ \A v \in Subjects : gate'[v] # "reject"
  <2>1. /\ gate = [v \in Validators |-> gate[v]] /\ \A v \in Subjects : gate[v] # "reject"
        /\ Subjects \subseteq Validators
    BY ServiceEvidenceAssumption DEF ServedInv
  <2> HIDE DEF epoch
  <2>2. CASE n \in Subjects
    <3>1. PICK said : said = Gate(aggregates'[n], n, epoch)
      OBVIOUS
    <3>2. gate' = [gate EXCEPT ![n] = said] /\ said # "reject"
      BY <1>2, <1>8, <2>2, <3>1
    <3> QED BY <2>1, <3>2
  <2>3. CASE n \notin Subjects
    BY <1>2, <2>1, <2>3
  <2> QED BY <2>2, <2>3
<1> QED BY <1>1, <1>2, <1>5, <1>9, ServedKept DEF ServedInv

LEMMA ServedStep ==
    ASSUME ServedInTime, ServedInv, [Next]_vars
    PROVE  ServedInv'
<1>1. EvidenceInv' /\ EvidenceInv
  BY EvidenceStep DEF ServedInv
<1>2. /\ now \in Slots /\ now \in Nat /\ Delay \in Nat /\ MaxSlot \in Nat
      /\ Heard(receipts, now - 1 - Delay) /\ VaultFull(book, aggregates, net)
      /\ gate = [v \in Validators |-> gate[v]] /\ \A v \in Subjects : gate[v] # "reject"
      /\ snapshots \in Nat
  BY ServiceEvidenceAssumption DEF ServedInv, Slots
<1>3. ASSUME UNCHANGED <<now, receipts, gate, snapshots>>, VaultFull(book', aggregates', net') PROVE ServedInv'
  BY <1>1, <1>2, <1>3, ServedKept
<1>4. CASE Elapse
  <2>1. /\ now < MaxSlot /\ now' = now + 1 /\ UNCHANGED <<receipts, book, aggregates, net, gate, snapshots>>
        /\ Owed(now - Delay) = {}
    BY <1>4 DEF Elapse, ServedInTime
  <2>2. PICK last \in Int : last = now - Delay
    BY <1>2
  <2>3. Heard(receipts, last)
    BY <2>1, <2>2, NothingOwed
  <2>4. now' \in Slots /\ now' - 1 - Delay = last
    BY <1>2, <2>1, <2>2 DEF Slots
  <2> QED BY <1>1, <1>2, <2>1, <2>3, <2>4, ServedKept
<1>5. ASSUME NEW w \in Validators, NEW s \in Subjects, NEW t \in Slots, NEW c \in Classes,
             IssueReceipt(w, s, t, c)
      PROVE  ServedInv'
  <2>1. /\ receipts' = [receipts EXCEPT ![w] = receipts[w] \cup {<<s, t, c>>}]
        /\ UNCHANGED <<now, book, aggregates, net, gate, snapshots>>
    BY <1>1, <1>5 DEF IssueReceipt, EvidenceInv
  <2>2. \A v \in Validators : receipts[v] \subseteq receipts'[v]
    BY <1>1, <2>1 DEF EvidenceInv
  <2>3. Heard(receipts', now - 1 - Delay)
    BY <1>2, <2>2 DEF Heard
  <2> QED BY <1>1, <1>2, <2>1, <2>3, ServedKept
<1>6. ASSUME NEW n \in Validators, Tick(n) PROVE ServedInv'
  BY <1>6, ServedTick
<1>7. ASSUME NEW m \in net, Deliver(m) PROVE ServedInv'
  <2>1. UNCHANGED <<now, receipts, gate, snapshots>> /\ (OnAttestation(m.to, m) \/ OnAggregate(m.to, m))
    BY <1>7 DEF Deliver
  <2>2. VaultFull(book', aggregates', net')
    BY <1>1, <1>2, <2>1, DeliverFull
  <2> QED BY <1>3, <2>1, <2>2
<1>8. ASSUME NEW m \in net, Lose(m) PROVE ServedInv'
  <2>1. UNCHANGED <<now, receipts, gate, snapshots, book, aggregates>> /\ net' \subseteq net
    BY <1>8 DEF Lose
  <2>2. VaultFull(book', aggregates', net')
    BY <1>2, <2>1 DEF VaultFull
  <2> QED BY <1>3, <2>1, <2>2
<1>9. ASSUME NEW n \in MayRestart, Restart(n) PROVE ServedInv'
  <2>1. n \in Validators
    BY ServiceEvidenceAssumption
  <2>2. VaultFull(book', aggregates', net')
    BY <1>1, <1>2, <1>9, <2>1, RestartFull
  <2>3. UNCHANGED <<now, receipts, gate, snapshots>>
    BY <1>9 DEF Restart
  <2> QED BY <1>3, <2>2, <2>3
<1>10. ASSUME NEW n \in MayRestart, ApplySnapshot(n) PROVE ServedInv'
  BY <1>2, <1>10 DEF ApplySnapshot, ServedInTime
<1>11. CASE UNCHANGED vars
  BY <1>2, <1>3, <1>11 DEF vars
<1> QED BY <1>4, <1>5, <1>6, <1>7, <1>8, <1>9, <1>10, <1>11 DEF Next

\* A subject whose messages are all receipted within Delay slots is never refused its slot
\* (v2_gating_state), whatever is lost or delayed of the attestations, in whatever order they
\* arrive and whoever restarts: an epoch is attested only when its receipts have settled, so
\* every attestation there is says full service, and so do their weighted sums.
THEOREM ServedNeverRefused == ServedInTime /\ Spec => []ServedNotRefused
<1>1. ServedInTime /\ Init => ServedInv
  <2> SUFFICES ASSUME ServedInTime, Init PROVE ServedInv
    OBVIOUS
  <2>1. EvidenceInv
    BY EvidenceStarts
  <2>2. now \in Slots /\ snapshots \in Nat
    BY ServiceEvidenceAssumption DEF Init, Slots
  <2>3. PICK last \in Int : last = StartSlot - 1 - Delay
    BY ServiceEvidenceAssumption
  <2>4. Owed(last) = {} /\ now - 1 - Delay = last
    BY <2>3 DEF Init, ServedInTime
  <2>5. Heard(receipts, now - 1 - Delay)
    BY <2>4, NothingOwed
  <2>6. VaultFull(book, aggregates, net)
    BY NoneAttested DEF Init, VaultFull, AllFull
  <2>7. gate = [v \in Validators |-> gate[v]] /\ \A v \in Subjects : gate[v] # "reject"
    BY ServiceEvidenceAssumption DEF Init
  <2> QED BY <2>1, <2>2, <2>5, <2>6, <2>7 DEF ServedInv
<1>2. ServedInTime /\ ServedInv /\ [Next]_vars => ServedInv'
  BY ServedStep
<1>3. ServedInv => ServedNotRefused
  BY DEF ServedInv, ServedNotRefused
<1>4. ServedInTime => ServedInTime'
  BY DEF ServedInTime
<1> QED BY <1>1, <1>2, <1>3, <1>4, PTL DEF Spec
=============================================================================
