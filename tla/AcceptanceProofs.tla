-------------------------- MODULE AcceptanceProofs --------------------------
(***************************************************************************)
(* What nodes accept from each other.  Receipts: an event counts once, and *)
(* what an honest proposer commits to is accepted by everyone, for every   *)
(* schedule and every number of losses, repeated pulses and snapshots.     *)
(* Wire: formats change nothing that is well-formed and nothing that a     *)
(* verifier reads.  Credentials: nodes that pass their startup checks      *)
(* understand each other, whatever their identities and backends.          *)
(***************************************************************************)
EXTENDS Receipts, Credentials, Wire, FiniteSetTheorems, TLAPS

-----------------------------------------------------------------------------
(* Receipts.                                                                *)

\* One receipt per event.
Once(held) == \A r, q \in held : Event(r) = Event(q) => r = q

\* What a node may keep: one receipt per event, each of an assigned witness.
Good(held) == Once(held) /\ \A r \in held : Assigned(r)

\* Storing receipts of assigned witnesses leaves a good store.
LEMMA PersistGood ==
    ASSUME NEW held, NEW r, Good(held), Assigned(r)
    PROVE  Good(Persist(held, r))
BY DEF Good, Once, Persist

LEMMA PersistAllGood ==
    ASSUME NEW held, NEW more, NEW after \in PersistAll(held, more),
           Good(held), \A r \in more : Assigned(r)
    PROVE  Good(after)
<1> DEFINE fresh == {r \in more : Persist(held, r) # held}
<1>1. PICK S \in SUBSET fresh : /\ after = held \cup S
                                /\ \A r, q \in S : Event(r) = Event(q) => r = q
  BY DEF PersistAll
<1>2. ASSUME NEW h \in held, NEW r \in S PROVE Event(h) # Event(r)
  BY DEF Persist
<1>3. Once(after)
  BY <1>1, <1>2 DEF Good, Once
<1>4. \A r \in after : Assigned(r)
  BY <1>1 DEF Good
<1> QED BY <1>3, <1>4 DEF Good

-----------------------------------------------------------------------------
(* The invariant.                                                           *)

\* Everything a node keeps is good, and every block on the chains and in the snapshots on
\* their way is valid.
ReceiptsInv ==
    /\ slot \in 0 .. MaxSlot
    /\ receipts = [n \in Validators |-> receipts[n]]
    /\ imported = [n \in Validators |-> imported[n]]
    /\ refused = [n \in Validators |-> {}]
    /\ \A n \in Validators : Good(receipts[n]) /\ imported[n] \subseteq blocks
    /\ \A p \in sent : p.to \in Validators
    /\ \A m \in net : /\ m.to \in Validators
                      /\ m.body.type = "ReceiptFetch" => m.body.from \in Validators
                      /\ m.body.type = "SyncResponse" => m.body.blocks \subseteq blocks
    /\ \A b \in blocks : ValidateCommitment(b)

\* The messages of To.
LEMMA Sending ==
    ASSUME NEW peers, NEW message
    PROVE  \A m \in To(peers, message) : m.to \in peers /\ m.body = message
BY DEF To

\* The commitment of a proposer whose store is good is valid.
LEMMA CommitmentValid ==
    ASSUME NEW held, Good(held), NEW v, NEW epoch, NEW s
    PROVE  ValidateCommitment([slot |-> s, commitment |-> CommitmentFor(held, v, epoch)])
<1> DEFINE mine == About(held, v, epoch)
           c == CommitmentFor(held, v, epoch)
<1>1. /\ c.proposer = v /\ c.epoch = epoch /\ c.receipts = mine
      /\ c.relay = Commitment(v, epoch, mine, Weights)
  BY DEF CommitmentFor
<1>2. /\ \A r \in mine : r[1][1] = v /\ EpochOf(r) = epoch /\ Assigned(r)
      /\ \A r, q \in mine : Event(r) = Event(q) => r = q
  BY DEF About, Good, Once
<1>3. BundleValid(c, Weights)
  BY <1>1, <1>2 DEF BundleValid
<1> QED BY <1>3 DEF ValidateCommitment

LEMMA ReceiptsStep ==
    ASSUME ReceiptsInv, [Next]_vars
    PROVE  ReceiptsInv'
<1> USE DEF ReceiptsInv
<1>1. ASSUME NEW v \in Sources, NEW copy \in 0 .. 1, Heartbeat(v, copy) PROVE ReceiptsInv'
  <2>1. \A p \in sent' : p.to \in Validators
    BY <1>1, Sending DEF Heartbeat, Peers
  <2> QED BY <1>1, <2>1 DEF Heartbeat, store, chain
<1>2. ASSUME NEW p \in sent, OnHeartbeat(p) PROVE ReceiptsInv'
  <2> DEFINE n == p.to
             r == Receipt(p.body.source, p.to, p.body.slot, "Heartbeat", p.body.copy)
             after == IF Assigned(r) THEN Persist(receipts[n], r) ELSE receipts[n]
  <2>1. Good(after) /\ receipts' = [receipts EXCEPT ![n] = after]
    BY <1>2, PersistGood DEF OnHeartbeat, StoreAndRelay
  <2>2. \A m \in net' : m \in net \/ (m.to \in Validators /\ m.body.type = "RelayReceipt")
    BY <1>2, Sending DEF OnHeartbeat, StoreAndRelay, Peers
  <2> QED BY <1>2, <2>1, <2>2 DEF OnHeartbeat, chain
<1>3. ASSUME NEW m \in net, OnReceipt(m) PROVE ReceiptsInv'
  <2> DEFINE after == Persist(receipts[m.to], m.body.receipt)
             fresh == Assigned(m.body.receipt) /\ after # receipts[m.to]
             kept == IF fresh THEN after ELSE receipts[m.to]
  <2>1. Good(kept) /\ receipts' = [receipts EXCEPT ![m.to] = kept]
    BY <1>3, PersistGood DEF OnReceipt
  <2>2. \A x \in net' : x \in net \/ (x.to \in Validators /\ x.body.type = "RelayReceipt")
    BY <1>3, Sending DEF OnReceipt, Peers
  <2> QED BY <1>3, <2>1, <2>2 DEF OnReceipt, chain
<1>4. ASSUME NEW m \in net, OnFetch(m) PROVE ReceiptsInv'
  <2>1. \A x \in net' : x \in net \/ (x.to \in Validators /\ x.body.type = "ReceiptResponse")
    BY <1>4, Sending DEF OnFetch
  <2> QED BY <1>4, <2>1 DEF OnFetch, chain
<1>5. ASSUME NEW m \in net, OnResponse(m) PROVE ReceiptsInv'
  <2>1. PICK after : /\ receipts' = [receipts EXCEPT ![m.to] = after]
                     /\ after \in PersistAll(receipts[m.to], {r \in m.body.receipts : Assigned(r)})
    BY <1>5 DEF OnResponse
  <2>2. Good(after)
    BY <2>1, PersistAllGood
  <2> QED BY <1>5, <2>1, <2>2 DEF OnResponse, chain
<1>6. ASSUME NEW m \in net, OnSnapshot(m) PROVE ReceiptsInv'
  <2>1. CASE UNCHANGED <<receipts, imported>>
    BY <1>6, <2>1 DEF OnSnapshot
  <2>2. CASE /\ Good(m.body.receipts)
             /\ receipts' = [receipts EXCEPT ![m.to] = m.body.receipts]
             /\ imported' = [imported EXCEPT ![m.to] = m.body.blocks]
    BY <1>6, <2>2 DEF OnSnapshot
  <2> QED BY <1>6, <2>1, <2>2 DEF OnSnapshot, Good, Once
<1>7. ASSUME NEW m \in net, Lose(m) PROVE ReceiptsInv'
  BY <1>7 DEF Lose, chain
<1>8. CASE NextSlot
  <2> DEFINE Fetch(v) == [type |-> "ReceiptFetch", from |-> v, epoch |-> EpochForSlot(slot + 1) - 1]
  <2>1. ASSUME NEW m \in net' \ net PROVE \E v \in Sources : m \in To(Peers(v), Fetch(v))
    BY <1>8, <2>1 DEF NextSlot
  <2>2. ASSUME NEW m \in net' \ net
        PROVE  m.to \in Validators /\ m.body.type = "ReceiptFetch" /\ m.body.from \in Sources
    <3>1. PICK v \in Sources : m \in To(Peers(v), Fetch(v))
      BY <2>1
    <3> QED BY <3>1, Sending DEF Peers
  <2>3. slot' \in 0 .. MaxSlot
    BY <1>8, ReceiptsAssumption DEF NextSlot
  <2> QED BY <1>8, <2>2, <2>3, ReceiptsAssumption DEF NextSlot, chain
<1>9. ASSUME NEW v \in Sources, Propose(v) PROVE ReceiptsInv'
  <2> DEFINE block == [slot |-> slot, commitment |-> CommitmentFor(receipts[v], v, EpochForSlot(slot) - 1)]
  <2>1. v \in Validators
    BY ReceiptsAssumption
  <2>2. ValidateCommitment(block)
    BY <2>1, CommitmentValid
  <2>3. blocks' = blocks \cup {block} /\ imported' = [imported EXCEPT ![v] = @ \cup {block}]
    BY <1>9 DEF Propose
  <2> QED BY <1>9, <2>1, <2>2, <2>3 DEF Propose, store
<1>10. ASSUME NEW n \in Validators, NEW b \in blocks, ImportBlock(n, b) PROVE ReceiptsInv'
  <2>1. ValidateCommitment(b)
    OBVIOUS
  <2>2. PICK after \in PersistAll(receipts[n], b.commitment.receipts) :
            receipts' = [receipts EXCEPT ![n] = after]
    BY <1>10, <2>1 DEF ImportBlock
  <2>3. Good(after)
    BY <2>1, <2>2, PersistAllGood DEF ValidateCommitment, BundleValid
  <2> QED BY <1>10, <2>1, <2>2, <2>3 DEF ImportBlock
<1>11. ASSUME NEW p \in Validators, NEW n \in Validators, SendSnapshot(p, n) PROVE ReceiptsInv'
  <2>1. \A m \in net' : \/ m \in net
                        \/ m.to = n /\ m.body.type = "SyncResponse" /\ m.body.blocks = imported[p]
    BY <1>11, Sending DEF SendSnapshot
  <2> QED BY <1>11, <2>1 DEF SendSnapshot, chain
<1>12. CASE UNCHANGED vars
  BY <1>12 DEF vars
<1> QED BY <1>1, <1>2, <1>3, <1>4, <1>5, <1>6, <1>7, <1>8, <1>9, <1>10, <1>11, <1>12 DEF Next

LEMMA ReceiptsAlways == Spec => []ReceiptsInv
<1>1. Init => ReceiptsInv
  BY ReceiptsAssumption DEF Init, ReceiptsInv, Good, Once
<1>2. ReceiptsInv /\ [Next]_vars => ReceiptsInv'
  BY ReceiptsStep
<1> QED BY <1>1, <1>2, PTL DEF Spec

\* Only assigned witnesses' receipts are kept, and no node ever counts an event twice,
\* whichever copies of its receipt reach it by pulse, gossip, fetch, block or snapshot (persist_receipt, import_commitment_receipts,
\* validate_snapshot_receipts).
THEOREM EventsAlwaysCountedOnce == Spec => [](TypeOK /\ EventsCountedOnce)
<1>1. ReceiptsInv => TypeOK /\ EventsCountedOnce
  BY DEF ReceiptsInv, Good, Once, Assigned, TypeOK, EventsCountedOnce
<1> QED BY <1>1, ReceiptsAlways, PTL

\* Where the configured weights are the default ones, nobody refuses the block of a
\* proposer that commits to the receipts it holds, and every block a node has imported
\* passes again in a snapshot (validate_commitment_bundle).  The hypothesis is needed:
\* validate_snapshot_block always takes the default weights.
THEOREM CommitmentsAlwaysAccepted ==
    ASSUME Weights = DefaultWeights
    PROVE  Spec => []CommitmentsAccepted
<1>1. ReceiptsInv => CommitmentsAccepted
  BY DEF ReceiptsInv, ValidateCommitment, ValidateInSnapshot, CommitmentsAccepted
<1> QED BY <1>1, ReceiptsAlways, PTL

-----------------------------------------------------------------------------
(* Encodings.                                                               *)

\* What a value becomes in the binary format.
Normal(v) == FromBinary(Binary(v))

\* The components of a value, one by one.
LEMMA RawParts ==
    ASSUME WireAssumption, NEW v \in Raw
    PROVE  /\ v = [scheme |-> v.scheme, bytes |-> v.bytes, components |-> v.components]
           /\ v.scheme \in Schemes \cup {"Hybrid"} /\ v.bytes \in Bytes
           /\ DOMAIN v = {"scheme", "bytes", "components"}
           /\ \E n \in 0 .. MaxComponents : v.components \in [1 .. n -> Component]
           /\ \A i \in DOMAIN v.components : v.components[i].scheme \in Schemes \cup {"Hybrid"}
  BY DEF Raw, Component

\* Single values, and hybrid ones with the components of others.
LEMMA MakeRaw ==
    ASSUME WireAssumption
    PROVE  /\ \A s \in Schemes \cup {"Hybrid"}, b \in Bytes : Single(s, b) \in Raw
           /\ \A v \in Raw : [scheme |-> "Hybrid", bytes |-> Empty, components |-> v.components] \in Raw
<1>1. <<>> \in [1 .. 0 -> Component]
  OBVIOUS
<1>2. <<>> \in UNION {[1 .. n -> Component] : n \in 0 .. MaxComponents}
  BY <1>1 DEF WireAssumption
<1> QED BY <1>2 DEF Raw, Single, WireAssumption

\* The readable format changes nothing.
LEMMA ReadableSame ==
    ASSUME WireAssumption, NEW v \in Raw
    PROVE  FromReadable(Readable(v)) = v
<1>1. CASE v.components = <<>>
  <2>1. Readable(v) = [scheme |-> v.scheme, bytes |-> v.bytes]
    BY <1>1 DEF Readable
  <2>2. FromReadable(Readable(v)) = Single(v.scheme, v.bytes)
    BY <2>1 DEF FromReadable
  <2> QED BY <1>1, <2>2, RawParts DEF Single
<1>2. CASE v.components # <<>>
  BY <1>2, RawParts DEF Readable, FromReadable
<1> QED BY <1>1, <1>2

\* The binary format keeps the scheme, and the bytes of a single value or the components of
\* a hybrid one.
LEMMA NormalForm ==
    ASSUME WireAssumption, NEW v \in Raw
    PROVE  /\ v.scheme = "Hybrid" =>
                Normal(v) = [scheme |-> "Hybrid", bytes |-> Empty, components |-> v.components]
           /\ v.scheme # "Hybrid" => Normal(v) = Single(v.scheme, v.bytes)
           /\ Normal(v) \in Raw
<1>1. CASE v.scheme = "Hybrid"
  <2>1. Normal(v) = [scheme |-> "Hybrid", bytes |-> Empty, components |-> v.components]
    BY <1>1 DEF Normal, FromBinary, Binary
  <2> QED BY <1>1, <2>1, MakeRaw
<1>2. CASE v.scheme # "Hybrid"
  <2>1. Normal(v) = Single(v.scheme, v.bytes)
    BY <1>2 DEF Normal, FromBinary, Binary
  <2> QED BY <1>2, <2>1, MakeRaw, RawParts
<1> QED BY <1>1, <1>2

\* ... and so what a verifier reads, and well-formed values whole.
LEMMA NormalReads ==
    ASSUME WireAssumption, NEW v \in Raw
    PROVE  ReadBy(Normal(v)) = ReadBy(v) /\ (WellFormed(v) => Normal(v) = v)
<1>1. CASE v.scheme = "Hybrid"
  <2> DEFINE u == [scheme |-> "Hybrid", bytes |-> Empty, components |-> v.components]
  <2>1. Normal(v) = u /\ u.components = v.components /\ u.scheme = v.scheme
    BY <1>1, NormalForm
  <2> HIDE DEF u
  <2>2. \A s \in Schemes : ComponentBytes(u, s) = ComponentBytes(v, s)
    <3> SUFFICES ASSUME NEW s \in Schemes PROVE ComponentBytes(u, s) = ComponentBytes(v, s)
      OBVIOUS
    <3>1. u.scheme # s /\ v.scheme # s
      BY <1>1, <2>1 DEF WireAssumption
    <3> QED BY <2>1, <3>1 DEF ComponentBytes
  <2>3. ReadBy(u) = ReadBy(v)
    BY <1>1, <2>1, <2>2 DEF ReadBy
  <2>4. WellFormed(v) => u = v
    BY <1>1, RawParts DEF WellFormed, u
  <2> QED BY <2>1, <2>3, <2>4
<1>2. CASE v.scheme # "Hybrid"
  <2>1. Normal(v) = [scheme |-> v.scheme, bytes |-> v.bytes, components |-> <<>>]
    BY <1>2, NormalForm DEF Single
  <2>2. ReadBy(Normal(v)) = ReadBy(v)
    BY <1>2, <2>1 DEF ReadBy
  <2>3. WellFormed(v) => Normal(v) = v
    BY <1>2, <2>1, RawParts DEF WellFormed
  <2> QED BY <2>2, <2>3
<1> QED BY <1>1, <1>2

\* A session identity that is built is well-formed, and one that is, is built as it is.
LEMMA BuildSessionFormed ==
    ASSUME WireAssumption, NEW v \in Raw
    PROVE  /\ BuildSession(v) # NoValue => BuildSession(v) \in Raw /\ WellFormed(BuildSession(v))
           /\ WellFormed(v) => BuildSession(v) = v
<1> DEFINE cs == v.components
           ill == \/ cs = <<>>
                  \/ \E i \in DOMAIN cs : cs[i].scheme = "Hybrid"
                  \/ \E i, j \in DOMAIN cs : i < j /\ cs[i].scheme = cs[j].scheme
           u == [scheme |-> "Hybrid", bytes |-> Empty, components |-> cs]
<1>0. \A i \in DOMAIN cs : i \in Int
  BY RawParts
<1>1. CASE v.scheme = "Hybrid"
  <2>1. BuildSession(v) = IF ill THEN NoValue ELSE u
    BY <1>1 DEF BuildSession, TryHybrid
  <2>2. ~ill => WellFormed(u)
    <3> SUFFICES ASSUME ~ill PROVE WellFormed(u)
      OBVIOUS
    <3>1. \A i \in DOMAIN cs : cs[i].scheme \in Schemes
      BY RawParts
    <3>2. \A i, j \in DOMAIN cs : cs[i].scheme = cs[j].scheme => i = j
      BY <1>0
    <3> HIDE DEF cs
    <3>3. IsInjective([i \in DOMAIN cs |-> cs[i].scheme])
      BY <3>2 DEF IsInjective
    <3> QED BY <3>1, <3>3 DEF WellFormed
  <2>3. u \in Raw
    BY MakeRaw
  <2>4. WellFormed(v) => ~ill /\ u = v
    <3> SUFFICES ASSUME WellFormed(v) PROVE ~ill /\ u = v
      OBVIOUS
    <3>1. /\ v.bytes = Empty /\ cs # <<>> /\ \A i \in DOMAIN cs : cs[i].scheme \in Schemes
          /\ IsInjective([i \in DOMAIN cs |-> cs[i].scheme])
      BY <1>1 DEF WellFormed
    <3>2. u = v
      BY <1>1, <3>1, RawParts
    <3> HIDE DEF cs
    <3>3. \A i, j \in DOMAIN cs : cs[i].scheme = cs[j].scheme => i = j
      BY <3>1 DEF IsInjective
    <3>4. ~ill
      BY <1>0, <3>1, <3>3 DEF WireAssumption
    <3> QED BY <3>2, <3>4
  <2> QED BY <2>1, <2>2, <2>3, <2>4
<1>2. CASE v.scheme # "Hybrid"
  <2>1. Single(v.scheme, v.bytes) \in Raw
    BY MakeRaw, RawParts
  <2>2. WellFormed(Single(v.scheme, v.bytes))
    BY <1>2 DEF WellFormed, Single
  <2>3. cs = <<>> => v = Single(v.scheme, v.bytes)
    BY RawParts DEF Single
  <2>4. BuildSession(v) = IF cs # <<>> THEN NoValue ELSE Single(v.scheme, v.bytes)
    BY <1>2 DEF BuildSession
  <2>5. WellFormed(v) => cs = <<>>
    BY <1>2 DEF WellFormed
  <2> QED BY <2>1, <2>2, <2>3, <2>4, <2>5
<1> QED BY <1>1, <1>2

\* The inductive invariant: a value is rejected at the start or never; a session identity
\* is well-formed and stays as it is.
WireInv ==
    /\ kind \in {"signature", "identity", "session"}
    /\ original \in Raw \cup {NoValue}
    /\ original = NoValue => kind = "session" /\ value = NoValue
    /\ original # NoValue =>
        /\ value \in Raw /\ ReadBy(value) = ReadBy(original)
        /\ WellFormed(original) => value = original
        /\ kind = "session" => WellFormed(original)

\* Whatever formats a value goes through, in whatever order: it stays a value of its type,
\* a well-formed one comes back as it was, and of no value does what a verifier reads
\* change, for all schemes, bytes and numbers of components (the Serialize and Deserialize
\* implementations of TypedSignature, PublicIdentity and SessionPublicIdentity).
THEOREM EncodingsAlwaysFaithful ==
    ASSUME WireAssumption
    PROVE  WireSpec => []EncodingsFaithful
<1>0. NoValue \notin Raw
  BY DEF WireAssumption
<1>1. WireInit => WireInv
  <2> SUFFICES ASSUME WireInit PROVE WireInv
    OBVIOUS
  <2>1. PICK raw \in Raw :
          original = IF kind = "session" THEN BuildSession(raw) ELSE FromReadable(Readable(raw))
    BY DEF WireInit
  <2>2. value = original /\ kind \in {"signature", "identity", "session"}
    BY DEF WireInit
  <2>3. CASE kind = "session"
    BY <1>0, <2>1, <2>2, <2>3, BuildSessionFormed DEF WireInv
  <2>4. CASE kind # "session"
    <3>1. original = raw
      BY <2>1, <2>4, ReadableSame
    <3> QED BY <1>0, <2>2, <2>4, <3>1 DEF WireInv
  <2> QED BY <2>3, <2>4
<1>2. WireInv /\ [WireNext]_wire => WireInv'
  <2> SUFFICES ASSUME WireInv, [WireNext]_wire PROVE WireInv'
    OBVIOUS
  <2>1. CASE UNCHANGED wire
    BY <2>1 DEF WireInv, wire
  <2>2. ASSUME NEW format \in {"readable", "binary"}, Hop(format) PROVE WireInv'
    <3>1. value # NoValue /\ kind' = kind /\ original' = original
      BY <2>2 DEF Hop
    <3>2. original # NoValue /\ value \in Raw
      BY <3>1 DEF WireInv
    <3> DEFINE after == IF format = "readable" THEN value ELSE Normal(value)
    <3>3. /\ after \in Raw /\ ReadBy(after) = ReadBy(value) /\ (WellFormed(value) => after = value)
          /\ (format = "readable" => after = FromReadable(Readable(value)))
          /\ (format = "binary" => after = FromBinary(Binary(value)))
      BY <3>2, ReadableSame, NormalForm, NormalReads DEF Normal
    <3> HIDE DEF after
    <3>4. CASE kind = "session"
      <4>1. WellFormed(value) /\ value = original
        BY <3>2, <3>4 DEF WireInv
      <4>2. value' = BuildSession(after)
        BY <2>2, <3>3, <3>4 DEF Hop, DeserializeSession, SerializeSession
      <4>3. value' = value
        BY <3>2, <3>3, <4>1, <4>2, BuildSessionFormed
      <4> QED BY <3>1, <4>3 DEF WireInv
    <3>5. CASE kind # "session"
      <4>1. value' = after
        BY <2>2, <3>3, <3>5 DEF WireInv, Hop, DeserializeSignature, SerializeSignature,
                                DeserializeIdentity, SerializeIdentity
      <4> QED BY <3>1, <3>2, <3>3, <3>5, <4>1 DEF WireInv
    <3> QED BY <3>4, <3>5
  <2> QED BY <2>1, <2>2 DEF WireNext
<1>3. WireInv => EncodingsFaithful
  BY <1>0 DEF WireInv, EncodingsFaithful, WireTypeOK, RoundTrips, VerdictsStable
<1> QED BY <1>1, <1>2, <1>3, PTL DEF WireSpec

-----------------------------------------------------------------------------
(* Credentials.                                                             *)

\* A node that runs passed its startup checks.
Runs(v) == v \in Nodes /\ config[v] # None
Started(v) ==
    /\ config[v].signing \in {"Dev", "MlDsa", "Hybrid"} /\ config[v].session \in {"Dev", "HybridKem"}
    /\ BuildBackend(v, config[v])
    /\ WellFormedIdentity(Identity(v))

\* A signature has the components of its backend, each over the message.
LEMMA SignParts ==
    ASSUME NEW v, NEW msg, config[v].signing \in {"Dev", "MlDsa", "Hybrid"}
    PROVE  LET sig == Sign(v, msg)
               pq  == <<config[v].file.signing, msg>>
           IN  /\ config[v].signing = "Dev" =>
                    sig.scheme = Dev /\ DOMAIN sig.parts = {Dev} /\ sig.parts[Dev] = DevPart(v, msg)
               /\ config[v].signing = "MlDsa" =>
                    sig.scheme = "MlDsa" /\ DOMAIN sig.parts = {"MlDsa"} /\ sig.parts["MlDsa"] = pq
               /\ config[v].signing = "Hybrid" =>
                    /\ sig.scheme = "Hybrid" /\ DOMAIN sig.parts = {Dev, "MlDsa"}
                    /\ sig.parts[Dev] = DevPart(v, msg) /\ sig.parts["MlDsa"] = pq
<1>1. CASE config[v].signing = "Dev"
  BY <1>1 DEF Sign, One
<1>2. CASE config[v].signing = "MlDsa"
  BY <1>2 DEF Sign, One
<1>3. CASE config[v].signing = "Hybrid"
  BY <1>3 DEF Sign, Two, Dev
<1> QED BY <1>1, <1>2, <1>3

\* What a node signs that started with fitting key files, verifies.
LEMMA SignVerifies ==
    ASSUME NEW v, NEW msg, Started(v), FilesFit(v)
    PROVE  Verify(v, msg, Sign(v, msg))
<1> DEFINE id == Identity(v)
           sig == Sign(v, msg)
           c == config[v]
<1>0. /\ c.signing \in {"Dev", "MlDsa", "Hybrid"} /\ WellFormedIdentity(id)
      /\ c.signing \in {"Dev", "Hybrid"} => id = DefaultIdentity \/ HasPart(id, Dev, <<"validator", v>>)
      /\ c.signing \in {"MlDsa", "Hybrid"} =>
            id.scheme \in {"MlDsa", "Hybrid"} /\ HasPart(id, "MlDsa", c.file.signing)
  BY DEF Started, BuildBackend, DeterministicIdentityOk, SigningKeyOk, FilesFit
<1>1. /\ c.signing \in {"Dev", "Hybrid"} => Dev \in DOMAIN id.parts
      /\ c.signing \in {"MlDsa", "Hybrid"} =>
            "MlDsa" \in DOMAIN id.parts /\ id.parts["MlDsa"] = c.file.signing
  BY <1>0 DEF HasPart, DefaultIdentity, One
<1>2. IF id.scheme = "Hybrid" THEN DOMAIN id.parts \subseteq {Dev, "MlDsa"} ELSE DOMAIN id.parts = {id.scheme}
  BY <1>0 DEF WellFormedIdentity
<1> USE SignParts
<1> HIDE DEF id
<1>3. CASE c.signing = "Dev"
  <2>1. sig.scheme = Dev /\ DOMAIN sig.parts = {Dev} /\ sig.parts[Dev] = DevPart(v, msg)
    BY <1>0, <1>3
  <2>2. \A s \in DOMAIN sig.parts : VerifyPart(v, s, sig.parts[s], msg)
    BY <2>1 DEF VerifyPart
  <2>3. id.scheme = "Hybrid" \/ id.scheme = Dev
    BY <1>1, <1>2, <1>3
  <2> QED BY <1>1, <1>3, <2>1, <2>2, <2>3 DEF Verify, id, Dev
<1>4. CASE c.signing = "MlDsa"
  <2>1. sig.scheme = "MlDsa" /\ DOMAIN sig.parts = {"MlDsa"} /\ sig.parts["MlDsa"] = <<c.file.signing, msg>>
    BY <1>0, <1>4
  <2>2. \A s \in DOMAIN sig.parts : VerifyPart(v, s, sig.parts[s], msg)
    BY <1>1, <1>4, <2>1 DEF VerifyPart, id
  <2> QED BY <1>0, <1>1, <1>4, <2>1, <2>2 DEF Verify, id
<1>5. CASE c.signing = "Hybrid"
  <2>1. /\ sig.scheme = "Hybrid" /\ DOMAIN sig.parts = {Dev, "MlDsa"}
        /\ sig.parts[Dev] = DevPart(v, msg) /\ sig.parts["MlDsa"] = <<c.file.signing, msg>>
    BY <1>0, <1>5
  <2>2. \A s \in DOMAIN sig.parts : VerifyPart(v, s, sig.parts[s], msg)
    BY <1>1, <1>5, <2>1 DEF VerifyPart, id
  <2>3. id.scheme = "Hybrid" /\ DOMAIN id.parts = {Dev, "MlDsa"}
    BY <1>0, <1>1, <1>2, <1>5 DEF Dev
  <2> QED BY <2>1, <2>2, <2>3 DEF Verify, id
<1> QED BY <1>0, <1>3, <1>4, <1>5

\* A post-quantum component that verifies was made with the key of the identity.
LEMMA VerifiedKey ==
    ASSUME NEW v, NEW msg, config[v].signing \in {"MlDsa", "Hybrid"}, Verify(v, msg, Sign(v, msg))
    PROVE  HasPart(Identity(v), "MlDsa", config[v].file.signing)
<1> DEFINE sig == Sign(v, msg)
<1>1. "MlDsa" \in DOMAIN sig.parts /\ sig.parts["MlDsa"] = <<config[v].file.signing, msg>>
  BY SignParts
<1>2. VerifyPart(v, "MlDsa", sig.parts["MlDsa"], msg)
  BY <1>1 DEF Verify
<1> HIDE DEF sig
<1> QED BY <1>1, <1>2 DEF VerifyPart, HasPart, Dev

\* What a node advertises tells its session backend.
LEMMA SessionTells ==
    ASSUME NEW v, Started(v)
    PROVE  /\ Encrypts(v) => /\ LocalSession(v) = SessionIdentity(v)
                             /\ LocalSession(v).scheme \in {"MlKem", "Hybrid"}
                             /\ HasPart(LocalSession(v), "MlKem", config[v].sessionFile.enc)
                             /\ config[v].sessionFile # None
           /\ ~Encrypts(v) => LocalSession(v) = DevSession(v) /\ config[v].session = "Dev"
  BY DEF Started, BuildBackend, BuildSessionBackend, SessionKeyOk, LocalSession, Encrypts

LEMMA DevSessionPlain ==
    ASSUME NEW v, NEW key
    PROVE  ~HasPart(DevSession(v), "MlKem", key) /\ DevSession(v).scheme = Dev
  BY DEF HasPart, DevSession, One, Dev

\* A session key is the same from either end.
LEMMA OpenSessionSymmetric ==
    ASSUME NEW v \in Nat, NEW w \in Nat, NEW nonce
    PROVE  OpenSession(v, w, nonce) = OpenSession(w, v, nonce)
  BY DEF OpenSession

-----------------------------------------------------------------------------
\* What the verdicts, hellos, replies and sessions of a state are, in terms of the
\* configurations of the nodes that made them.
Verdict(d) ==
    LET sig == Sign(d[1], "artefact")
    IN  /\ Runs(d[1]) /\ Runs(d[2])
        /\ d[3] = (PolicyAccepts(d[2], sig) /\ Verify(d[1], "artefact", sig))

Hello(h) ==
    LET c == h.body.initiator
        s == h.body.responder
    IN  Runs(c) /\ Runs(s) /\ h = ClientHello(c, s)

Reply(r) ==
    LET s    == r.hello.body.responder
        body == SessionServerHello(s, r)
    IN  /\ Hello(r.hello) /\ Accepts(s, r.hello)
        /\ r.reply = [body |-> body, signature |-> Sign(s, ServerHelloMessage(r.hello, body))]

\* The key of a session, at the end that decapsulated kem.
KeyOf(r, v, w, kem) == DeriveKey(OpenSession(v, w, r.hello.body.nonce), kem, r.hello, r.reply)

\* The session p that the reply r led to, at either end.
SessionOf(p, r) ==
    LET c == r.hello.body.initiator
        s == r.hello.body.responder
    IN  /\ p.id = r.id
        /\ \/ p.encrypt = Encrypts(s) /\ p.key = KeyOf(r, s, c, r.reply.body.kem)
           \/ /\ p.encrypt = Encrypts(c)
              /\ p.key = KeyOf(r, c, s, IF Encrypts(c)
                                        THEN Decapsulate(config[c].sessionFile.dec, r.reply.body.kem)
                                        ELSE None)

NodesInv  == \A v \in Nodes : WellFormedIdentity(Identity(v)) /\ (config[v] # None => Started(v))
HellosInv == /\ IsFiniteSet(hellos)
             /\ \A h \in hellos : h.id \in 1 .. MaxSessions /\ Hello(h.hello)
RepliesInv == /\ \A r \in replies : r.id \in 1 .. MaxSessions /\ Reply(r)
              /\ \A r, q \in replies : r.id = q.id => r = q
SessionsInv == \A p \in sessions : \E r \in replies : SessionOf(p, r)
CredentialsInv ==
    /\ DOMAIN config = Nodes
    /\ NodesInv
    /\ \A d \in verdicts : Verdict(d)
    /\ HellosInv /\ RepliesInv /\ SessionsInv

\* Steps keep genesis and the configurations of running nodes, and so what those made.
Kept ==
    /\ genesis' = genesis /\ DOMAIN config = Nodes /\ DOMAIN config' = Nodes
    /\ \A v \in Nodes : config[v] # None => config'[v] = config[v]

LEMMA SignKept ==
    ASSUME Kept, NEW v, Runs(v), NEW msg
    PROVE  Runs(v)' /\ config'[v] = config[v] /\ Sign(v, msg)' = Sign(v, msg)
<1>1. Runs(v)' /\ config'[v] = config[v]
  BY DEF Kept, Runs
<1> QED BY <1>1 DEF Sign

LEMMA VerifyKept ==
    ASSUME Kept, NEW v, NEW msg, NEW sig
    PROVE  Verify(v, msg, sig)' = Verify(v, msg, sig) /\ Identity(v)' = Identity(v)
           /\ SessionIdentity(v)' = SessionIdentity(v)
<1>1. Identity(v)' = Identity(v) /\ SessionIdentity(v)' = SessionIdentity(v)
  BY DEF Kept, Identity, SessionIdentity
<1>2. \A s, part : VerifyPart(v, s, part, msg)' = VerifyPart(v, s, part, msg)
  BY <1>1 DEF VerifyPart
<1> QED BY <1>1, <1>2 DEF Verify

LEMMA StartedKept ==
    ASSUME Kept, NEW v, Runs(v), Started(v)
    PROVE  Started(v)'
<1>1. config'[v] = config[v] /\ genesis' = genesis
  BY DEF Kept, Runs
<1>2. \A c : BuildBackend(v, c)' = BuildBackend(v, c)
  BY <1>1 DEF BuildBackend, BuildSessionBackend, DeterministicIdentityOk, SigningKeyOk, SessionKeyOk,
              VerifyingKeysDecode, Identity, SessionIdentity
<1>3. Identity(v)' = Identity(v)
  BY <1>1 DEF Identity
<1>4. BuildBackend(v, config[v])'
  BY <1>1, <1>2 DEF Started
<1> QED BY <1>1, <1>3, <1>4 DEF Started

LEMMA VerdictKept ==
    ASSUME Kept, NEW d, Verdict(d)
    PROVE  Verdict(d)'
<1>1. /\ Runs(d[1]) /\ Runs(d[2])
      /\ d[3] = /\ PolicyAccepts(d[2], Sign(d[1], "artefact"))
                /\ Verify(d[1], "artefact", Sign(d[1], "artefact"))
  BY DEF Verdict
<1>2. /\ Runs(d[1])' /\ Runs(d[2])' /\ config'[d[2]] = config[d[2]]
      /\ Sign(d[1], "artefact")' = Sign(d[1], "artefact")
  BY <1>1, SignKept
<1>3. Verify(d[1], "artefact", Sign(d[1], "artefact"))' = Verify(d[1], "artefact", Sign(d[1], "artefact"))
  BY <1>2 DEF Verify, VerifyPart, Kept, Identity
<1>4. PolicyAccepts(d[2], Sign(d[1], "artefact"))' = PolicyAccepts(d[2], Sign(d[1], "artefact"))
  BY <1>2 DEF PolicyAccepts
<1> QED BY <1>1, <1>2, <1>3, <1>4 DEF Verdict

LEMMA SessionKept ==
    ASSUME Kept, NEW v, Runs(v)
    PROVE  LocalSession(v)' = LocalSession(v) /\ Encrypts(v)' = Encrypts(v)
<1>1. config'[v] = config[v] /\ genesis' = genesis
  BY DEF Kept, Runs
<1> QED BY <1>1 DEF LocalSession, Encrypts, SessionIdentity

LEMMA HelloKept ==
    ASSUME Kept, NEW h, Hello(h)
    PROVE  Hello(h)'
<1> DEFINE c == h.body.initiator
           s == h.body.responder
<1>1. Runs(c) /\ Runs(s) /\ h = ClientHello(c, s)
  BY DEF Hello
<1>2. Runs(c)' /\ Runs(s)' /\ config'[c] = config[c] /\ \A msg : Sign(c, msg)' = Sign(c, msg)
  BY <1>1, SignKept
<1>3. SessionClientHello(c, s)' = SessionClientHello(c, s)
  BY <1>1, <1>2, SessionKept DEF SessionClientHello
<1>4. ClientHello(c, s)' = ClientHello(c, s)
  BY <1>2, <1>3 DEF ClientHello
<1> QED BY <1>1, <1>2, <1>4 DEF Hello

LEMMA ReplyKept ==
    ASSUME Kept, NEW r, Reply(r)
    PROVE  Reply(r)'
<1> DEFINE s == r.hello.body.responder
<1>1. /\ Hello(r.hello) /\ Accepts(s, r.hello) /\ Runs(s)
      /\ r.reply = [body      |-> SessionServerHello(s, r),
                    signature |-> Sign(s, ServerHelloMessage(r.hello, SessionServerHello(s, r)))]
  BY DEF Reply, Hello
<1>2. Runs(s)' /\ config'[s] = config[s]
  BY <1>1, SignKept
<1>3. SessionServerHello(s, r)' = SessionServerHello(s, r)
  BY <1>1, SessionKept DEF SessionServerHello
<1>4. Accepts(s, r.hello)'
  <2>1. Verify(r.hello.body.initiator, ClientHelloMessage(r.hello.body), r.hello.signature)'
    BY <1>1, VerifyKept DEF Accepts, ClientHelloMessage
  <2>2. \A v, a : ExpectedSession(v, a)' = ExpectedSession(v, a)
    BY DEF ExpectedSession, SessionIdentity, Kept
  <2>3. AcceptsHybrid(s, r.hello.body)' = AcceptsHybrid(s, r.hello.body)
    BY <2>2 DEF AcceptsHybrid
  <2> QED BY <1>1, <1>2, <2>1, <2>3 DEF Accepts, AcceptsDeterministic
<1>5. Hello(r.hello)'
  BY <1>1, HelloKept
<1>6. Sign(s, ServerHelloMessage(r.hello, SessionServerHello(s, r)))'
        = Sign(s, ServerHelloMessage(r.hello, SessionServerHello(s, r)))
  BY <1>2, <1>3 DEF Sign, ServerHelloMessage
<1> QED BY <1>1, <1>3, <1>4, <1>5, <1>6 DEF Reply

LEMMA SessionOfKept ==
    ASSUME Kept, NEW p, NEW r, Reply(r), SessionOf(p, r)
    PROVE  SessionOf(p, r)'
<1> DEFINE c == r.hello.body.initiator
           s == r.hello.body.responder
<1>1. Runs(c) /\ Runs(s)
  BY DEF Reply, Hello
<1>2. config'[c] = config[c] /\ Encrypts(c)' = Encrypts(c) /\ Encrypts(s)' = Encrypts(s)
  BY <1>1, SignKept, SessionKept
<1> QED BY <1>2 DEF SessionOf
\* What was there before a step is after it what it was.
LEMMA OldKept ==
    ASSUME CredentialsInv, Kept
    PROVE  /\ \A v \in Nodes : WellFormedIdentity(Identity(v))' /\ (config[v] # None => Started(v)')
           /\ \A d \in verdicts : Verdict(d)'
           /\ \A h \in hellos : Hello(h.hello)'
           /\ \A r \in replies : Reply(r)'
           /\ \A p \in sessions : \E r \in replies : SessionOf(p, r)'
<1>1. ASSUME NEW v \in Nodes
      PROVE  WellFormedIdentity(Identity(v))' /\ (config[v] # None => Started(v)')
  <2>1. WellFormedIdentity(Identity(v))'
    BY DEF CredentialsInv, NodesInv, Kept, Identity, WellFormedIdentity
  <2> QED BY <2>1, StartedKept DEF CredentialsInv, NodesInv, Runs
<1>2. \A d \in verdicts : Verdict(d)'
  BY VerdictKept DEF CredentialsInv
<1>3. \A h \in hellos : Hello(h.hello)'
  BY HelloKept DEF CredentialsInv, HellosInv
<1>4. \A r \in replies : Reply(r)'
  BY ReplyKept DEF CredentialsInv, RepliesInv
<1>5. ASSUME NEW p \in sessions PROVE \E r \in replies : SessionOf(p, r)'
  <2>1. PICK r \in replies : SessionOf(p, r)
    BY DEF CredentialsInv, SessionsInv
  <2>2. Reply(r)
    BY DEF CredentialsInv, RepliesInv
  <2> QED BY <2>1, <2>2, SessionOfKept
<1> QED BY <1>1, <1>2, <1>3, <1>4, <1>5

\* A node starts when its checks pass.
LEMMA StartInv ==
    ASSUME CredentialsInv, NEW v \in Nodes, NEW c, Start(v, c),
           c.signing \in {"Dev", "MlDsa", "Hybrid"}, c.session \in {"Dev", "HybridKem"}
    PROVE  CredentialsInv'
<1>1. /\ config' = [config EXCEPT ![v] = c] /\ config[v] = None /\ BuildBackend(v, c)
      /\ UNCHANGED <<genesis, verdicts, hellos, replies, sessions>>
  BY DEF Start
<1>2. Kept
  BY <1>1 DEF Kept, CredentialsInv
<1>3. config'[v] = c /\ \A u \in Nodes \ {v} : config'[u] = config[u]
  BY <1>1 DEF CredentialsInv
<1>4. BuildBackend(v, c)'
  BY <1>1 DEF BuildBackend, BuildSessionBackend, DeterministicIdentityOk, SigningKeyOk, SessionKeyOk,
              VerifyingKeysDecode, Identity, SessionIdentity
<1>5. WellFormedIdentity(Identity(v))'
  BY <1>2, OldKept
<1>6. Started(v)'
  <2>1. BuildBackend(v, config[v])'
    BY <1>3, <1>4
  <2> QED BY <1>3, <1>5, <2>1 DEF Started
<1>7. NodesInv'
  BY <1>2, <1>3, <1>6, OldKept DEF NodesInv
<1> QED BY <1>1, <1>2, <1>7, OldKept DEF CredentialsInv, HellosInv, RepliesInv, SessionsInv, Kept

\* A step that starts no node.
LEMMA SameNodes ==
    ASSUME CredentialsInv, UNCHANGED <<genesis, config>>
    PROVE  Kept /\ NodesInv' /\ DOMAIN config' = Nodes
<1>1. Kept
  BY DEF Kept, CredentialsInv
<1>2. NodesInv'
  BY <1>1, OldKept DEF NodesInv
<1> QED BY <1>1, <1>2 DEF Kept

LEMMA GossipInv ==
    ASSUME CredentialsInv, NEW v \in Nodes, NEW w \in Nodes, Gossip(v, w)
    PROVE  CredentialsInv'
<1> DEFINE d == <<v, w, PolicyAccepts(w, Sign(v, "artefact")) /\ Verify(v, "artefact", Sign(v, "artefact"))>>
<1>1. /\ Runs(v) /\ Runs(w) /\ verdicts' = verdicts \cup {d}
      /\ UNCHANGED <<genesis, config, hellos, replies, sessions>>
  BY DEF Gossip, Runs
<1>2. Kept /\ NodesInv' /\ DOMAIN config' = Nodes
  BY <1>1, SameNodes
<1>3. Verdict(d)
  BY <1>1 DEF Verdict
<1> HIDE DEF d
<1>4. \A x \in verdicts' : Verdict(x)
  BY <1>1, <1>3 DEF CredentialsInv
<1>5. \A x \in verdicts' : Verdict(x)'
  BY <1>2, <1>4, VerdictKept
<1> QED BY <1>1, <1>2, <1>5, OldKept DEF CredentialsInv, HellosInv, RepliesInv, SessionsInv

LEMMA SendHelloInv ==
    ASSUME CredentialsAssumption, CredentialsInv, NEW c \in Nodes, NEW s \in Nodes, SendHello(c, s)
    PROVE  CredentialsInv'
<1> DEFINE h == [id |-> Cardinality(hellos) + 1, hello |-> ClientHello(c, s)]
<1>1. /\ Runs(c) /\ Runs(s) /\ hellos' = hellos \cup {h} /\ Cardinality(hellos) < MaxSessions
      /\ UNCHANGED <<genesis, config, verdicts, replies, sessions>>
  BY DEF SendHello, Runs
<1>2. Kept /\ NodesInv' /\ DOMAIN config' = Nodes
  BY <1>1, SameNodes
<1>3. ClientHello(c, s).body.initiator = c /\ ClientHello(c, s).body.responder = s
  BY DEF ClientHello, SessionClientHello
<1>4. Hello(h.hello)
  BY <1>1, <1>3 DEF Hello
<1>5. IsFiniteSet(hellos) /\ Cardinality(hellos) \in Nat
  BY FS_CardinalityType DEF CredentialsInv, HellosInv
<1>6. h.id \in 1 .. MaxSessions
  BY <1>1, <1>5 DEF CredentialsAssumption
<1> HIDE DEF h
<1>7. IsFiniteSet(hellos')
  BY <1>1, <1>5, FS_AddElement
<1>8. \A x \in hellos' : x.id \in 1 .. MaxSessions /\ Hello(x.hello)
  BY <1>1, <1>4, <1>6 DEF CredentialsInv, HellosInv
<1>9. \A x \in hellos' : Hello(x.hello)'
  BY <1>2, <1>8, HelloKept
<1> QED BY <1>1, <1>2, <1>7, <1>8, <1>9, OldKept DEF CredentialsInv, HellosInv, RepliesInv, SessionsInv

LEMMA AcceptInv ==
    ASSUME CredentialsInv, NEW s \in Nodes, NEW h \in hellos, Accept(s, h)
    PROVE  CredentialsInv'
<1> DEFINE c     == h.hello.body.initiator
           body  == SessionServerHello(s, h)
           reply == [body |-> body, signature |-> Sign(s, ServerHelloMessage(h.hello, body))]
           r     == [id |-> h.id, hello |-> h.hello, reply |-> reply]
           p     == [id |-> h.id, side |-> "server", encrypt |-> Encrypts(s),
                     key |-> DeriveKey(OpenSession(s, c, h.hello.body.nonce), body.kem, h.hello, reply)]
<1>1. /\ Accepts(s, h.hello) /\ (\A q \in replies : q.id # h.id)
      /\ replies' = replies \cup {r} /\ sessions' = sessions \cup {p}
      /\ UNCHANGED <<genesis, config, verdicts, hellos>>
  BY DEF Accept
<1>2. Kept /\ NodesInv' /\ DOMAIN config' = Nodes
  BY <1>1, SameNodes
<1>3. h.id \in 1 .. MaxSessions /\ Hello(h.hello) /\ h.hello.body.responder = s
  BY <1>1 DEF CredentialsInv, HellosInv, Accepts
<1>4. r.id = h.id /\ r.hello = h.hello /\ r.reply = reply /\ reply.body = body
  OBVIOUS
<1>5. SessionServerHello(s, r) = body
  BY <1>4 DEF SessionServerHello
<1>6. Reply(r)
  BY <1>1, <1>3, <1>4, <1>5 DEF Reply
<1>7. SessionOf(p, r)
  BY <1>3, <1>4 DEF SessionOf, KeyOf
<1> HIDE DEF r, p
<1>8. \A q \in replies' : q.id \in 1 .. MaxSessions /\ Reply(q)
  BY <1>1, <1>3, <1>4, <1>6 DEF CredentialsInv, RepliesInv
<1>9. \A q \in replies' : Reply(q)'
  BY <1>2, <1>8, ReplyKept
<1>10. \A x, y \in replies' : x.id = y.id => x = y
  BY <1>1, <1>4 DEF CredentialsInv, RepliesInv
<1>11. \A x \in sessions' : \E q \in replies' : SessionOf(x, q)
  BY <1>1, <1>7 DEF CredentialsInv, SessionsInv
<1>12. \A x \in sessions' : \E q \in replies' : SessionOf(x, q)'
  BY <1>2, <1>8, <1>11, SessionOfKept
<1> QED BY <1>1, <1>2, <1>8, <1>9, <1>10, <1>12, OldKept DEF CredentialsInv, HellosInv, RepliesInv, SessionsInv

LEMMA FinalizeInv ==
    ASSUME CredentialsInv, NEW c \in Nodes, NEW r \in replies, Finalize(c, r)
    PROVE  CredentialsInv'
<1> DEFINE kem == IF Encrypts(c) THEN Decapsulate(config[c].sessionFile.dec, r.reply.body.kem) ELSE None
           p   == [id |-> r.id, side |-> "client", encrypt |-> Encrypts(c),
                   key |-> DeriveKey(OpenSession(c, r.reply.body.responder, r.hello.body.nonce),
                                     kem, r.hello, r.reply)]
<1>1. /\ Finalizes(c, r) /\ sessions' = sessions \cup {p}
      /\ UNCHANGED <<genesis, config, verdicts, hellos, replies>>
  BY DEF Finalize
<1>2. Kept /\ NodesInv' /\ DOMAIN config' = Nodes
  BY <1>1, SameNodes
<1>3. r.hello.body.initiator = c /\ r.reply.body.responder = r.hello.body.responder
  BY <1>1 DEF Finalizes
<1>4. SessionOf(p, r)
  BY <1>3 DEF SessionOf, KeyOf
<1> HIDE DEF p
<1>5. \A q \in replies' : Reply(q)
  BY <1>1 DEF CredentialsInv, RepliesInv
<1>6. \A x \in sessions' : \E q \in replies' : SessionOf(x, q)
  BY <1>1, <1>4 DEF CredentialsInv, SessionsInv
<1>7. \A x \in sessions' : \E q \in replies' : SessionOf(x, q)'
  BY <1>2, <1>5, <1>6, SessionOfKept
<1> QED BY <1>1, <1>2, <1>7, OldKept DEF CredentialsInv, HellosInv, RepliesInv, SessionsInv
-----------------------------------------------------------------------------
\* Both ends of an accepted handshake have the same backend, and of two that encrypt the
\* ciphertext is made for the initiator's key.
LEMMA ReplyTells ==
    ASSUME CredentialsInv, NEW r \in replies
    PROVE  LET c == r.hello.body.initiator
               s == r.hello.body.responder
           IN  /\ Runs(c) /\ Runs(s) /\ Started(c) /\ Started(s)
               /\ Encrypts(c) <=> Encrypts(s)
               /\ r.hello.body = SessionClientHello(c, s) /\ r.hello.body.identity = LocalSession(c)
               /\ r.reply.body = SessionServerHello(s, r)
               /\ r.reply.signature = Sign(s, ServerHelloMessage(r.hello, r.reply.body))
               /\ Encrypts(s) => r.reply.body.kem = <<config[c].sessionFile.enc, r.id>>
               /\ ~Encrypts(s) => r.reply.body.kem = None
<1> DEFINE c == r.hello.body.initiator
           s == r.hello.body.responder
<1>1. Reply(r) /\ Hello(r.hello) /\ Runs(c) /\ Runs(s) /\ Started(c) /\ Started(s)
  BY DEF CredentialsInv, RepliesInv, Reply, Hello, NodesInv, Runs
<1>2. /\ r.hello.body = SessionClientHello(c, s) /\ r.hello.body.identity = LocalSession(c)
      /\ Encrypts(c) => r.hello.body.kem = config[c].sessionFile.enc
  BY <1>1 DEF Hello, ClientHello, SessionClientHello, Encrypts
<1>3. Encrypts(c) <=> Encrypts(s)
  <2>1. IF config[s].session = "Dev" THEN AcceptsDeterministic(s, r.hello.body)
                                     ELSE AcceptsHybrid(s, r.hello.body)
    BY <1>1 DEF Reply, Accepts
  <2>2. ASSUME Encrypts(s), ~Encrypts(c) PROVE FALSE
    <3>1. HasPart(LocalSession(c), "MlKem", r.hello.body.kem)
      BY <1>2, <2>1, <2>2 DEF Encrypts, AcceptsHybrid
    <3>2. LocalSession(c) = DevSession(c)
      BY <1>1, <2>2, SessionTells
    <3> QED BY <3>1, <3>2, DevSessionPlain
  <2>3. ASSUME Encrypts(c), ~Encrypts(s) PROVE FALSE
    <3>1. config[s].session = "Dev"
      BY <1>1, <2>3, SessionTells
    <3>2. LocalSession(c) = DevSession(c)
      BY <1>2, <2>1, <3>1 DEF AcceptsDeterministic
    <3>3. LocalSession(c).scheme \in {"MlKem", "Hybrid"}
      BY <1>1, <2>3, SessionTells
    <3> QED BY <3>2, <3>3, DevSessionPlain DEF Dev
  <2> QED BY <2>2, <2>3
<1>4. /\ r.reply.body = SessionServerHello(s, r)
      /\ r.reply.signature = Sign(s, ServerHelloMessage(r.hello, r.reply.body))
  BY <1>1 DEF Reply
<1>5. /\ Encrypts(s) => r.reply.body.kem = <<config[c].sessionFile.enc, r.id>>
      /\ ~Encrypts(s) => r.reply.body.kem = None
  BY <1>2, <1>3, <1>4 DEF SessionServerHello
<1> QED BY <1>1, <1>2, <1>3, <1>4, <1>5

LEMMA SignaturesGood ==
    ASSUME CredentialsInv
    PROVE  SignaturesAccepted /\ AcceptedMatchesIdentity
<1>1. ASSUME NEW d \in verdicts, FilesFit(d[1])
      PROVE  d[3] \/ (config[d[2]].enforce /\ config[d[1]].signing # "Hybrid")
  <2>1. Verdict(d) /\ Runs(d[1]) /\ Started(d[1])
    BY DEF CredentialsInv, NodesInv, Verdict, Runs
  <2>2. Verify(d[1], "artefact", Sign(d[1], "artefact"))
    BY <1>1, <2>1, SignVerifies
  <2>3. config[d[1]].signing = "Hybrid" => Sign(d[1], "artefact").scheme = "Hybrid"
    BY <2>1, SignParts DEF Started
  <2> QED BY <2>1, <2>2, <2>3 DEF Verdict, PolicyAccepts
<1>2. ASSUME NEW d \in verdicts, d[3], config[d[1]].signing # "Dev"
      PROVE  HasPart(genesis[d[1]].identity, "MlDsa", config[d[1]].file.signing)
  <2>1. Verdict(d) /\ Started(d[1])
    BY DEF CredentialsInv, NodesInv, Verdict, Runs
  <2>2. Verify(d[1], "artefact", Sign(d[1], "artefact"))
    BY <1>2, <2>1 DEF Verdict
  <2>3. config[d[1]].signing \in {"MlDsa", "Hybrid"}
    BY <1>2, <2>1 DEF Started
  <2> QED BY <2>2, <2>3, VerifiedKey DEF Identity
<1> QED BY <1>1, <1>2 DEF SignaturesAccepted, AcceptedMatchesIdentity

\* Every session key files may make: the ciphertext of a reply is there.
CiphertextsGiven == \A r \in replies : Encrypts(r.hello.body.responder) => r.reply.body.kem # None

LEMMA HandshakesGood ==
    ASSUME CredentialsInv, CiphertextsGiven
    PROVE  HandshakesSucceed
<1>1. ASSUME NEW h \in hellos, FilesFit(h.hello.body.initiator),
             config[h.hello.body.initiator].session = config[h.hello.body.responder].session
      PROVE  Accepts(h.hello.body.responder, h.hello)
  <2> DEFINE c == h.hello.body.initiator
             s == h.hello.body.responder
             b == h.hello.body
  <2>1. Hello(h.hello) /\ Started(c) /\ Started(s)
    BY DEF CredentialsInv, HellosInv, NodesInv, Hello, Runs
  <2>2. /\ b = SessionClientHello(c, s) /\ h.hello.signature = Sign(c, ClientHelloMessage(b))
    BY <2>1 DEF Hello, ClientHello
  <2>3. Verify(c, ClientHelloMessage(b), h.hello.signature)
    BY <1>1, <2>1, <2>2, SignVerifies
  <2>4. /\ b.identity = LocalSession(c)
        /\ b.kem = IF Encrypts(c) THEN config[c].sessionFile.enc ELSE None
    BY <2>2 DEF SessionClientHello, Encrypts
  <2>5. CASE config[s].session = "Dev"
    <3>1. ~Encrypts(c)
      BY <1>1, <2>5 DEF Encrypts
    <3> QED BY <2>1, <2>3, <2>4, <2>5, <3>1, SessionTells DEF Accepts, AcceptsDeterministic
  <2>6. CASE config[s].session # "Dev"
    <3>1. Encrypts(c)
      BY <1>1, <2>1, <2>6 DEF Encrypts, Started
    <3>2. /\ b.identity = SessionIdentity(c) /\ b.identity.scheme \in {"MlKem", "Hybrid"}
          /\ HasPart(b.identity, "MlKem", b.kem)
      BY <2>1, <2>4, <3>1, SessionTells
    <3>3. KemDecodes(b.kem)
      BY <1>1, <2>4, <3>1 DEF FilesFit, Encrypts
    <3>4. AcceptsHybrid(s, b)
      BY <3>2, <3>3 DEF AcceptsHybrid, ExpectedSession
    <3> QED BY <2>3, <2>6, <3>4 DEF Accepts
  <2> QED BY <2>5, <2>6
<1>2. ASSUME NEW r \in replies, FilesFit(r.hello.body.responder)
      PROVE  Finalizes(r.hello.body.initiator, r)
  <2> DEFINE c == r.hello.body.initiator
             s == r.hello.body.responder
             b == r.reply.body
  <2>1. /\ Started(s) /\ (Encrypts(c) <=> Encrypts(s))
        /\ b = SessionServerHello(s, r) /\ r.reply.signature = Sign(s, ServerHelloMessage(r.hello, b))
        /\ ~Encrypts(s) => b.kem = None
    BY ReplyTells
  <2>2. b.initiator = c /\ b.responder = s /\ b.nonce = r.hello.body.nonce /\ b.identity = LocalSession(s)
    BY <2>1 DEF SessionServerHello
  <2>3. Verify(s, ServerHelloMessage(r.hello, b), r.reply.signature)
    BY <1>2, <2>1, SignVerifies
  <2>4. Encrypts(c) => ExpectedSession(s, b.identity) /\ b.kem # None
    BY <2>1, <2>2, SessionTells DEF ExpectedSession, CiphertextsGiven
  <2>5. ~Encrypts(c) => b.kem = None /\ b.identity = DevSession(s)
    BY <2>1, <2>2, SessionTells
  <2> QED BY <2>2, <2>3, <2>4, <2>5 DEF Finalizes
<1> QED BY <1>1, <1>2 DEF HandshakesSucceed

LEMMA KeysGood ==
    ASSUME CredentialsAssumption, CredentialsInv
    PROVE  KeysAgree /\ KeysFresh
<1>1. ASSUME NEW p \in sessions, NEW r \in replies, p.id = r.id PROVE SessionOf(p, r)
  <2>1. PICK q \in replies : SessionOf(p, q)
    BY DEF CredentialsInv, SessionsInv
  <2>2. q = r
    BY <1>1, <2>1 DEF SessionOf, CredentialsInv, RepliesInv
  <2> QED BY <2>1, <2>2
<1>2. ASSUME NEW r \in replies, FilesFit(r.hello.body.initiator), NEW p \in sessions, p.id = r.id
      PROVE  /\ p.encrypt = Encrypts(r.hello.body.responder)
             /\ p.key = KeyOf(r, r.hello.body.responder, r.hello.body.initiator, r.reply.body.kem)
  <2> DEFINE c == r.hello.body.initiator
             s == r.hello.body.responder
  <2>1. /\ (Encrypts(c) <=> Encrypts(s)) /\ c \in Nat /\ s \in Nat
        /\ Encrypts(s) => r.reply.body.kem = <<config[c].sessionFile.enc, r.id>>
        /\ ~Encrypts(s) => r.reply.body.kem = None
    BY ReplyTells DEF Runs, CredentialsAssumption
  <2>2. SessionOf(p, r)
    BY <1>1, <1>2
  <2>3. Encrypts(c) = Encrypts(s)
    BY <2>1 DEF Encrypts
  <2>4. r.reply.body.kem = IF Encrypts(c) THEN Decapsulate(config[c].sessionFile.dec, r.reply.body.kem)
                                          ELSE None
    BY <1>2, <2>1 DEF Decapsulate, FilesFit, Encrypts
  <2>5. OpenSession(c, s, r.hello.body.nonce) = OpenSession(s, c, r.hello.body.nonce)
    BY <2>1, OpenSessionSymmetric
  <2> QED BY <2>2, <2>3, <2>4, <2>5 DEF SessionOf, KeyOf
<1>3. KeysAgree
  BY <1>2 DEF KeysAgree
<1>4. ASSUME NEW p \in sessions, NEW q \in sessions, p.encrypt, p.key = q.key PROVE p.id = q.id
  <2>1. PICK r \in replies : SessionOf(p, r)
    BY DEF CredentialsInv, SessionsInv
  <2>2. PICK t \in replies : SessionOf(q, t)
    BY DEF CredentialsInv, SessionsInv
  <2>3. p.key[3] = TranscriptHash(r.hello, r.reply) /\ q.key[3] = TranscriptHash(t.hello, t.reply)
    BY <2>1, <2>2 DEF SessionOf, KeyOf, DeriveKey
  <2>4. r.hello = t.hello /\ r.reply = t.reply
    BY <1>4, <2>3 DEF TranscriptHash
  <2>5. Encrypts(r.hello.body.responder)
    BY <1>4, <2>1, ReplyTells DEF SessionOf
  <2>6. r.reply.body.kem[2] = r.id /\ t.reply.body.kem[2] = t.id
    BY <2>4, <2>5, ReplyTells
  <2> QED BY <2>1, <2>2, <2>4, <2>6 DEF SessionOf
<1> QED BY <1>3, <1>4 DEF KeysFresh
\* What holds of all behaviours of the credentials.
LEMMA CredentialsInvariant ==
    ASSUME CredentialsAssumption
    PROVE  CredentialsSpec => [](PeersUnderstand /\ KeysFresh /\ AcceptedMatchesIdentity)
<1> DEFINE Requested == \A v \in Nodes : config[v] # None => config[v] \in Requests
           Inv == CredentialsInv /\ Requested
<1>0. ASSUME NEW c \in Requests
      PROVE  /\ c.signing \in {"Dev", "MlDsa", "Hybrid"} /\ c.session \in {"Dev", "HybridKem"}
             /\ c.session = "HybridKem" => c.sessionFile \in SessionKeyFiles \cup {None}
  BY DEF Requests
<1>1. CredentialsInit => Inv
  <2> SUFFICES ASSUME CredentialsInit PROVE Inv
    OBVIOUS
  <2>1. /\ DOMAIN config = Nodes /\ (\A v \in Nodes : config[v] = None)
        /\ verdicts = {} /\ hellos = {} /\ replies = {} /\ sessions = {}
    BY DEF CredentialsInit
  <2>2. \A v \in Nodes : WellFormedIdentity(Identity(v))
    BY DEF CredentialsInit, CredentialsAssumption, Identity
  <2>3. IsFiniteSet(hellos)
    BY <2>1, FS_EmptySet
  <2> QED BY <2>1, <2>2, <2>3 DEF CredentialsInv, NodesInv, HellosInv, RepliesInv, SessionsInv
<1>2. Inv /\ [CredentialsNext]_credentials => Inv'
  <2> SUFFICES ASSUME Inv, [CredentialsNext]_credentials PROVE Inv'
    OBVIOUS
  <2>1. ASSUME NEW v \in Nodes, NEW c \in Requests, Start(v, c) PROVE Inv'
    <3>1. CredentialsInv'
      BY <1>0, <2>1, StartInv
    <3>2. Requested'
      BY <2>1 DEF Start, CredentialsInv
    <3> QED BY <3>1, <3>2
  <2>2. ASSUME NEW v \in Nodes, NEW w \in Nodes, Gossip(v, w) PROVE Inv'
    BY <2>2, GossipInv DEF Gossip
  <2>3. ASSUME NEW c \in Nodes, NEW s \in Nodes, SendHello(c, s) PROVE Inv'
    BY <2>3, SendHelloInv DEF SendHello
  <2>4. ASSUME NEW s \in Nodes, NEW h \in hellos, Accept(s, h) PROVE Inv'
    <3>1. config' = config
      BY <2>4 DEF Accept
    <3> QED BY <2>4, <3>1, AcceptInv
  <2>5. ASSUME NEW c \in Nodes, NEW r \in replies, Finalize(c, r) PROVE Inv'
    <3>1. config' = config
      BY <2>5 DEF Finalize
    <3> QED BY <2>5, <3>1, FinalizeInv
  <2>6. CASE UNCHANGED credentials
    <3>1. UNCHANGED <<genesis, config>> /\ UNCHANGED <<verdicts, hellos, replies, sessions>>
      BY <2>6 DEF credentials
    <3>2. Kept /\ NodesInv' /\ DOMAIN config' = Nodes
      BY <3>1, SameNodes
    <3> QED BY <3>1, <3>2, OldKept DEF CredentialsInv, HellosInv, RepliesInv, SessionsInv
  <2> QED BY <2>1, <2>2, <2>3, <2>4, <2>5, <2>6 DEF CredentialsNext
<1>3. Inv => PeersUnderstand /\ KeysFresh /\ AcceptedMatchesIdentity
  <2> SUFFICES ASSUME Inv PROVE PeersUnderstand /\ KeysFresh /\ AcceptedMatchesIdentity
    OBVIOUS
  <2>1. ASSUME NEW r \in replies, Encrypts(r.hello.body.responder) PROVE r.reply.body.kem # None
    <3> DEFINE c == r.hello.body.initiator
    <3>1. /\ Runs(c) /\ Started(c) /\ Encrypts(c)
          /\ r.reply.body.kem = <<config[c].sessionFile.enc, r.id>>
      BY <2>1, ReplyTells
    <3>2. config[c].sessionFile # None
      BY <3>1, SessionTells
    <3>3. config[c].sessionFile \in SessionKeyFiles
      BY <1>0, <3>1, <3>2 DEF Runs, Encrypts
    <3>4. r.id \in 1 .. MaxSessions
      BY DEF CredentialsInv, RepliesInv
    <3> QED BY <3>1, <3>3, <3>4 DEF CredentialsAssumption
  <2>2. CiphertextsGiven
    BY <2>1 DEF CiphertextsGiven
  <2> QED BY <2>2, SignaturesGood, HandshakesGood, KeysGood DEF PeersUnderstand
<1> QED BY <1>1, <1>2, <1>3, PTL DEF CredentialsSpec

\* In every reachable state nodes that passed their startup checks, with key files that
\* hold key pairs, understand each other: what they sign is accepted, sessions between like
\* backends are not refused and both ends derive one key, for all identities, key files,
\* mixtures of backends and orders of starts, hellos and replies (build_crypto_backend,
\* verify_signature_against_identity, accept_client_hello, finalize_client_session).
THEOREM PeersAlwaysUnderstand ==
    ASSUME CredentialsAssumption
    PROVE  CredentialsSpec => []PeersUnderstand
  BY CredentialsInvariant, PTL

\* No two encrypted sessions ever share a key, for any number of handshakes, though all
\* their nonces are equal: the transcript holds the ciphertext that was made for the
\* session (derive_session_material, session_transcript_hash, frame_nonce).
THEOREM KeysAlwaysFresh ==
    ASSUME CredentialsAssumption
    PROVE  CredentialsSpec => []KeysFresh
  BY CredentialsInvariant, PTL

\* Whatever key file a node was started with, what its peers accept from it was signed with
\* the key that genesis names (verify_single_signature_component).
THEOREM AcceptedAlwaysMatchesIdentity ==
    ASSUME CredentialsAssumption
    PROVE  CredentialsSpec => []AcceptedMatchesIdentity
  BY CredentialsInvariant, PTL

-----------------------------------------------------------------------------
\* Genesis and the configurations that init_localnet writes pass the startup checks.
LocalnetInv ==
    /\ genesis \in {GenesisOf(TRUE), GenesisOf(FALSE)}
    /\ \A v \in Nodes : config[v] # None => config[v] = Material(IsHybrid, v).request

LEMMA HybridNetPasses ==
    ASSUME LocalnetAssumption, genesis = GenesisOf(TRUE), NEW v \in Nodes
    PROVE  LET c == HybridMaterial(v).request
           IN  EnforcementOk(c) /\ BuildBackend(v, c) /\ WellFormedIdentity(Identity(v))
<1> DEFINE c == HybridMaterial(v).request
<1>1. \A w \in Nodes : /\ Identity(w) = HybridMaterial(w).identity /\ SessionIdentity(w) = HybridSession(w)
                       /\ genesis[w].identity = HybridMaterial(w).identity
  BY DEF GenesisOf, Material, Identity, SessionIdentity, HybridMaterial
<1>2. /\ c.signing = "Hybrid" /\ c.session = "HybridKem"
      /\ c.file = SigningFile(v) /\ c.sessionFile = SessionFile(v)
  BY DEF HybridMaterial
<1>3. \A w \in Nodes : LET id == HybridMaterial(w).identity
                       IN  /\ id.scheme = "Hybrid" /\ DOMAIN id.parts = {Dev, "MlDsa"}
                           /\ id.parts[Dev] = <<"validator", w>> /\ id.parts["MlDsa"] = <<"ml-dsa", w>>
  BY DEF HybridMaterial, Two, Dev
<1>4. EnforcementOk(c)
  BY <1>1, <1>3 DEF EnforcementOk
<1>5. SessionKeyOk(v, c)
  <2>1. /\ HybridSession(v).scheme = "Hybrid" /\ "MlKem" \in DOMAIN HybridSession(v).parts
        /\ HybridSession(v).parts["MlKem"] = <<"ml-kem", v>>
    BY DEF HybridSession, Two, Dev
  <2>2. SessionFile(v).enc = <<"ml-kem", v>>
    BY DEF SessionFile
  <2> QED BY <1>1, <1>2, <2>1, <2>2 DEF SessionKeyOk, HasPart, LocalnetAssumption
<1>6. DeterministicIdentityOk(v)
  BY <1>1, <1>3 DEF DeterministicIdentityOk, HasPart
<1>7. SigningKeyOk(v, c)
  <2>1. SigningFile(v).signing = <<"ml-dsa", v>> /\ SigningFile(v).verifying = <<"ml-dsa", v>>
    BY DEF SigningFile
  <2> QED BY <1>1, <1>2, <1>3, <2>1 DEF SigningKeyOk, HasPart, Decodes, LocalnetAssumption
<1>8. VerifyingKeysDecode
  BY <1>1, <1>3 DEF VerifyingKeysDecode, Decodes, LocalnetAssumption
<1>9. WellFormedIdentity(Identity(v))
  BY <1>1, <1>3 DEF WellFormedIdentity
<1> QED BY <1>4, <1>5, <1>6, <1>7, <1>8, <1>9 DEF BuildBackend, BuildSessionBackend

LEMMA DevNetPasses ==
    ASSUME genesis = GenesisOf(FALSE), NEW v \in Nodes
    PROVE  LET c == DevMaterial(v).request
           IN  EnforcementOk(c) /\ BuildBackend(v, c) /\ WellFormedIdentity(Identity(v))
<1> DEFINE c == DevMaterial(v).request
<1>1. \A w \in Nodes : Identity(w) = DevIdentity(w)
  BY DEF GenesisOf, Material, Identity, DevMaterial
<1>2. c.signing = "Dev" /\ c.session = "Dev" /\ c.enforce = FALSE
  BY DEF DevMaterial
<1>3. \A w \in Nodes : /\ DevIdentity(w).scheme = Dev /\ DOMAIN DevIdentity(w).parts = {Dev}
                       /\ DevIdentity(w).parts[Dev] = <<"validator", w>>
  BY DEF DevIdentity, One
<1>4. DeterministicIdentityOk(v)
  BY <1>1, <1>3 DEF DeterministicIdentityOk, HasPart
<1>5. VerifyingKeysDecode
  BY <1>1, <1>3 DEF VerifyingKeysDecode, Dev
<1> QED BY <1>1, <1>2, <1>3, <1>4, <1>5
        DEF BuildBackend, BuildSessionBackend, EnforcementOk, WellFormedIdentity, Dev

\* Every node of a localnet that init_localnet wrote passes its startup checks whatever
\* nodes have started before, whatever it signs is accepted by every other node, and under
\* hybrid enforcement every session is encrypted, for any number of nodes
\* (generate_hybrid_validator_material, build_crypto_backend).
THEOREM LocalnetAlwaysBoots ==
    ASSUME CredentialsAssumption, LocalnetAssumption
    PROVE  LocalnetSpec => []LocalnetBoots
<1> DEFINE Inv == CredentialsInv /\ LocalnetInv
<1>0. ASSUME genesis \in {GenesisOf(TRUE), GenesisOf(FALSE)}, NEW v \in Nodes
      PROVE  LET c == Material(IsHybrid, v).request
             IN  /\ EnforcementOk(c) /\ BuildBackend(v, c) /\ WellFormedIdentity(Identity(v))
                 /\ c.signing \in {"Dev", "MlDsa", "Hybrid"} /\ c.session \in {"Dev", "HybridKem"}
  <2>1. CASE IsHybrid
    <3>1. Material(IsHybrid, v) = HybridMaterial(v) /\ genesis = GenesisOf(TRUE)
      BY <2>1 DEF Material, IsHybrid
    <3>2. HybridMaterial(v).request.signing = "Hybrid" /\ HybridMaterial(v).request.session = "HybridKem"
      BY DEF HybridMaterial
    <3> QED BY <3>1, <3>2, HybridNetPasses
  <2>2. CASE ~IsHybrid
    <3>1. Material(IsHybrid, v) = DevMaterial(v) /\ genesis = GenesisOf(FALSE)
      BY <1>0, <2>2 DEF Material, IsHybrid
    <3>2. DevMaterial(v).request.signing = "Dev" /\ DevMaterial(v).request.session = "Dev"
      BY DEF DevMaterial
    <3> QED BY <3>1, <3>2, DevNetPasses
  <2> QED BY <2>1, <2>2
<1>1. LocalnetInit => Inv
  <2> SUFFICES ASSUME LocalnetInit PROVE Inv
    OBVIOUS
  <2>1. /\ DOMAIN config = Nodes /\ (\A v \in Nodes : config[v] = None)
        /\ verdicts = {} /\ hellos = {} /\ replies = {} /\ sessions = {}
        /\ genesis \in {GenesisOf(TRUE), GenesisOf(FALSE)}
    BY DEF LocalnetInit
  <2>2. \A v \in Nodes : WellFormedIdentity(Identity(v))
    BY <1>0, <2>1
  <2>3. IsFiniteSet(hellos)
    BY <2>1, FS_EmptySet
  <2> QED BY <2>1, <2>2, <2>3 DEF CredentialsInv, NodesInv, HellosInv, RepliesInv, SessionsInv, LocalnetInv
<1>2. Inv /\ [LocalnetNext]_credentials => Inv'
  <2> SUFFICES ASSUME Inv, [LocalnetNext]_credentials PROVE Inv'
    OBVIOUS
  <2>1. ASSUME NEW v \in Nodes, Start(v, Material(IsHybrid, v).request) PROVE Inv'
    <3>1. /\ genesis' = genesis /\ config' = [config EXCEPT ![v] = Material(IsHybrid, v).request]
      BY <2>1 DEF Start
    <3>2. IsHybrid' = IsHybrid /\ GenesisOf(TRUE)' = GenesisOf(TRUE) /\ GenesisOf(FALSE)' = GenesisOf(FALSE)
      BY <3>1 DEF IsHybrid
    <3>3. CredentialsInv'
      BY <1>0, <2>1, StartInv DEF LocalnetInv
    <3>4. LocalnetInv'
      BY <3>1, <3>2 DEF LocalnetInv, CredentialsInv
    <3> QED BY <3>3, <3>4
  <2>2. ASSUME CredentialsInv', UNCHANGED <<genesis, config>> PROVE Inv'
    <3>1. IsHybrid' = IsHybrid
      BY <2>2 DEF IsHybrid
    <3> QED BY <2>2, <3>1 DEF LocalnetInv
  <2>3. ASSUME NEW v \in Nodes, NEW w \in Nodes, Gossip(v, w) PROVE Inv'
    BY <2>2, <2>3, GossipInv DEF Gossip
  <2>4. ASSUME NEW c \in Nodes, NEW s \in Nodes, SendHello(c, s) PROVE Inv'
    BY <2>2, <2>4, SendHelloInv DEF SendHello
  <2>5. ASSUME NEW s \in Nodes, NEW h \in hellos, Accept(s, h) PROVE Inv'
    <3>1. UNCHANGED <<genesis, config>>
      BY <2>5 DEF Accept
    <3> QED BY <2>2, <2>5, <3>1, AcceptInv
  <2>6. ASSUME NEW c \in Nodes, NEW r \in replies, Finalize(c, r) PROVE Inv'
    <3>1. UNCHANGED <<genesis, config>>
      BY <2>6 DEF Finalize
    <3> QED BY <2>2, <2>6, <3>1, FinalizeInv
  <2>7. CASE UNCHANGED credentials
    <3>1. UNCHANGED <<genesis, config>> /\ UNCHANGED <<verdicts, hellos, replies, sessions>>
      BY <2>7 DEF credentials
    <3>2. Kept /\ NodesInv' /\ DOMAIN config' = Nodes
      BY <3>1, SameNodes
    <3>3. CredentialsInv'
      BY <3>1, <3>2, OldKept DEF CredentialsInv, HellosInv, RepliesInv, SessionsInv
    <3> QED BY <2>2, <3>1, <3>3
  <2> QED BY <2>1, <2>3, <2>4, <2>5, <2>6, <2>7 DEF LocalnetNext
<1>3. Inv => LocalnetBoots
  <2> SUFFICES ASSUME Inv PROVE LocalnetBoots
    OBVIOUS
  <2>1. \A v \in Nodes : LET c == Material(IsHybrid, v).request IN EnforcementOk(c) /\ BuildBackend(v, c)
    BY <1>0 DEF LocalnetInv
  <2>2. \A v : Runs(v) => config[v] = Material(IsHybrid, v).request
    BY DEF LocalnetInv, Runs
  <2>5. ASSUME IsHybrid, NEW v, Runs(v)
        PROVE  /\ config[v].signing = "Hybrid" /\ config[v].session = "HybridKem"
               /\ config[v].file = SigningFile(v) /\ config[v].sessionFile = SessionFile(v)
    <3>1. config[v] = HybridMaterial(v).request
      BY <2>2, <2>5 DEF Material
    <3>2. HybridMaterial(v).request =
            [signing |-> "Hybrid", file |-> SigningFile(v),
             session |-> "HybridKem", sessionFile |-> SessionFile(v), enforce |-> TRUE]
      BY DEF HybridMaterial
    <3> QED BY <3>1, <3>2
  <2>3. ASSUME NEW d \in verdicts PROVE d[3]
    <3>1. Runs(d[1]) /\ Runs(d[2])
      BY DEF CredentialsInv, Verdict
    <3>2. CASE IsHybrid
      <4>1. /\ config[d[1]].signing = "Hybrid"
            /\ config[d[1]].file = SigningFile(d[1]) /\ config[d[1]].sessionFile = SessionFile(d[1])
        BY <2>5, <3>1, <3>2
      <4>2. FilesFit(d[1])
        <5>1. SigningFile(d[1]).signing = SigningFile(d[1]).verifying
          BY DEF SigningFile
        <5>2. SessionFile(d[1]).dec = SessionFile(d[1]).enc /\ SessionFile(d[1]).enc = <<"ml-kem", d[1]>>
          BY DEF SessionFile
        <5>3. KemDecodes(<<"ml-kem", d[1]>>)
          BY <3>1 DEF KemDecodes, LocalnetAssumption, Runs
        <5> QED BY <4>1, <5>1, <5>2, <5>3 DEF FilesFit
      <4> QED BY <4>1, <4>2, SignaturesGood DEF SignaturesAccepted
    <3>3. CASE ~IsHybrid
      <4>1. /\ config[d[1]].signing = "Dev" /\ config[d[1]].session = "Dev" /\ config[d[2]].enforce = FALSE
        BY <2>2, <3>1, <3>3 DEF Material, DevMaterial
      <4>2. FilesFit(d[1])
        BY <4>1 DEF FilesFit
      <4> QED BY <4>1, <4>2, SignaturesGood DEF SignaturesAccepted
    <3> QED BY <3>2, <3>3
  <2>4. ASSUME IsHybrid, NEW p \in sessions PROVE p.encrypt
    <3>1. PICK r \in replies : SessionOf(p, r)
      BY DEF CredentialsInv, SessionsInv
    <3>2. Runs(r.hello.body.initiator) /\ Runs(r.hello.body.responder)
      BY ReplyTells
    <3>3. \A v : Runs(v) => Encrypts(v)
      BY <2>4, <2>5 DEF Encrypts
    <3> QED BY <3>1, <3>2, <3>3 DEF SessionOf
  <2> QED BY <2>1, <2>3, <2>4 DEF LocalnetBoots
<1> QED BY <1>1, <1>2, <1>3, PTL DEF LocalnetSpec
=============================================================================
