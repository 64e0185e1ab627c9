-------------------------------- MODULE Wire --------------------------------
(***************************************************************************)
(* Signatures, public identities and session identities on their way from  *)
(* node to node and from disk to memory (entangrid-types).  Each is        *)
(* [scheme, bytes, components]: single values carry bytes, hybrid values   *)
(* carry components.  Two formats: the readable one (JSON files) writes    *)
(* the fields, the binary one (bincode, on the network and for hashing)    *)
(* writes a scheme and one payload, which holds the components of a hybrid *)
(* value.                                                                  *)
(***************************************************************************)
EXTENDS Integers, Sequences, FiniteSets, SequencesExt

CONSTANTS
    Schemes,        \* the single schemes
    Bytes,          \* byte strings; Empty among them
    Empty,
    NoValue,        \* a value that was rejected or is not there
    MaxComponents   \* bound: components of a value

VARIABLES
    kind,      \* "signature", "identity" or "session"
    original,  \* the value as the program built it or read it from a file
    value      \* the value after the formats it went through, NoValue if it was rejected

wire == <<kind, original, value>>

Component == [scheme : Schemes \cup {"Hybrid"}, bytes : Bytes]
Raw == [scheme : Schemes \cup {"Hybrid"}, bytes : Bytes,
        components : UNION {[1 .. n -> Component] : n \in 0 .. MaxComponents}]

ASSUME WireAssumption ==
    /\ Empty \in Bytes /\ MaxComponents \in Nat /\ "Hybrid" \notin Schemes
    /\ NoValue \notin Raw

-----------------------------------------------------------------------------
\* TypedSignature::single, PublicIdentity::single, SessionPublicIdentity::single.
Single(scheme, bytes) == [scheme |-> scheme, bytes |-> bytes, components |-> <<>>]

\* try_hybrid: at least one component, none of them hybrid, no scheme twice.
TryHybrid(cs) ==
    IF \/ cs = <<>>
       \/ \E i \in DOMAIN cs : cs[i].scheme = "Hybrid"
       \/ \E i, j \in DOMAIN cs : i < j /\ cs[i].scheme = cs[j].scheme
    THEN NoValue
    ELSE [scheme |-> "Hybrid", bytes |-> Empty, components |-> cs]

\* build_session_public_identity, which every decoded session identity goes through.
BuildSession(raw) ==
    IF raw.scheme = "Hybrid" THEN TryHybrid(raw.components)
    ELSE IF raw.components # <<>> THEN NoValue
    ELSE Single(raw.scheme, raw.bytes)

\* The values the constructors make.
WellFormed(v) ==
    IF v.scheme # "Hybrid" THEN v.components = <<>>
    ELSE /\ v.bytes = Empty /\ v.components # <<>>
         /\ \A i \in DOMAIN v.components : v.components[i].scheme \in Schemes
         /\ IsInjective([i \in DOMAIN v.components |-> v.components[i].scheme])

-----------------------------------------------------------------------------
\* The readable form: components are left out when there are none.
Readable(v) ==
    IF v.components = <<>> THEN [scheme |-> v.scheme, bytes |-> v.bytes] ELSE v
\* The value read back: components default to none.
FromReadable(w) ==
    IF "components" \in DOMAIN w THEN w ELSE Single(w.scheme, w.bytes)

\* The binary form: one payload, the encoded components of a hybrid value or the
\* bytes of a single one.
Binary(v) ==
    IF v.scheme = "Hybrid"
    THEN [scheme |-> v.scheme, bytes |-> Empty, payload |-> v.components]
    ELSE [scheme |-> v.scheme, bytes |-> v.bytes, payload |-> <<>>]
\* Seeded defect: a hybrid payload is kept as the bytes of the value.
FromBinarySingle(w) == Single(w.scheme, w.bytes)
\* The value read back from the binary form.
FromBinary(w) ==
    IF w.scheme = "Hybrid" THEN [scheme |-> "Hybrid", bytes |-> Empty, components |-> w.payload]
    ELSE Single(w.scheme, w.bytes)

\* Serialize for the three types, in a format.
SerializeSignature(v, format) == IF format = "readable" THEN Readable(v) ELSE Binary(v)
SerializeIdentity(v, format)  == IF format = "readable" THEN Readable(v) ELSE Binary(v)
SerializeSession(v, format)   == IF format = "readable" THEN Readable(v) ELSE Binary(v)

\* Deserialize: signatures and public identities are taken as they come, session
\* identities are checked.
DeserializeSignature(w, format) == IF format = "readable" THEN FromReadable(w) ELSE FromBinary(w)
DeserializeIdentity(w, format)  == IF format = "readable" THEN FromReadable(w) ELSE FromBinary(w)
DeserializeSession(w, format) ==
    BuildSession(IF format = "readable" THEN FromReadable(w) ELSE FromBinary(w))

\* A value is written and read back.
Hop(format) ==
    /\ value # NoValue
    /\ value' = CASE kind = "signature" -> DeserializeSignature(SerializeSignature(value, format), format)
                  [] kind = "identity"  -> DeserializeIdentity(SerializeIdentity(value, format), format)
                  [] kind = "session"   -> DeserializeSession(SerializeSession(value, format), format)
    /\ UNCHANGED <<kind, original>>

\* Values start in the constructors or in a JSON file.
WireInit ==
    /\ kind \in {"signature", "identity", "session"}
    /\ \E raw \in Raw :
        original = IF kind = "session" THEN BuildSession(raw) ELSE FromReadable(Readable(raw))
    /\ value = original

WireNext == \E format \in {"readable", "binary"} : Hop(format)

WireSpec == WireInit /\ [][WireNext]_wire

-----------------------------------------------------------------------------
(***************************************************************************)
(* Properties.                                                             *)
(***************************************************************************)

\* component_bytes: the bytes a value has for a scheme, NoValue if it has none.
ComponentBytes(v, scheme) ==
    LET at == {i \in DOMAIN v.components : v.components[i].scheme = scheme}
    IN  IF v.scheme = scheme THEN v.bytes
        ELSE IF at = {} THEN NoValue
        ELSE v.components[CHOOSE i \in at : \A j \in at : i <= j].bytes

\* What verify_signature_against_identity reads of a value: the scheme, and the bytes
\* of a single value or the components of a hybrid one.
ReadBy(v) ==
    [scheme |-> v.scheme,
     parts  |-> IF v.scheme = "Hybrid"
                THEN [s \in Schemes |-> ComponentBytes(v, s)]
                ELSE [s \in {v.scheme} |-> v.bytes],
     count  |-> IF v.scheme = "Hybrid" THEN Len(v.components) ELSE 0]

\* Values keep the shape of their types: binary forms have room for nothing else, and
\* no session identity is ill-formed (build_session_public_identity).
WireTypeOK ==
    /\ value \in Raw \cup {NoValue}
    /\ (kind = "session" /\ value # NoValue) => WellFormed(value)

\* A well-formed value survives any sequence of formats unchanged, so hashes and
\* signatures over it stay valid (the Serialize and Deserialize implementations).
RoundTrips ==
    (original # NoValue /\ WellFormed(original)) => value = original

\* Nothing a verifier reads changes on the way, even in a value read from a file that
\* no constructor would have made: whether a signature verifies does not depend on the
\* way it came.
VerdictsStable == (original # NoValue) => value # NoValue /\ ReadBy(value) = ReadBy(original)

\* Values stay well typed, well-formed ones survive any sequence of formats, and of no
\* value do the formats change what a verifier reads (the Serialize and Deserialize
\* implementations of entangrid-types).
EncodingsFaithful == WireTypeOK /\ RoundTrips /\ VerdictsStable
=============================================================================
