---------------------------- MODULE Credentials ----------------------------
(***************************************************************************)
(* Keys, identities and handshakes (entangrid-crypto): which node          *)
(* configurations start against a genesis, which signatures verify, and    *)
(* what two peers derive when they open a session.                         *)
(*                                                                         *)
(* Cryptography is symbolic.  A key pair is a name; a public key is the    *)
(* name of its pair; a signature is its key and message; a hash is the     *)
(* tuple of its inputs.  An identity or signature is [scheme, parts]:      *)
(* parts maps each component's scheme to its bytes, and a single one has   *)
(* the one component of its own scheme.                                    *)
(***************************************************************************)
EXTENDS Integers, FiniteSets

CONSTANTS
    Nodes,              \* the ids of the validators, each with its node
    Identities,         \* the public identities genesis may give each validator
    SessionIdentities,  \* likewise the session public identities; None is allowed
    KeyFiles,           \* the ML-DSA key files [signing, verifying]
    SessionKeyFiles,    \* the ML-KEM key files [dec, enc]
    Malformed,          \* bytes that no key decodes from
    None,               \* Rust's None
    MaxSessions         \* bound: handshakes started

Dev == "DevDeterministic"

\* A public identity of genesis: a single one has the one component of its scheme.
WellFormedIdentity(id) ==
    IF id.scheme = "Hybrid" THEN DOMAIN id.parts \subseteq {Dev, "MlDsa"}
                            ELSE DOMAIN id.parts = {id.scheme}

ASSUME CredentialsAssumption ==
    /\ Nodes \subseteq Nat
    /\ \A v \in Nodes : \A id \in Identities[v] : WellFormedIdentity(id)
    /\ MaxSessions \in Nat
    /\ \A f \in SessionKeyFiles, i \in 1 .. MaxSessions : <<f.enc, i>> # None

VARIABLES
    genesis,     \* for each validator, [identity, session]
    config,      \* the configuration of each running node, None if it is not running
    verdicts,    \* <<signer, verifier, accepted>> of the artefacts gossiped so far
    hellos,      \* client hellos sent
    replies,     \* [hello, reply] of the server hellos sent
    sessions     \* [side, hello, reply, key, encrypt] of the sessions derived

credentials == <<genesis, config, verdicts, hellos, replies, sessions>>

\* The components of a single value, and of a hybrid one.
One(scheme, bytes)       == [s \in {scheme} |-> bytes]
Two(dev, scheme, bytes)  == [s \in {Dev, scheme} |-> IF s = Dev THEN dev ELSE bytes]

\* deterministic_public_identity and deterministic_session_public_identity.
DevIdentity(v) == [scheme |-> Dev, parts |-> One(Dev, <<"validator", v>>)]
DevSession(v)  == [scheme |-> Dev, parts |-> One(Dev, <<"session-validator", v>>)]
\* PublicIdentity::default().
DefaultIdentity == [scheme |-> Dev, parts |-> One(Dev, <<>>)]

\* build_identity_map and build_session_identity_map.
Identity(v)        == genesis[v].identity
SessionIdentity(v) == genesis[v].session

\* component_bytes(scheme) = bytes, for an identity of that scheme or a hybrid one.
HasPart(id, scheme, bytes) ==
    scheme \in DOMAIN id.parts /\ id.parts[scheme] = bytes

-----------------------------------------------------------------------------
(***************************************************************************)
(* Startup.                                                                *)
(***************************************************************************)
Requests ==
    [signing : {"Dev"}, file : {None}, session : {"Dev"}, sessionFile : {None}, enforce : BOOLEAN]
    \cup [signing : {"MlDsa", "Hybrid"}, file : KeyFiles \cup {None},
          session : {"Dev"}, sessionFile : {None}, enforce : BOOLEAN]
    \cup [signing : {"Dev"}, file : {None},
          session : {"HybridKem"}, sessionFile : SessionKeyFiles \cup {None}, enforce : BOOLEAN]
    \cup [signing : {"Hybrid"}, file : KeyFiles,
          session : {"HybridKem"}, sessionFile : SessionKeyFiles, enforce : BOOLEAN]

\* validate_deterministic_identity.
DeterministicIdentityOk(v) ==
    LET id == Identity(v)
    IN  id = DefaultIdentity \/ HasPart(id, Dev, <<"validator", v>>)

\* decode_ml_dsa_signing_key, decode_ml_dsa_verifying_key.
Decodes(key) == key # Malformed

\* load_ml_dsa_signing_material: the verifying key of the file is the identity's.
SigningKeyOk(v, c) ==
    /\ c.file # None
    /\ Decodes(c.file.signing) /\ Decodes(c.file.verifying)
    /\ Identity(v).scheme \in {"MlDsa", "Hybrid"}
    /\ HasPart(Identity(v), "MlDsa", c.file.verifying)

\* load_ml_kem_session_material: the encapsulation key is the session identity's.
SessionKeyOk(v, c) ==
    /\ c.sessionFile # None
    /\ SessionIdentity(v) # None
    /\ SessionIdentity(v).scheme \in {"MlKem", "Hybrid"}
    /\ HasPart(SessionIdentity(v), "MlKem", c.sessionFile.enc)

\* build_ml_dsa_verifying_key_map decodes every ML-DSA key of genesis.
VerifyingKeysDecode ==
    \A w \in Nodes :
        "MlDsa" \in DOMAIN Identity(w).parts => Decodes(Identity(w).parts["MlDsa"])

\* validate_hybrid_enforcement_genesis.
EnforcementOk(c) ==
    c.enforce => \A w \in Nodes : genesis[w].identity.scheme = "Hybrid"

\* build_local_session_backend.
BuildSessionBackend(v, c) == c.session = "HybridKem" => SessionKeyOk(v, c)

\* build_crypto_backend.
BuildBackend(v, c) ==
    /\ BuildSessionBackend(v, c)
    /\ c.signing \in {"Dev", "Hybrid"} => DeterministicIdentityOk(v)
    /\ c.signing \in {"MlDsa", "Hybrid"} => SigningKeyOk(v, c)
    /\ VerifyingKeysDecode

\* run_node up to the backend: a node whose checks fail does not start.
Start(v, c) ==
    /\ config[v] = None
    /\ EnforcementOk(c) /\ BuildBackend(v, c)
    /\ config' = [config EXCEPT ![v] = c]
    /\ UNCHANGED <<genesis, verdicts, hellos, replies, sessions>>

-----------------------------------------------------------------------------
(***************************************************************************)
(* Signatures.                                                             *)
(***************************************************************************)
DevPart(v, msg) == <<"dev", v, msg>>

\* sign, by the running node v for itself.
Sign(v, msg) ==
    LET c == config[v]
        dev == DevPart(v, msg)
        pq  == <<c.file.signing, msg>>
    IN  CASE c.signing = "Dev"    -> [scheme |-> Dev, parts |-> One(Dev, dev)]
          [] c.signing = "MlDsa"  -> [scheme |-> "MlDsa", parts |-> One("MlDsa", pq)]
          [] c.signing = "Hybrid" -> [scheme |-> "Hybrid", parts |-> Two(dev, "MlDsa", pq)]

\* Seeded defect: an ML-DSA component is not checked against the identity's key.
VerifyPartAnyKey(v, scheme, part, msg) ==
    \/ scheme = Dev /\ part = DevPart(v, msg)
    \/ scheme = "MlDsa" /\ part[2] = msg
\* verify_single_signature_component: the deterministic component is recomputed
\* from the validator's secret, the ML-DSA one checked with its key in genesis.
VerifyPart(v, scheme, part, msg) ==
    \/ scheme = Dev /\ part = DevPart(v, msg)
    \/ /\ scheme = "MlDsa"
       /\ scheme \in DOMAIN Identity(v).parts
       /\ part = <<Identity(v).parts[scheme], msg>>

\* verify_signature_against_identity: a single identity wants its own scheme, a
\* hybrid one all its components or one single signature of a scheme it has.
Verify(v, msg, sig) ==
    LET id == Identity(v)
    IN  /\ \A s \in DOMAIN sig.parts : VerifyPart(v, s, sig.parts[s], msg)
        /\ \/ id.scheme # "Hybrid" /\ sig.scheme = id.scheme
           \/ id.scheme = "Hybrid" /\ sig.scheme = "Hybrid" /\ DOMAIN sig.parts = DOMAIN id.parts
           \/ id.scheme = "Hybrid" /\ sig.scheme # "Hybrid" /\ sig.scheme \in DOMAIN id.parts

\* The node's policy on validator artefacts (validate_hybrid_block_policy and its
\* kin): under enforcement only hybrid signatures.
PolicyAccepts(w, sig) == config[w].enforce => sig.scheme = "Hybrid"

\* Node v signs an artefact, node w verifies it.
Gossip(v, w) ==
    /\ config[v] # None /\ config[w] # None
    /\ LET sig == Sign(v, "artefact")
       IN  verdicts' = verdicts \cup
                {<<v, w, PolicyAccepts(w, sig) /\ Verify(v, "artefact", sig)>>}
    /\ UNCHANGED <<genesis, config, hellos, replies, sessions>>

-----------------------------------------------------------------------------
(***************************************************************************)
(* Handshakes.                                                             *)
(***************************************************************************)
LocalSession(v) == IF config[v].session = "HybridKem" THEN SessionIdentity(v) ELSE DevSession(v)

\* client_hello_signing_message and server_hello_signing_message: the responder signs
\* what the initiator signed, not its signature.
ClientHelloMessage(body)        == <<"client-hello", body>>
ServerHelloMessage(hello, body) == <<"server-hello", ClientHelloMessage(hello.body), body>>

\* SessionClientHello without its signature.  The nonce hashes the two ids and the time
\* in milliseconds, so two hellos of one millisecond have the same nonce: here all have.
SessionClientHello(c, s) ==
    [initiator |-> c, responder |-> s, nonce |-> "now", identity |-> LocalSession(c),
     kem |-> IF config[c].session = "HybridKem" THEN config[c].sessionFile.enc ELSE None]

\* build_client_hello.
ClientHello(c, s) ==
    LET body == SessionClientHello(c, s)
    IN  [body |-> body, signature |-> Sign(c, ClientHelloMessage(body))]

SendHello(c, s) ==
    /\ config[c] # None /\ config[s] # None /\ c # s
    /\ Cardinality(hellos) < MaxSessions
    /\ hellos' = hellos \cup {[id |-> Cardinality(hellos) + 1, hello |-> ClientHello(c, s)]}
    /\ UNCHANGED <<genesis, config, verdicts, replies, sessions>>

\* Seeded defect: each end puts itself first.
OpenSessionLocalFirst(v, w, nonce) == <<"session", v, w, nonce>>
\* deterministic open_session: both ids, the smaller one first, and the nonce.
OpenSession(v, w, nonce) ==
    <<"session", IF v <= w THEN v ELSE w, IF v <= w THEN w ELSE v, nonce>>

\* session_transcript_hash, over both hellos with their signatures.
TranscriptHash(hello, reply) == <<"transcript", hello, reply>>

\* Seeded defect: the key is derived from the deterministic component alone.
DeriveKeyNoKem(det, kem, hello, reply) == <<det>>
\* derive_session_material over both components and the transcript.
DeriveKey(det, kem, hello, reply) == <<det, kem, TranscriptHash(hello, reply)>>

\* verify_expected_session_identity: what genesis has, if it has one.
ExpectedSession(v, advertised) == SessionIdentity(v) \in {None, advertised}

\* decode_ml_kem_encapsulation_key.
KemDecodes(key) == key # Malformed

\* accept_client_hello with the deterministic session backend.
AcceptsDeterministic(s, b) ==
    b.kem = None /\ b.identity = DevSession(b.initiator)

\* accept_client_hello with the hybrid one.
AcceptsHybrid(s, b) ==
    /\ ExpectedSession(b.initiator, b.identity)
    /\ b.identity.scheme \in {"MlKem", "Hybrid"}
    /\ HasPart(b.identity, "MlKem", b.kem)
    /\ KemDecodes(b.kem)

Accepts(s, h) ==
    /\ h.body.responder = s
    /\ Verify(h.body.initiator, ClientHelloMessage(h.body), h.signature)
    /\ IF config[s].session = "Dev" THEN AcceptsDeterministic(s, h.body) ELSE AcceptsHybrid(s, h.body)

Encrypts(v) == config[v].session = "HybridKem"

\* SessionServerHello without its signature.  A KEM ciphertext is the key it was made
\* for and fresh randomness.
SessionServerHello(s, h) ==
    [responder |-> s, initiator |-> h.hello.body.initiator, nonce |-> h.hello.body.nonce,
     identity |-> LocalSession(s),
     kem |-> IF Encrypts(s) THEN <<h.hello.body.kem, h.id>> ELSE None]

\* accept_client_hello: the responder answers and derives its session.
Accept(s, h) ==
    LET c    == h.hello.body.initiator
        body == SessionServerHello(s, h)
        reply == [body |-> body, signature |-> Sign(s, ServerHelloMessage(h.hello, body))]
    IN  /\ config[s] # None /\ Accepts(s, h.hello)
        /\ \A r \in replies : r.id # h.id
        /\ replies' = replies \cup {[id |-> h.id, hello |-> h.hello, reply |-> reply]}
        /\ sessions' = sessions \cup
            {[id |-> h.id, side |-> "server", encrypt |-> Encrypts(s),
              key |-> DeriveKey(OpenSession(s, c, h.hello.body.nonce), body.kem, h.hello, reply)]}
        /\ UNCHANGED <<genesis, config, verdicts, hellos>>

\* ML-KEM decapsulation: a key of another pair gives a different secret, no error.
Decapsulate(dec, ciphertext) ==
    IF ciphertext[1] = dec THEN ciphertext ELSE <<"rejected", dec, ciphertext>>

\* finalize_client_session: the initiator checks the reply.
Finalizes(c, r) ==
    LET b == r.reply.body
    IN  /\ r.hello.body.initiator = c
        /\ b.initiator = c /\ b.responder = r.hello.body.responder /\ b.nonce = r.hello.body.nonce
        /\ Verify(b.responder, ServerHelloMessage(r.hello, b), r.reply.signature)
        /\ IF Encrypts(c)
           THEN ExpectedSession(b.responder, b.identity) /\ b.kem # None
           ELSE b.kem = None /\ b.identity = DevSession(b.responder)

\* finalize_client_session: the initiator derives its session.
Finalize(c, r) ==
    LET kem == IF Encrypts(c) THEN Decapsulate(config[c].sessionFile.dec, r.reply.body.kem) ELSE None
    IN  /\ config[c] # None /\ Finalizes(c, r)
        /\ sessions' = sessions \cup
            {[id |-> r.id, side |-> "client", encrypt |-> Encrypts(c),
              key |-> DeriveKey(OpenSession(c, r.reply.body.responder, r.hello.body.nonce),
                                kem, r.hello, r.reply)]}
        /\ UNCHANGED <<genesis, config, verdicts, hellos, replies>>

CredentialsInit ==
    /\ genesis \in {g \in [Nodes -> [identity : UNION {Identities[v] : v \in Nodes},
                                          session : UNION {SessionIdentities[v] : v \in Nodes}]] :
                    \A v \in Nodes : /\ g[v].identity \in Identities[v]
                                          /\ g[v].session \in SessionIdentities[v]}
    /\ config = [v \in Nodes |-> None]
    /\ verdicts = {} /\ hellos = {} /\ replies = {} /\ sessions = {}

CredentialsNext ==
    \/ \E v \in Nodes, c \in Requests : Start(v, c)
    \/ \E v, w \in Nodes : Gossip(v, w)
    \/ \E c, s \in Nodes : SendHello(c, s)
    \/ \E s \in Nodes, h \in hellos : Accept(s, h)
    \/ \E c \in Nodes, r \in replies : Finalize(c, r)

CredentialsSpec == CredentialsInit /\ [][CredentialsNext]_credentials

-----------------------------------------------------------------------------
(***************************************************************************)
(* The localnet that the simulator writes (init_localnet): deterministic   *)
(* credentials, or with --hybrid-enforcement hybrid ones from key pairs    *)
(* made for each node.                                                     *)
(***************************************************************************)

\* The key files and the session identity of the key pairs made for node v.
SigningFile(v)   == [signing |-> <<"ml-dsa", v>>, verifying |-> <<"ml-dsa", v>>]
SessionFile(v)   == [dec |-> <<"ml-kem", v>>, enc |-> <<"ml-kem", v>>]
HybridSession(v) == [scheme |-> "Hybrid", parts |-> Two(<<"session-validator", v>>, "MlKem", <<"ml-kem", v>>)]

ASSUME LocalnetAssumption ==
    \A v \in Nodes : /\ None \notin {SigningFile(v), SessionFile(v), HybridSession(v)}
                     /\ Malformed \notin {<<"ml-dsa", v>>, <<"ml-kem", v>>}

\* Seeded defect: genesis gets no session identity.
HybridMaterialNoSession(v) ==
    [identity |-> [scheme |-> "Hybrid", parts |-> Two(<<"validator", v>>, "MlDsa", <<"ml-dsa", v>>)],
     session |-> None,
     request |-> [signing |-> "Hybrid", file |-> SigningFile(v),
                  session |-> "HybridKem", sessionFile |-> SessionFile(v), enforce |-> TRUE]]
\* generate_hybrid_validator_material: two key pairs, their files, and the identities.
HybridMaterial(v) ==
    [identity |-> [scheme |-> "Hybrid", parts |-> Two(<<"validator", v>>, "MlDsa", <<"ml-dsa", v>>)],
     session |-> HybridSession(v),
     request |-> [signing |-> "Hybrid", file |-> SigningFile(v),
                  session |-> "HybridKem", sessionFile |-> SessionFile(v), enforce |-> TRUE]]

DevMaterial(v) ==
    [identity |-> DevIdentity(v), session |-> None,
     request |-> [signing |-> "Dev", file |-> None, session |-> "Dev", sessionFile |-> None,
                  enforce |-> FALSE]]

Material(hybrid, v) == IF hybrid THEN HybridMaterial(v) ELSE DevMaterial(v)
GenesisOf(hybrid) ==
    [v \in Nodes |-> [identity |-> Material(hybrid, v).identity,
                           session |-> Material(hybrid, v).session]]
IsHybrid == genesis = GenesisOf(TRUE)

LocalnetInit ==
    /\ genesis \in {GenesisOf(hybrid) : hybrid \in BOOLEAN}
    /\ config = [v \in Nodes |-> None]
    /\ verdicts = {} /\ hellos = {} /\ replies = {} /\ sessions = {}

LocalnetNext ==
    \/ \E v \in Nodes : Start(v, Material(IsHybrid, v).request)
    \/ \E v, w \in Nodes : Gossip(v, w)
    \/ \E c, s \in Nodes : SendHello(c, s)
    \/ \E s \in Nodes, h \in hellos : Accept(s, h)
    \/ \E c \in Nodes, r \in replies : Finalize(c, r)

LocalnetSpec == LocalnetInit /\ [][LocalnetNext]_credentials

-----------------------------------------------------------------------------
(***************************************************************************)
(* Properties.                                                             *)
(***************************************************************************)

\* Types: a hello advertises a session identity, and a hybrid one a key to
\* encapsulate to (build_client_hello relies on load_ml_kem_session_material).
CredentialsTypeOK ==
    /\ DOMAIN config = Nodes
    /\ \A h \in hellos :
        /\ h.hello.body.identity # None
        /\ h.hello.body.kem # None => HasPart(h.hello.body.identity, "MlKem", h.hello.body.kem)
    /\ sessions \subseteq [id : 1 .. MaxSessions, side : {"client", "server"},
                           encrypt : BOOLEAN, key : {s.key : s \in sessions}]

\* The key files that v was started with hold key pairs.
FilesFit(v) ==
    LET c == config[v]
    IN  /\ c.signing # "Dev" => c.file.signing = c.file.verifying
        /\ c.session = "HybridKem" => /\ c.sessionFile.dec = c.sessionFile.enc
                                      /\ KemDecodes(c.sessionFile.enc)

\* A node that started can be understood: every artefact it signs is accepted by
\* every running peer, unless that peer enforces hybrid signatures and the node
\* does not make them (startup checks of build_crypto_backend against
\* verify_signature_against_identity).
SignaturesAccepted ==
    \A d \in verdicts :
        FilesFit(d[1]) => d[3] \/ (config[d[2]].enforce /\ config[d[1]].signing # "Hybrid")

\* An accepted artefact was signed with the keys genesis names for its signer,
\* whatever key file the signer was started with (verify_single_signature_component).
AcceptedMatchesIdentity ==
    \A d \in verdicts :
        (d[3] /\ config[d[1]].signing # "Dev") =>
            HasPart(genesis[d[1]].identity, "MlDsa", config[d[1]].file.signing)

\* Two running nodes with the same session backend are never refused a session over
\* their credentials, nor one whose answer is refused (accept_client_hello,
\* finalize_client_session against the startup checks).
HandshakesSucceed ==
    /\ \A h \in hellos :
        LET c == h.hello.body.initiator
            s == h.hello.body.responder
        IN  FilesFit(c) /\ config[c].session = config[s].session => Accepts(s, h.hello)
    /\ \A r \in replies :
        FilesFit(r.hello.body.responder) => Finalizes(r.hello.body.initiator, r)

\* Both ends of a session hold the same key and agree on encryption
\* (derive_session_material of accept_client_hello and finalize_client_session).
KeysAgree ==
    \A r \in replies : FilesFit(r.hello.body.initiator) =>
        \A p, q \in {s \in sessions : s.id = r.id} : p.key = q.key /\ p.encrypt = q.encrypt

\* Nodes that passed their startup checks with key files that hold key pairs understand
\* each other: signatures are accepted, sessions between like backends are not refused, and
\* both ends hold one key (build_crypto_backend, verify_signature_against_identity,
\* accept_client_hello, derive_session_material).
PeersUnderstand == SignaturesAccepted /\ HandshakesSucceed /\ KeysAgree

\* No two encrypted sessions share a key, even when their hellos were sent in the same
\* millisecond: frame counters restart at 0, so a shared key would repeat a nonce
\* (session_nonce, frame_nonce).
KeysFresh ==
    \A p, q \in sessions : (p.encrypt /\ p.key = q.key) => p.id = q.id

\* Every node of a localnet that init_localnet wrote passes its startup checks, its
\* artefacts are accepted by every other node, and with hybrid enforcement every
\* session is encrypted (generate_hybrid_validator_material against
\* build_crypto_backend and validate_hybrid_enforcement_genesis).
LocalnetBoots ==
    /\ \A v \in Nodes :
        LET c == Material(IsHybrid, v).request IN EnforcementOk(c) /\ BuildBackend(v, c)
    /\ \A d \in verdicts : d[3]
    /\ IsHybrid => \A s \in sessions : s.encrypt
=============================================================================
