---------------------------- MODULE MCAcceptance ----------------------------
(***************************************************************************)
(* Small instances of what nodes accept from each other: signatures and    *)
(* sessions (Credentials), encoded values (Wire), receipts and the blocks  *)
(* that commit to them (Receipts), checked in one run: a behaviour is one  *)
(* of the instance that its first state picks, and the variables of the    *)
(* other components keep their values.                                     *)
(***************************************************************************)
EXTENDS Receipts, Credentials, Wire, TLC

VARIABLE instance

Default           == DefaultIdentity
DevOnly(v)        == DevIdentity(v)
MlDsa(key)        == [scheme |-> "MlDsa", parts |-> One("MlDsa", key)]
Hybrid(v, key)    == [scheme |-> "Hybrid", parts |-> Two(<<"validator", v>>, "MlDsa", key)]
HybridKem(v, key) == [scheme |-> "Hybrid", parts |-> Two(<<"session-validator", v>>, "MlKem", key)]

Pair == {1, 2}
Key == <<"dsa1", "dsa2">>
Kem == <<"kem1", "kem2">>

\* The module's own instance (mixed): every mixture of identities and backends, with key
\* files that fit together, and for the first node a session key file that does not.
MCIdentities        == [v \in Pair |-> {Default, DevOnly(v), MlDsa(Key[v]), Hybrid(v, Key[v])}]
MCSessionIdentities == [v \in Pair |-> {None, HybridKem(v, Kem[v])}]
MCKeyFiles          == {[signing |-> Key[v], verifying |-> Key[v]] : v \in Pair}
MCSessionKeyFiles   == {[dec |-> Kem[v], enc |-> Kem[v]] : v \in Pair} \cup {[dec |-> Kem[2], enc |-> Kem[1]]}

\* Key files and identities that need not fit, or do not decode.
Misfit == INSTANCE Credentials WITH
    Identities <- [v \in Pair |->
        {DevOnly(v), MlDsa(Key[v]), MlDsa(Malformed), Hybrid(v, Key[v]), Hybrid(3 - v, Key[v])}],
    SessionIdentities <- [v \in Pair |-> {None}],
    KeyFiles <- [signing : {"dsa1", "dsa2", Malformed}, verifying : {"dsa1", "dsa2", Malformed}],
    MaxSessions <- 0

\* What init_localnet writes for three nodes.
Localnet == INSTANCE Credentials WITH
    Nodes <- {1, 2, 3}, Identities <- [v \in 1 .. 3 |-> {}], SessionIdentities <- {}, KeyFiles <- {},
    SessionKeyFiles <- {}, MaxSessions <- 1

-----------------------------------------------------------------------------
NoRotation == [e \in 0 .. 2 |-> 0]

\* RECOMMENDED_SERVICE_*_WEIGHT.
Recommended == [uptime |-> 25, delivery |-> 50, diversity |-> 25, penalty |-> 100]

\* In the module's own instance (committed) validator 1 is followed over two epochs, one
\* message is lost; here its pulse is sent twice and a snapshot taken over.
Resent == INSTANCE Receipts WITH
    MaxSlot <- 1, MaxLosses <- 0, MaxResends <- 1, MaxSnapshots <- 1

-----------------------------------------------------------------------------
ASSUME /\ Misfit!CredentialsAssumption /\ Localnet!CredentialsAssumption
       /\ Misfit!LocalnetAssumption /\ Localnet!LocalnetAssumption
       /\ Resent!ReceiptsAssumption

MCInit ==
    /\ instance \in {"mixed", "misfit", "localnet", "wire", "resent", "committed"}
    /\ Init
    /\ CASE instance = "mixed"  -> CredentialsInit
         [] instance = "misfit" -> Misfit!CredentialsInit
         [] OTHER               -> Localnet!LocalnetInit
    /\ IF instance = "wire" THEN WireInit
       ELSE kind = "signature" /\ original = Single(Dev, "") /\ value = original

MCNext ==
    /\ \/ instance = "mixed" /\ CredentialsNext /\ UNCHANGED <<wire, vars>>
       \/ instance = "misfit" /\ Misfit!CredentialsNext /\ UNCHANGED <<wire, vars>>
       \/ instance = "localnet" /\ Localnet!LocalnetNext /\ UNCHANGED <<wire, vars>>
       \/ instance = "wire" /\ WireNext /\ UNCHANGED <<credentials, vars>>
       \/ instance = "resent" /\ Resent!Next /\ UNCHANGED <<credentials, wire>>
       \/ instance = "committed" /\ Next /\ UNCHANGED <<credentials, wire>>
    /\ UNCHANGED instance

MCSpec == MCInit /\ [][MCNext]_<<instance, vars, credentials, wire>>

-----------------------------------------------------------------------------
(* Properties, with PeersUnderstand, KeysFresh and AcceptedMatchesIdentity  *)
(* of Credentials, EncodingsFaithful of Wire, EventsCountedOnce and         *)
(* CommitmentsAccepted of Receipts.                                         *)

MCTypeOK ==
    /\ CASE instance = "mixed"  -> CredentialsTypeOK
         [] instance = "misfit" -> Misfit!CredentialsTypeOK
         [] OTHER               -> Localnet!CredentialsTypeOK
    /\ IF instance = "resent" THEN Resent!TypeOK ELSE TypeOK

\* The state is well typed, and every node of a generated localnet starts and is accepted
\* (generate_hybrid_validator_material).
GeneratedNetsBoot == MCTypeOK /\ (instance = "localnet" => Localnet!LocalnetBoots)
=============================================================================
