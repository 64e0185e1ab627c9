---------------------------- MODULE MCTransport ----------------------------
(***************************************************************************)
(* Small instances of the transport (PeerSession) and of what a node keeps *)
(* about its peers (PeerBook), checked in one run: a behaviour is one of   *)
(* the instance that its first state picks, and the variables of the other *)
(* component keep their values.                                            *)
(***************************************************************************)
EXTENDS PeerSession, PeerBook, TLC

VARIABLE instance

\* The module's own instance: two senders compete for the one permit, and message 2 is
\* dropped by the fault profile.
MCFrom     == <<1, 2, 1>>
MCPolicies == [encrypt : {TRUE}, sender : {1}, receiver : {1}]
MCOmitted  == -1

\* Lifetimes omitted, switched off and short at either end, and frames in the clear.
AllPolicies ==
    [encrypt : {TRUE}, sender : {Omitted, 0, 1}, receiver : {Omitted, 0, 1}]
    \cup [encrypt : {FALSE}, sender : {1}, receiver : {1}]

\* One sender, two messages, every policy.
Policy == INSTANCE PeerSession WITH
    Message <- {1, 2}, From <- <<1, 1>>, FaultDropped <- {}, Policies <- AllPolicies,
    Unreachable <- FALSE, MaxTime <- 3

-----------------------------------------------------------------------------
\* Three peers whose sessions are reported in all orders over three epochs; the messages of
\* the first come in all timings over three windows.
MCPeers   == {1, 2, 3}
MCLimit   == ("SyncControl" :> 2) @@ ("TransactionGossip" :> 1)
MCTargets == (0 :> {1, 2}) @@ (1 :> {2, 3}) @@ (2 :> {1, 3})

-----------------------------------------------------------------------------
ASSUME PeerSessionAssumption /\ Policy!PeerSessionAssumption

MCInit ==
    /\ instance \in {"policy", "rivals", "limiter", "penalties"}
    /\ IF instance = "policy" THEN Policy!Init ELSE Init
    /\ BookInit

MCNext ==
    /\ \/ instance = "policy" /\ Policy!Next /\ UNCHANGED bookVars
       \/ instance = "rivals" /\ Next /\ UNCHANGED bookVars
       \/ instance = "limiter" /\ Elapse /\ UNCHANGED vars
       \/ \E m \in Messages : instance = "limiter" /\ Receive(1, m) /\ UNCHANGED vars
       \/ instance = "penalties" /\ SessionNext /\ UNCHANGED vars
       \/ \E p \in Peers : instance = "penalties" /\ Receive(p, "BlockProposal") /\ UNCHANGED vars
    /\ UNCHANGED instance

MCSpec ==
    /\ MCInit /\ [][MCNext]_<<instance, vars, bookVars>>
    /\ instance = "rivals" => Fairness

-----------------------------------------------------------------------------
(* Properties, with DeliversAtMostOnce and FramesDecrypt of PeerSession and *)
(* PeersJudgedFairly of PeerBook.                                           *)

\* The state is well typed, every message handed over is reported as observed or failed,
\* and a stream its sender has dropped gives its permit back (spawn_network,
\* handle_inbound).
SendsSettle ==
    /\ [](IF instance = "policy" THEN Policy!TypeOK ELSE TypeOK)
    /\ instance = "rivals" => EverySendReported /\ PermitsReturned
=============================================================================
