----------------------------- MODULE MCEvidence -----------------------------
(***************************************************************************)
(* Small instances of ServiceEvidence and LocalScores, checked in one run: *)
(* a behaviour is one of the instance that its first state picks, and the  *)
(* variables of the other component keep their values.                     *)
(***************************************************************************)
EXTENDS ServiceEvidence

VARIABLES
    instance,
    ownSlot, ownReceipts, failed, reached, invalid, score, ownGate,     \* LocalScores
    ownRestarts

NoRotation == [e \in 0 .. 12 |-> 0]

\* RECOMMENDED_SERVICE_*_WEIGHT.
Recommended == [uptime |-> 25, delivery |-> 50, diversity |-> 25, penalty |-> 100]

-----------------------------------------------------------------------------
\* In the instances of ServiceEvidence validators 1 and 2 are the committee of validator 3,
\* and its first two epochs are followed up to their attestation.  In the one that gives the
\* constants their values receipts may be issued at any time, also after the attestation.

\* Every message of the subject is receipted within two slots.
Served == INSTANCE ServiceEvidence WITH
    Lag <- 1, Delay <- 2, Settled <- TRUE, StartSlot <- 0, MaxLosses <- 1

\* Nothing is lost and the nodes keep up with the clock.
Timely == INSTANCE ServiceEvidence WITH
    Followed <- {0}, Lag <- 1, Delay <- 2, Settled <- FALSE, LastService <- 0, StartSlot <- 3,
    MayRestart <- {1}, MaxLosses <- 0, MaxSnapshots <- 1

-----------------------------------------------------------------------------
\* Validator 2 is the witness of validator 3, which serves from its fifth slot on.
Local == INSTANCE LocalScores WITH
    Validators <- {2, 3}, WitnessCount <- 1, SlotsPerEpoch <- 2, Self <- 3, StartEpoch <- 1,
    ServesFrom <- 4, Delay <- 1, MaxInvalid <- 2, MaxSlot <- 9,
    slot <- ownSlot, receipts <- ownReceipts, gate <- ownGate, restarts <- ownRestarts

-----------------------------------------------------------------------------
ASSUME /\ Served!ServiceEvidenceAssumption /\ Timely!ServiceEvidenceAssumption
       /\ Served!ServedInTime
       /\ Local!LocalScoresAssumption

local == <<ownSlot, ownReceipts, failed, reached, invalid, score, ownGate, ownRestarts>>

MCInit ==
    /\ instance \in {"late", "served", "timely", "local"}
    /\ CASE instance = "late"   -> Init
         [] instance = "timely" -> Timely!Init
         [] OTHER               -> Served!Init
    /\ Local!Init

MCNext ==
    /\ \/ instance = "late" /\ Next /\ UNCHANGED local
       \/ instance = "served" /\ Served!Next /\ UNCHANGED local
       \/ instance = "timely" /\ Timely!Next /\ UNCHANGED local
       \/ instance = "local" /\ Local!Next /\ UNCHANGED vars
    /\ UNCHANGED instance

MCSpec ==
    /\ MCInit /\ [][MCNext]_<<instance, vars, local>>
    /\ instance = "timely" => Timely!Fairness

-----------------------------------------------------------------------------
(* Properties.                                                              *)

MCTypeOK ==
    /\ instance = "late" => TypeOK
    /\ instance = "served" => Served!TypeOK
    /\ instance = "timely" => Timely!TypeOK
    /\ Local!TypeOK

\* The state is well typed, a subject that is receipted in time is never refused its slot
\* (v2_gating_state), and the score it reports is the one its gate goes by
\* (refresh_service_scores).  AggregatesSettle is checked of all instances of ServiceEvidence.
ServingNeverRejected ==
    /\ MCTypeOK
    /\ instance = "served" => Served!ServedNotRefused /\ Served!ReportedScoreCurrent

\* Each committee member attests each settled epoch, and a subject its witnesses never hear
\* of is refused in the end (refresh_recent_service_attestations, v2_gating_state).
SettledEpochsJudged == instance = "timely" => Timely!EpochsAttested /\ Timely!SilentIsRejected

\* A slot is given up only because of a bad epoch in the window, and who serves for a whole
\* window is allowed again (refresh_service_scores under consensus V1).
LocalScoresForget == [][Local!RejectionJustified /\ (Local!RecoversInTime)']_local
=============================================================================
