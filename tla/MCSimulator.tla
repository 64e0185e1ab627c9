---------------------------- MODULE MCSimulator ----------------------------
(***************************************************************************)
(* Small instances of the matrix runner (Simulator) and one of the         *)
(* verdicts on its reports (MatrixVerdict), checked in one run: a          *)
(* behaviour is one of the instance that its first state picks, and the    *)
(* variables of the other component keep their values.                     *)
(***************************************************************************)
EXTENDS Simulator

VARIABLES
    instance,
    scenario, scores, nodes, events, deviations    \* MatrixVerdict

Good == [score |-> 100, rejections |-> 0, rateDrops |-> 0, inboundDrops |-> 0]

\* The module's own instance: two scenarios, of which the second expects its second node
\* last; spawning may fail.
MCScenarios == <<Healthy, [Healthy EXCEPT !.degraded = 2, !.expectedLowest = 2]>>
MCMetrics   == {Good}

\* Two nodes, a healthy scenario: blocks, reorganisations, metrics and crashes.
Busy == INSTANCE Simulator WITH
    Scenarios <- <<Healthy>>,
    Metrics <- {Good, [Good EXCEPT !.score = 0, !.rejections = 1]},
    SpawnMayFail <- FALSE, MaxWork <- 3

\* The built-in scenarios and reports that differ from a healthy one in two places.
Verdict == INSTANCE MatrixVerdict WITH
    Scores <- {0, 50, 90}, MaxDeviations <- 2

\* Bound: the largest localnet whose committees are looked at.
MaxValidators == 9

ASSUME SimulatorAssumption /\ Busy!SimulatorAssumption /\ Verdict!MatrixVerdictAssumption

verdict == <<scenario, scores, nodes, events, deviations>>

MCInit ==
    /\ instance \in {"verdict", "busy", "matrix"}
    /\ Init /\ Verdict!Init
    /\ instance # "verdict" => scenario = Baselines.b4

MCNext ==
    /\ \/ instance = "verdict" /\ Verdict!Next /\ UNCHANGED vars
       \/ instance = "busy" /\ Busy!Next /\ UNCHANGED verdict
       \/ instance = "matrix" /\ Next /\ UNCHANGED verdict
    /\ UNCHANGED instance

MCSpec ==
    /\ MCInit /\ [][MCNext]_<<instance, vars, verdict>>
    /\ instance = "matrix" => Fairness

-----------------------------------------------------------------------------
(* Properties, with ChildrenReaped and CrashesNoticed of Simulator.         *)

\* The two verdicts on a scenario agree (scenario_expectations_met and passed), a scenario
\* that injects a fault does not pass without it, and a fork is signalled as one
\* (build_structural_report, failure_signal).
VerdictsSound == Verdict!VerdictsAgree /\ Verdict!FaultsMustShow /\ Verdict!ForksAreSignalled

Localnet(n) == INSTANCE Schedule WITH
    Validators <- 1 .. n, WitnessCount <- WitnessCountFor(n),
    SlotsPerEpoch <- 5, Rotation <- [e \in {0} |-> 0]

Survives ==
    [n \in 4 .. MaxValidators |-> \A v, silent \in 1 .. n :
        Cardinality(Localnet(n)!Committee(v, 0) \ {silent}) >= Localnet(n)!CommitteeThreshold(v, 0)]

\* In a localnet of five validators or more the witness count that init_localnet
\* writes leaves every service committee its quorum when one member is silent
\* (recommended_v2_witness_count_for_validators against service_committee_threshold).
\* With four validators all three members are needed.
QuorumSurvivesOneSilent ==
    \A n \in Max({5, scenario.validators}) .. MaxValidators : Survives[n]

\* The matrix of two scenarios comes to an end, whatever the nodes do
\* (wait_for_scenario_expectations, shutdown_children).
MatrixSettles == instance = "matrix" => MatrixEnds
=============================================================================
