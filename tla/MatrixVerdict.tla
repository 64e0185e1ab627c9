--------------------------- MODULE MatrixVerdict ---------------------------
(***************************************************************************)
(* The verdicts of the simulator's matrix over the reports it may meet:    *)
(* for each built-in scenario, the report of a healthy localnet and every  *)
(* report that differs from it in a few places.                            *)
(***************************************************************************)
EXTENDS ScenarioReports

CONSTANTS
    Scores,         \* the scores a validator may have, beside 100
    MaxDeviations   \* bound: places where a report differs from a healthy one

\* What the constants have to satisfy.
MatrixVerdictAssumption ==
    Scores \subseteq 0 .. 99 /\ MaxDeviations \in Nat

VARIABLES
    scenario,
    scores,       \* the localnet report
    nodes,        \* the structural report
    events,       \* fork-observed and sync-blocks-rejected log entries
    deviations

vars == <<scenario, scores, nodes, events, deviations>>

Configured == 1 .. scenario.validators

HealthyScore == [score |-> 100, rejections |-> 0, rateDrops |-> 0, inboundDrops |-> 0]
HealthyNode  == [chain |-> <<"a">>, tip |-> <<"a">>, linked |-> TRUE, clean |-> TRUE]

Init ==
    /\ scenario \in RigorousScenarios
    /\ scores = [v \in Configured |-> HealthyScore]
    /\ nodes = [v \in Configured |-> HealthyNode]
    /\ events = 0 /\ deviations = 0

Deviates == deviations < MaxDeviations /\ deviations' = deviations + 1

\* A validator's metrics: another score, a gating rejection, drops it counted, no file.
OtherMetrics(v) ==
    /\ Deviates
    /\ v \in DOMAIN scores
    /\ \/ \E k \in Scores : scores' = [scores EXCEPT ![v].score = k]
       \/ scores' = [scores EXCEPT ![v].rejections = 1]
       \/ scores' = [scores EXCEPT ![v].rateDrops = @ + 8]
       \/ scores' = [scores EXCEPT ![v].inboundDrops = @ + 1]
       \/ scores' = Restrict(scores, DOMAIN scores \ {v})
    /\ UNCHANGED <<scenario, nodes, events>>

\* A node's files: a longer or another chain, a snapshot of another tip, blocks that
\* do not link up, a line on stderr; or an entry of the event log.
OtherNode(v) ==
    /\ Deviates
    /\ \/ \E c \in {<<>>, <<"b">>, <<"a", "c">>} : nodes' = [nodes EXCEPT ![v].chain = c, ![v].tip = c]
       \/ nodes' = [nodes EXCEPT ![v].tip = None]
       \/ nodes' = [nodes EXCEPT ![v].linked = FALSE]
       \/ nodes' = [nodes EXCEPT ![v].clean = FALSE]
    /\ UNCHANGED <<scenario, scores, events>>

OtherEvents ==
    /\ Deviates /\ events' = events + 1
    /\ UNCHANGED <<scenario, scores, nodes>>

Next ==
    \/ \E v \in Configured : OtherMetrics(v) \/ OtherNode(v)
    \/ OtherEvents

Spec == Init /\ [][Next]_vars

-----------------------------------------------------------------------------
(***************************************************************************)
(* Properties.                                                             *)
(***************************************************************************)

\* The settle loop and the final report never disagree: scenario_expectations_met,
\* a chain of early returns, and MatrixScenarioResult::passed, one conjunction
\* written apart from it, give the same verdict on the same reports.
VerdictsAgree ==
    ExpectationsMet(scenario, scores, nodes) <=> Passed(scenario, scores, nodes)

Faulty == scenario.degraded # None \/ scenario.abuse # None

\* A scenario that injects a fault or a flood does not pass on a report in which every
\* validator is as good as a healthy one, so it cannot pass with its fault missing;
\* one that injects none passes on it (rigorous_matrix_scenarios, degraded_fault_profile).
FaultsMustShow ==
    /\ (\A v \in DOMAIN scores : scores[v] = HealthyScore)
        /\ Faulty => ~Passed(scenario, scores, nodes)
    /\ deviations = 0 /\ ~Faulty => Passed(scenario, scores, nodes)
    /\ \A v \in Configured :
        FaultProfile(v, scenario) # FaultProfile(0, scenario) <=> v = scenario.degraded

\* Two nodes on different chains always fail the scenario, and fail it as a fork and
\* not as a matter of scores (build_structural_report, failure_signal).
ForksAreSignalled ==
    (\E v, w \in Configured : nodes[v].chain # nodes[w].chain) =>
        FailureSignal(scenario, scores, nodes, events) = "sync/fork"
=============================================================================
