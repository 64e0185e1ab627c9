-------------------------- MODULE ScenarioReports --------------------------
(***************************************************************************)
(* entangrid-sim: the built-in scenarios of the matrix, the reports built  *)
(* from what the nodes have on disk, and the verdict on a scenario.        *)
(* Scores, thresholds and probabilities are percentages.  A score report   *)
(* maps each validator that has a metrics file to its counters; a node     *)
(* report maps every configured validator to its chain, the chain its      *)
(* snapshot stands for, whether the blocks link up and whether its stderr  *)
(* is empty.                                                               *)
(***************************************************************************)
EXTENDS Integers, Sequences, FiniteSets, FiniteSetsExt, SequencesExt, Functions

CONSTANT None      \* Rust's None

\* What differs between scenarios in ways the runner or the verdict looks at.
Healthy == [validators |-> 4, slotsPerEpoch |-> 5, gating |-> FALSE, threshold |-> 40,
            window |-> 4, penalty |-> 100, degraded |-> None, delay |-> 0, drop |-> 0,
            disabled |-> FALSE, load |-> "Steady", loadSecs |-> 12, abuse |-> None,
            expectedLowest |-> None, minLowest |-> None, maxLowest |-> None,
            minRejections |-> None, maxBelow |-> None, maxRejections |-> None,
            minRateDrops |-> None, minInboundDrops |-> None]

\* recommended_service_score_window_epochs_for_validators.
WindowFor(validators) == Max({4, validators})

Bursty == [Healthy EXCEPT !.validators = 6, !.slotsPerEpoch = 6, !.window = WindowFor(6),
                          !.load = "Bursty", !.loadSecs = 18]

\* Seeded defect: the degraded validator is not expected to show.
Drop95Unmarked == [Healthy EXCEPT !.gating = TRUE, !.degraded = 3, !.drop = 95, !.loadSecs = 20,
                                  !.maxBelow = 0, !.maxRejections = 0]
\* Validator 3 loses 95% of what it sends and must be gated, alone.
Drop95 == [Healthy EXCEPT !.gating = TRUE, !.degraded = 3, !.drop = 95, !.loadSecs = 20,
                          !.expectedLowest = 3, !.minRejections = <<3, 1>>,
                          !.maxBelow = 0, !.maxRejections = 0]

Baselines ==
    [b4 |-> [Healthy EXCEPT !.minLowest = 95],
     b6 |-> [Bursty EXCEPT !.minLowest = 45],
     g6 |-> [Bursty EXCEPT !.gating = TRUE, !.minLowest = 70, !.maxBelow = 0, !.maxRejections = 0]]

Gated ==
    [drop85 |-> [Drop95 EXCEPT !.degraded = 4, !.drop = 85, !.loadSecs = 18, !.expectedLowest = 4,
                               !.maxLowest = 85, !.minRejections = None],
     drop95 |-> Drop95,
     outboundDisabled |-> [Drop95 EXCEPT !.drop = 0, !.disabled = TRUE, !.maxLowest = 5]]

Policies ==
    [threshold025 |-> [Drop95 EXCEPT !.threshold = 25],
     threshold055 |-> [Drop95 EXCEPT !.threshold = 55],
     window1 |-> [Drop95 EXCEPT !.window = 1, !.loadSecs = 22, !.maxBelow = 1, !.maxRejections = 1],
     window8 |-> [Drop95 EXCEPT !.window = 8, !.loadSecs = 24]]

Penalties ==
    [penalty050 |-> [Drop95 EXCEPT !.penalty = 50],
     penalty150 |-> [Drop95 EXCEPT !.penalty = 150]]

Abuses ==
    [syncControl |-> [Healthy EXCEPT !.abuse = [kind |-> "SyncControlFlood", validator |-> 4],
                                     !.minLowest = 85, !.minRateDrops = 8],
     inbound |-> [Healthy EXCEPT !.abuse = [kind |-> "InboundConnectionFlood", validator |-> 1],
                                 !.minLowest = 85, !.minInboundDrops = 1]]

\* rigorous_matrix_scenarios.
RigorousScenarios ==
    Range(Baselines) \cup Range(Gated) \cup Range(Policies) \cup Range(Penalties) \cup Range(Abuses)

-----------------------------------------------------------------------------
\* Seeded defect: without the one more than the logarithm.
WitnessCountForLog(validators) ==
    LET most == validators - 1
    IN  IF most <= 3 THEN most
        ELSE Min({most, Max({3, CHOOSE k \in 0 .. validators :
                                    2 ^ k >= validators /\ (k = 0 \/ 2 ^ (k - 1) < validators)})})
\* recommended_v2_witness_count_for_validators: the loop that doubles a power of two
\* stops at the least one that reaches the number of validators.
WitnessCountFor(validators) ==
    LET most == validators - 1
        ceilLog2 == CHOOSE k \in 0 .. validators :
                        2 ^ k >= validators /\ (k = 0 \/ 2 ^ (k - 1) < validators)
    IN  IF most <= 3 THEN most ELSE Min({most, Max({3, ceilLog2 + 1})})

\* degraded_fault_profile: a degraded validator for which no fault is given gets one.
FaultProfile(v, s) ==
    IF s.degraded # v THEN [delay |-> 0, drop |-> 0, disabled |-> FALSE]
    ELSE [delay |-> s.delay, disabled |-> s.disabled,
          drop |-> IF s.delay = 0 /\ s.drop = 0 /\ ~s.disabled THEN 85 ELSE s.drop]

-----------------------------------------------------------------------------
(***************************************************************************)
(* Reports.  build_localnet_report skips validators without metrics.       *)
(***************************************************************************)
Total(scores, field) == FoldFunction(LAMBDA m, sum : m[field] + sum, 0, scores)

\* lowest_score: min_by over the validators in the order of their ids.
Lowest(scores) ==
    CHOOSE v \in DOMAIN scores : \A w \in DOMAIN scores :
        scores[v].score < scores[w].score \/ (scores[v].score = scores[w].score /\ v <= w)

\* build_structural_report.  max_by_key takes the last of the longest chains.
SameChainCount(nodes) ==
    LET longest == Max({Len(nodes[v].chain) : v \in DOMAIN nodes})
        last    == Max({v \in DOMAIN nodes : Len(nodes[v].chain) = longest})
    IN  Cardinality({v \in DOMAIN nodes : nodes[v].chain = nodes[last].chain})

AllTipsMatch(nodes)   == \A v \in DOMAIN nodes : nodes[v].tip = nodes[v].chain
AllParentOk(nodes)    == \A v \in DOMAIN nodes : nodes[v].linked
AllStderrClean(nodes) == \A v \in DOMAIN nodes : nodes[v].clean

Heights(nodes)   == {Len(nodes[v].chain) : v \in DOMAIN nodes}
TipSpread(nodes) == Cardinality({nodes[v].chain : v \in DOMAIN nodes}) - 1

\* count_non_target_below_threshold and total_non_target_gating_rejections.
Target(s) == IF s.degraded # None THEN s.degraded ELSE s.expectedLowest

NonTargetBelow(s, scores) ==
    Cardinality({v \in DOMAIN scores : v # Target(s) /\ scores[v].score < s.threshold})

NonTargetRejections(s, scores) ==
    Total(Restrict(scores, DOMAIN scores \ {Target(s)}), "rejections")

-----------------------------------------------------------------------------
(***************************************************************************)
(* Verdicts.                                                               *)
(***************************************************************************)

\* scenario_expectations_met: the early returns of the settle loop.
ExpectationsMet(s, scores, nodes) ==
    LET fails ==
        \/ SameChainCount(nodes) # Cardinality(DOMAIN nodes)
        \/ ~AllParentOk(nodes) \/ ~AllTipsMatch(nodes) \/ ~AllStderrClean(nodes)
        \/ s.expectedLowest # None /\ (DOMAIN scores = {} \/ Lowest(scores) # s.expectedLowest)
        \/ s.minLowest # None /\ (DOMAIN scores = {} \/ scores[Lowest(scores)].score < s.minLowest)
        \/ s.maxLowest # None /\ (DOMAIN scores = {} \/ scores[Lowest(scores)].score > s.maxLowest)
        \/ s.minRejections # None /\
            (s.minRejections[1] \notin DOMAIN scores
                \/ scores[s.minRejections[1]].rejections < s.minRejections[2])
        \/ s.minRateDrops # None /\ Total(scores, "rateDrops") < s.minRateDrops
        \/ s.minInboundDrops # None /\ Total(scores, "inboundDrops") < s.minInboundDrops
        \/ s.maxBelow # None /\ NonTargetBelow(s, scores) > s.maxBelow
        \/ s.maxRejections # None /\ NonTargetRejections(s, scores) > s.maxRejections
    IN  ~fails

Structural(nodes) ==
    /\ SameChainCount(nodes) = Cardinality(DOMAIN nodes)
    /\ AllParentOk(nodes) /\ AllTipsMatch(nodes) /\ AllStderrClean(nodes)

\* MatrixScenarioResult::passed: the verdict of the report, written on its own.
Passed(s, scores, nodes) ==
    LET lowestScore == scores[Lowest(scores)].score
    IN  /\ Structural(nodes)
        /\ s.expectedLowest # None => (DOMAIN scores # {} /\ Lowest(scores) = s.expectedLowest)
        /\ s.minLowest # None => (DOMAIN scores # {} /\ lowestScore >= s.minLowest)
        /\ s.maxLowest # None => (DOMAIN scores # {} /\ lowestScore <= s.maxLowest)
        /\ s.minRejections # None =>
            (s.minRejections[1] \in DOMAIN scores
                /\ scores[s.minRejections[1]].rejections >= s.minRejections[2])
        /\ s.minRateDrops # None => Total(scores, "rateDrops") >= s.minRateDrops
        /\ s.minInboundDrops # None => Total(scores, "inboundDrops") >= s.minInboundDrops
        /\ s.maxBelow # None => NonTargetBelow(s, scores) <= s.maxBelow
        /\ s.maxRejections # None => NonTargetRejections(s, scores) <= s.maxRejections

\* failure_signal; events are the fork-observed and sync-blocks-rejected entries.
FailureSignal(s, scores, nodes, events) ==
    IF Passed(s, scores, nodes) THEN None
    ELSE IF \/ SameChainCount(nodes) # Cardinality(DOMAIN nodes)
            \/ Max(Heights(nodes)) > Min(Heights(nodes))
            \/ TipSpread(nodes) > 0
            \/ events > 0
         THEN "sync/fork"
         ELSE "policy/gating"
=============================================================================
