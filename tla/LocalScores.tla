----------------------------- MODULE LocalScores -----------------------------
(***************************************************************************)
(* Service scores without consensus_v2: a node computes the scores from    *)
(* the receipts it has and from the penalties it has observed itself, over *)
(* a rolling window of completed epochs in which newer epochs weigh more,  *)
(* and gives up its own slots while its score is below the threshold.  The *)
(* module follows the score that node Self has of itself.                  *)
(***************************************************************************)
EXTENDS Schedule

CONSTANTS
    Self,
    Weights,         \* feature_flags.service_score_weights, in percent
    Window,          \* feature_flags.service_score_window_epochs
    StartEpoch,      \* feature_flags.service_gating_start_epoch
    Threshold,       \* feature_flags.service_gating_threshold, in percent
    ServesFrom,      \* from this slot on Self's heartbeats are receipted and its
                     \* sessions do not fail; before it, anything may happen
    Delay,           \* bound: slots it then takes for a receipt to reach Self
    MaxInvalid,      \* bound: invalid receipts counted against Self
    MaxSlot, MaxRestarts

LocalScoresAssumption ==
    /\ ScheduleAssumption
    /\ Self \in Validators
    /\ Window \in Nat /\ StartEpoch \in Nat /\ Threshold \in 0 .. 100
    /\ \A f \in {"uptime", "delivery", "diversity", "penalty"} : Weights[f] \in Nat

VARIABLES
    slot,            \* last_processed_slot, -1 for None
    receipts,        \* the <<witness, slot>> of the heartbeats of Self it has receipts for
    failed,          \* observed_failed_sessions of Self, <<epoch, peer>>
    reached,         \* observed_successful_sessions of Self
    invalid,         \* observed_invalid_receipts against Self, by epoch
    score,           \* latest_service_scores[Self], <<>> if there is none
    gate,            \* what the gate said in the last slot
    restarts

vars == <<slot, receipts, failed, reached, invalid, score, gate, restarts>>

Epochs == 0 .. EpochForSlot(MaxSlot)
Full   == <<1, 1>>

WitnessesOf == [e \in Epochs |-> Witnesses(Self, e)]

-----------------------------------------------------------------------------
FailedSessions(S, e) == Cardinality({s \in S : s[1] = e})

\* counters_for_validator: what the receipts and penalties say of one epoch.
EpochCounters(R, S, I, e) ==
    LET mine == {r \in R : EpochForSlot(r[2]) = e}
    IN  CountersFromReceipts(Cardinality({r[2] : r \in mine}), Cardinality(mine),
                             Cardinality({r[1] : r \in mine}), Cardinality(WitnessesOf[e]),
                             FailedSessions(S, e), I[e])

\* Seeded defect: the window reaches one epoch further back.
FirstEpochFurther(epoch) == Max({epoch - 1 - Max({Window, 1}), 0})
\* The first of the completed epochs that a score in this epoch covers.
FirstEpoch(epoch) == Max({epoch - 1 - (Max({Window, 1}) - 1), 0})

\* prune_penalty_observations.
Pruned(S, epoch) == {s \in S : s[1] >= FirstEpoch(epoch)}

\* accumulate_weighted_counters.
Weighted(c, weight) == ScaleCounters(c, weight)

\* The score of refresh_service_scores in an epoch with these observations.
WindowScore(R, S, I, epoch) ==
    LET first == FirstEpoch(epoch)
        sum   == FoldSet(LAMBDA e, acc : AddCounters(acc, Weighted(EpochCounters(R, S, I, e), e - first + 1)),
                         NoCounters, first .. epoch - 1)
    IN  IF epoch = 0 THEN Full ELSE Score(sum, Weights)

\* service_score_for_validator.
ScoreOf(s) == IF s = <<>> THEN Full ELSE s

\* service_gating_active, should_enforce_service_gating_for_block: blocks of others are
\* not gated here.
GatingActive(epoch) == epoch >= StartEpoch

\* The gate of maybe_propose_block, which the block must pass again in accept_block
\* (validate_block_basic).
Verdict(s, epoch) ==
    CASE ~GatingActive(epoch) -> "warmup"
      [] GatingActive(epoch) /\ Below(ScoreOf(s), Threshold) -> "reject"
      [] OTHER -> "allow"

-----------------------------------------------------------------------------
\* The receipts that must have reached Self by slot t.
Due(t) ==
    {<<w, u>> \in Validators \X (ServesFrom .. t - Delay - 1) :
        w \in WitnessesOf[EpochForSlot(u)]}

Init ==
    /\ slot = -1
    /\ receipts = {} /\ failed = {} /\ reached = {}
    /\ invalid = [e \in Epochs |-> 0]
    /\ score = <<>> /\ gate = "none" /\ restarts = 0

\* process_slot_tick in the next slot: refresh_service_scores, then the gate.
Tick ==
    LET t     == slot + 1
        epoch == EpochForSlot(t)
        kept(S) == IF epoch = 0 THEN S ELSE Pruned(S, epoch)
    IN  /\ slot < MaxSlot
        /\ Due(t) \subseteq receipts
        /\ slot' = t
        /\ failed' = kept(failed)
        /\ reached' = kept(reached)
        /\ invalid' = [e \in Epochs |-> IF epoch = 0 \/ e >= FirstEpoch(epoch) THEN invalid[e] ELSE 0]
        /\ score' = WindowScore(receipts, failed', invalid', epoch)
        /\ gate' = Verdict(score', epoch)
        /\ UNCHANGED <<receipts, restarts>>

\* A witness's receipt for the heartbeat of a slot reaches Self, however late.
StoreReceipt(w, t) ==
    /\ t <= slot /\ w \in WitnessesOf[EpochForSlot(t)]
    /\ <<w, t>> \notin receipts
    /\ receipts' = receipts \cup {<<w, t>>}
    /\ UNCHANGED <<slot, failed, reached, invalid, score, gate, restarts>>

\* record_successful_session, record_failed_session with a relay target that has been
\* heard of before.
SessionObserved(p) ==
    LET e == EpochForSlot(slot)
    IN  /\ slot >= 0 /\ p \in WitnessesOf[e]
        /\ reached' = reached \cup {<<e, p>>}
        /\ failed' = failed \ {<<e, p>>}
        /\ UNCHANGED <<slot, receipts, invalid, score, gate, restarts>>

SessionFailed(p) ==
    LET e == EpochForSlot(slot)
    IN  /\ 0 <= slot /\ slot < ServesFrom /\ p \in WitnessesOf[e]
        /\ <<e, p>> \notin reached
        /\ failed' = failed \cup {<<e, p>>}
        /\ UNCHANGED <<slot, receipts, reached, invalid, score, gate, restarts>>

\* record_invalid_receipt against Self, in the epoch the receipt names.
InvalidReceipt(e) ==
    /\ slot < ServesFrom /\ e <= EpochForSlot(slot)
    /\ invalid[e] < MaxInvalid
    /\ invalid' = [invalid EXCEPT ![e] = @ + 1]
    /\ UNCHANGED <<slot, receipts, failed, reached, score, gate, restarts>>

\* run_node: the receipts are on disk, scores and penalties are not; the node resumes one
\* slot back, or in this one if its tip is of this slot (initial_last_processed_slot).
Restart ==
    /\ restarts < MaxRestarts
    /\ slot >= 1
    /\ restarts' = restarts + 1
    /\ slot' \in {slot - 1, slot}
    /\ failed' = {} /\ reached' = {} /\ invalid' = [e \in Epochs |-> 0]
    /\ score' = <<>> /\ gate' = "none"
    /\ UNCHANGED receipts

Next ==
    \/ Tick
    \/ \E w \in Validators, t \in 0 .. MaxSlot : StoreReceipt(w, t)
    \/ \E p \in Validators : SessionObserved(p) \/ SessionFailed(p)
    \/ \E e \in Epochs : InvalidReceipt(e)
    \/ Restart

Spec == Init /\ [][Next]_vars

-----------------------------------------------------------------------------
(* Properties.                                                              *)

\* Types: a score is a fraction between zero and one whatever the penalties are
\* (compute_service_score_with_weights), and the penalties kept are of the epochs that
\* can still count, so the observations do not pile up (prune_penalty_observations).
TypeOK ==
    /\ slot \in -1 .. MaxSlot
    /\ score # <<>> => score[2] > 0 /\ 0 <= score[1] /\ score[1] <= 100 * score[2]
    /\ \A s \in failed \cup reached :
        s[1] \in FirstEpoch(EpochForSlot(Max({slot, 0}))) .. EpochForSlot(Max({slot, 0}))
    /\ \A e \in Epochs : invalid[e] \in 0 .. MaxInvalid

\* A slot is given up for a reason: if the window's score is below the threshold, then
\* so is the score of at least one of its epochs alone, however the epochs are weighed
\* (refresh_service_scores, accumulate_weighted_counters).
RejectionJustified ==
    slot' = slot + 1 /\ gate' = "reject" =>
        \E e \in FirstEpoch(EpochForSlot(slot')) .. EpochForSlot(slot') - 1 :
            Below(Score(EpochCounters(receipts, failed', invalid', e), Weights), Threshold)

\* Short failures do not cost a validator its slots for ever: once it has served for as
\* many whole epochs as the window is long, it is allowed again, even in the first slot
\* of an epoch, when the last receipts are still on their way (refresh_service_scores,
\* service_score_for_validator).
RecoversInTime ==
    EpochForSlot(slot) > EpochForSlot(ServesFrom + SlotsPerEpoch - 1) + Max({Window, 1}) - 1
        => gate # "reject"
=============================================================================
