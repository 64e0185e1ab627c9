------------------------------ MODULE Schedule ------------------------------
(***************************************************************************)
(* entangrid-consensus: the slot and epoch schedule, the witnesses of a    *)
(* validator, the committee that attests its service, and the score that   *)
(* the attested counters give.  The code computes scores in f64; here a    *)
(* score is a fraction <<numerator, denominator>> of integers and weights  *)
(* and thresholds are percentages.                                         *)
(***************************************************************************)
EXTENDS Integers, Sequences, FiniteSets, FiniteSetsExt, SequencesExt

CONSTANTS
    Validators,      \* ids of the validators listed in genesis, integers
    WitnessCount,    \* genesis.witness_count
    SlotsPerEpoch,   \* genesis.slots_per_epoch
    Rotation         \* the first eight bytes of an epoch's seed, modulo the
                     \* number of validators, for each epoch

\* What the constants are assumed to be; the instances of a run are checked for it.
ScheduleAssumption ==
    /\ Validators \subseteq Nat /\ Validators # {} /\ IsFiniteSet(Validators)
    /\ WitnessCount \in Nat
    /\ SlotsPerEpoch \in Nat \ {0}
    /\ \A e \in DOMAIN Rotation : Rotation[e] \in 0 .. Cardinality(Validators) - 1

EpochForSlot(slot) == slot \div SlotsPerEpoch

\* The validators in the order of their ids, turned left by the epoch's rotation.
Rotated(epoch) ==
    LET count == Cardinality(Validators)
        place(v) == Cardinality({u \in Validators : u < v})
    IN  [i \in 1 .. count |->
            CHOOSE v \in Validators : place(v) = (i - 1 + Rotation[epoch]) % count]

\* The relay targets of a validator, which are also its witnesses: the ones
\* that follow it in the rotated order.
Witnesses(validator, epoch) ==
    LET order == Rotated(epoch)
        place == CHOOSE i \in DOMAIN order : order[i] = validator
        near  == Min({WitnessCount, Len(order) - 1})
    IN  {order[((place - 1 + offset) % Len(order)) + 1] : offset \in 1 .. near}

\* The members of a subject's service committee, and the ones of them that
\* collect the attestations of all.
Committee(subject, epoch) == Witnesses(subject, epoch)

Aggregators(subject, epoch) ==
    {v \in Committee(subject, epoch) :
        Cardinality({u \in Committee(subject, epoch) : u < v}) < 3}

CommitteeThreshold(subject, epoch) ==
    LET size == Cardinality(Committee(subject, epoch))
    IN  IF size = 0 THEN 0 ELSE (size * 2) \div 3 + 1

-----------------------------------------------------------------------------
CounterFields == {"uptime", "windows", "timely", "expected", "peers",
                  "expectedPeers", "failed", "invalid"}

NoCounters == [f \in CounterFields |-> 0]

AddCounters(c, d) == [f \in CounterFields |-> c[f] + d[f]]

ScaleCounters(c, weight) == [f \in CounterFields |-> c[f] * weight]

\* What one committee member saw of a subject in an epoch: the heartbeat slots
\* it has receipts for, and its receipts of all kinds.
CountersFromObserver(heartbeats, receipts) ==
    [NoCounters EXCEPT !.uptime = heartbeats, !.windows = SlotsPerEpoch,
                       !.timely = receipts, !.expected = SlotsPerEpoch,
                       !.peers = IF receipts > 0 THEN 1 ELSE 0,
                       !.expectedPeers = 1]

\* What all receipts about a validator say, with the penalties of the observer.
CountersFromReceipts(heartbeats, receipts, peers, targets, failed, invalid) ==
    [uptime |-> heartbeats, windows |-> SlotsPerEpoch,
     timely |-> receipts, expected |-> SlotsPerEpoch,
     peers |-> peers, expectedPeers |-> Max({targets, 1}),
     failed |-> failed, invalid |-> invalid]

Capped(n, limit) == Min({n, limit})

\* compute_service_score_with_weights: each ratio is capped at one, the sum is
\* clamped to zero and one.
Score(c, weights) ==
    LET den     == Max({c.windows, 1}) * Max({c.expected, 1}) * Max({c.expectedPeers, 1})
        part(n, of) == IF of = 0 THEN 0 ELSE Capped(n, of) * (den \div of)
        raw     == weights.uptime * part(c.uptime, c.windows)
                   + weights.delivery * part(c.timely, c.expected)
                   + weights.diversity * part(c.peers, c.expectedPeers)
                   - weights.penalty * part(c.failed + c.invalid, Max({c.windows, 1}))
    IN  <<Max({0, Min({raw, 100 * den})}), den>>

Below(score, threshold) == score[1] < threshold * score[2]
=============================================================================
