CONSTANTS
    Validators = {1, 2, 3}
    WitnessCount = 2
    SlotsPerEpoch = 1
    Rotation <- NoRotation
    Subjects = {3}
    Followed = {0, 1}
    Weights <- Recommended
    Window = 2
    StartEpoch = 3
    Threshold = 40
    Lag = 0
    Delay = 4
    Settled = FALSE
    LastService = 1
    Classes = {"Heartbeat"}
    StartSlot = 3
    MayRestart = {1, 3}
    MaxSlot = 4
    MaxLosses = 0
    MaxRestarts = 1
    MaxSnapshots = 0
SPECIFICATION MCSpec
INVARIANTS AggregatesSettle ServingNeverRejected
PROPERTIES EvidenceGrows  SettledEpochsJudged
CHECK_DEADLOCK FALSE
