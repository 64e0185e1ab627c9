SPECIFICATION MCSpec
CONSTANTS
    Senders = {1, 2}
    Message = {1, 2, 3}
    From <- MCFrom
    FaultDropped = {2}
    Policies <- MCPolicies
    Omitted <- MCOmitted
    DefaultTtl = 2
    Capacity = 1
    Unreachable = TRUE
    MaxResets = 1
    MaxTime = 2
    Peers <- MCPeers
    Limit <- MCLimit
    Messages = {"SyncStatus", "ReceiptFetch", "TransactionBroadcast", "BlockProposal"}
    Window = 3
    Targets <- MCTargets
    ScoreWindow = 2
    LastTime = 8
INVARIANTS FramesDecrypt PeersJudgedFairly
PROPERTIES DeliversAtMostOnce SendsSettle
CHECK_DEADLOCK FALSE
