CONSTANTS
    None = None
    Missing = Missing
    Torn = Torn
    Nodes = 2
    Scenarios <- MCScenarios
    Blocks = {"a", "b"}
    Metrics <- MCMetrics
    SpawnMayFail = TRUE
    MaxWork = 1
    MaxHeight = 1
    MaxPolls = 1
SPECIFICATION MCSpec
INVARIANTS VerdictsSound QuorumSurvivesOneSilent ChildrenReaped CrashesNoticed
 
CHECK_DEADLOCK FALSE
