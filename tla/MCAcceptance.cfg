CONSTANTS
    None = None
    Malformed = Malformed
    Nodes = {1, 2}
    Identities <- MCIdentities
    SessionIdentities <- MCSessionIdentities
    KeyFiles <- MCKeyFiles
    SessionKeyFiles <- MCSessionKeyFiles
    MaxSessions = 2
    Schemes = {"DevDeterministic", "MlDsa"}
    Bytes = {"", "a"}
    Empty = ""
    NoValue = NoValue
    MaxComponents = 2
    Validators = {1, 2, 3}
    WitnessCount = 1
    SlotsPerEpoch = 1
    Rotation <- NoRotation
    Sources = {1}
    Weights <- Recommended
    DefaultWeights <- Recommended
    LastService = 0
    MaxSlot = 2
    MaxLosses = 1
    MaxResends = 0
    MaxSnapshots = 0
SPECIFICATION MCSpec
INVARIANTS  KeysFresh AcceptedMatchesIdentity GeneratedNetsBoot EncodingsFaithful
    EventsCountedOnce 
CHECK_DEADLOCK FALSE
