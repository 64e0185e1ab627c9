CONSTANTS
    Validators = {1, 2}
    Node = {1, 2}
    Blocks = {1, 2, 3, 4}
    Parent <- PairParent
    Slot <- PairSlot
    Producer <- PairProducer
    ServiceGating = FALSE
    MaxRestarts = 0
SPECIFICATION GossipSpec
INVARIANTS CertificatesAgree NodeConsistent
CHECK_DEADLOCK FALSE
