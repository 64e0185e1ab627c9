CONSTANTS
    Validators = {1, 2, 3}
    Node = {1, 2, 3}
    Blocks = {1, 2}
    Parent <- RivalParent
    Slot <- RivalSlot
    Producer <- RivalProducer
    ServiceGating = FALSE
    MaxRestarts = 0
SPECIFICATION GossipSpec
INVARIANT CertificatesAgree
CHECK_DEADLOCK FALSE
