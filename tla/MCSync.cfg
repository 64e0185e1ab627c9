CONSTANTS
    Validators = {1, 2}
    Node = {1}
    Blocks = {1, 2, 3}
    Parent <- ForkParent
    Slot <- ForkSlot
    Producer <- ForkProducer
    ServiceGating = TRUE
    MaxRestarts = 1
SPECIFICATION Spec
INVARIANTS TypeOK VoteBookConsistent BlocksKeptOnce CertificatesBacked
