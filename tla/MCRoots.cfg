CONSTANTS
    Validators = {1, 2, 3, 4}
    Node = {1}
    Blocks = {1, 2, 3}
    Parent <- RootsParent
    Slot <- RootsSlot
    Producer <- RootsProducer
    ServiceGating = TRUE
    MaxRestarts = 0
SPECIFICATION GossipSpec
INVARIANTS ParkedOnCertified NodeConsistent
PROPERTY CertifiedHeightNeverFalls
