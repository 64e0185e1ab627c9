CONSTANTS
    Validators = {1, 2, 3}
    Node = {1}
    Blocks = {1, 2, 3, 4}
    Parent <- RaceParent
    Slot <- RaceSlot
    Producer <- RaceProducer
    ServiceGating = FALSE
    MaxRestarts = 0
SPECIFICATION FairSpec
PROPERTY HandlersReturn
