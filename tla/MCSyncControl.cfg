CONSTANTS
    Validators = {1, 2}
    Live = {1, 2}
    Blocks = {1, 2, 3}
    Parent <- ForkParent
    Slot <- ForkSlot
    Producer <- ForkProducer
    Support <- ForkSupport
    Starts <- RunStarts
    MaxPreferred = 1
    MaxLosses = 2
    MaxRestarts = 1
    Growth = {2, 3}
SPECIFICATION MCSpec
INVARIANT TypeOK
  
