CONSTANTS
    Account = {1, 2}
    Tx = {1, 2, 3, 4}
    From <- RivalFrom
    To <- RivalTo
    Amount <- RivalAmount
    Nonce <- RivalNonce
    Unsigned = {4}
    InitialBalance <- Balances
    BalanceWidth = 8
    MaxTxsPerBlock = 2
    Validators = {1, 2}
    Blocks = {1, 2, 3}
    Parent <- ForkParent
    Slot <- ForkSlot
    Producer <- ForkProducer
    Receipt = {101, 102, 103}
    MaxStops = 3
SPECIFICATION MCSpec
INVARIANTS ComponentsTyped LedgerIsReplay NoncesInSequence  
  
CHECK_DEADLOCK FALSE
