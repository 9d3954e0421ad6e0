CONSTANTS
    None = None
    Addresses = {sender, contract, newcomer, crossing}
    Builtin = {newcomer}
    Keys = {slot}
    Sender = sender
    Cross = crossing
    Creatable = {newcomer}
    Values = {0, 1}
    TxValues = {0, 1, 2}
    GasCost = 4
    MaxDepth = 2
    MaxCalls = 2
    MaxTxns = 1
    MCBalance = 5
    MCContracts = {contract}
    InitDb <- MCDb
SPECIFICATION Spec
INVARIANTS
    TypeOK
    CheckpointPerFrame
    
    NoValueFromNothing
PROPERTIES
    WorldPerFrame
CHECK_DEADLOCK FALSE
