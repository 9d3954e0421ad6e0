CONSTANTS
    None = None
    Addresses = {sender, contract, other, crossing}
    Builtin = {}
    Keys = {slot}
    Sender = sender
    Cross = crossing
    Creatable = {contract}
    Values = {0}
    TxValues = {0}
    GasCost = 4
    MaxDepth = 2
    MaxCalls = 1
    MaxTxns = 2
    MCBalance = 8
    MCContracts = {contract, other}
    InitDb <- MCDb
SPECIFICATION Spec
PROPERTY
    RecreatedIsEmpty
CHECK_DEADLOCK FALSE
