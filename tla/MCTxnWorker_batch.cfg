SPECIFICATION Spec
CONSTANTS
    t1 = t1
    t2 = t2
    a = a
    b = b
    nil = nil
    Threads = {t1, t2}
    Senders = {a, b}
    Pending <- TwoAccounts
    IndexRange = 2
    GasLimit = 5
    TxGas = 1
    GasUses = {1}
    AdjustCap = 3
SYMMETRY ThreadSymmetry
INVARIANTS
    ExclusiveSender
    NonceOrder
    ExecutesLiveHead
    FindNeverPanics
    NoStranding
    UsedGasIsReceiptGas
    
