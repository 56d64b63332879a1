SPECIFICATION FairSpec
CONSTANTS
    t1 = t1
    t2 = t2
    a = a
    b = b
    nil = nil
    Threads = {t1, t2}
    Senders = {a, b}
    Pending <- ProtectedAccount
    IndexRange = 2
    GasLimit = 2
    TxGas = 1
    GasUses = {1, 2}
    AdjustCap = 3

    
PROPERTIES
    BatchEnds
    RemovedForever
