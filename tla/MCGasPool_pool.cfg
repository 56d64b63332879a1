SPECIFICATION FairGasSpec
CONSTANTS
    t1 = t1
    t2 = t2
    t3 = t3
    Threads = {t1, t2}
    Amounts = {1, 3}
    GasLimit = 4
    MaxUint64 = 4
    MaxTxs = 2
INVARIANTS
    GasConserved
PROPERTIES
    ActsAtomically
    AllFinish
