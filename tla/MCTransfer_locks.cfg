SPECIFICATION FairTransferSpec
CONSTANTS
    t1 = t1
    t2 = t2
    t3 = t3
    a = a
    b = b
    c = c
    Workers = {t1, t2, t3}
    Accounts = {a, b, c}
    Pairs <- Distinct
INVARIANTS
    ExclusiveAccounts
    NoLeakedEntry
PROPERTIES
    ObstructionFree
