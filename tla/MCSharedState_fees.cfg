SPECIFICATION Spec
CONSTANTS
    t1 = t1
    t2 = t2
    s1 = s1
    s2 = s2
    x = x
    y = y
    z = z
    cb = cb
    Threads = {t1, t2}
    Accounts = {s1, s2, x, y, cb}
    coinbase = cb
    Funds = 4
    Batches <- Fees
INVARIANT MinedBlockIsValid
