SPECIFICATION Spec
CONSTANTS
    c = c
    rip = rip
    h0 = h0
    h1 = h1
    Accounts = {c}
    Contracts = {c}
    ripemd = rip
    Hashes = {h0, h1}
    ZeroHash = h0
    Preimages = {h1}
    deleteEmptyObjects = TRUE
    ReadsFail = FALSE
    MaxValue = 1
    MaxRefund = 1
    MaxEntries <- MCMaxEntries
    MaxRevisions <- MCMaxRevisions
    MaxLogs = 2
INVARIANTS ChangesAreDirty CopyOfCommitted
PROPERTIES RevertRestores CommitIsComplete
