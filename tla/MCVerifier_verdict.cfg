SPECIFICATION VerifierSpec
CONSTANTS
    a = a
    b = b
    NumThreads = 2
    Senders = {a, b}
    Requests = {1, 2}
    MaxAdds = 2
SYMMETRY Symmetry
INVARIANTS
    VerdictIsExact
    LastRoundComplete
