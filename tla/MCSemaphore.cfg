SPECIFICATION Spec
CONSTANTS
    c1 = c1
    c2 = c2
    c3 = c3
    Clients = {c1, c2, c3}
    Requests <- MCRequests
    Wants = {1, 2}
    HungryWants = {2, 3}
    HungryClients = {c1, c2, c3}
    Cancellable = {c1, c2, c3}
    MaxPermits = 3
    UsizeMax = 15
    MaxRounds = 1
SYMMETRY Symmetry
CHECK_DEADLOCK FALSE
INVARIANTS TypeOK PermitsConserved StuckOnlyForKnownCause
