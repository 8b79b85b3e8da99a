SPECIFICATION Spec
CONSTANTS
    c1 = c1
    c2 = c2
    c3 = c3
    c4 = c4
    Clients = {c1, c2, c3}
    Writers = {c1, c2}
    Cancellable = {}
    MaxPermits = 2
    Requests <- LockRequests
    UsizeMax = 15
    MaxRounds = 1
CHECK_DEADLOCK FALSE
INVARIANT Exclusive
