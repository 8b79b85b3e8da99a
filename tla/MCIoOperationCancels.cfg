SPECIFICATION Spec
CONSTANTS
    w1 = w1
    w2 = w2
    f1 = f1
    f2 = f2
    l1 = l1
    Workers = {w1, w2}
    Futures = {f1, f2}
    Listeners = {}
    MaxKeys = 2
    MaxAccepts = 2
INVARIANT NoLiveOperationCanceled
CHECK_DEADLOCK FALSE
