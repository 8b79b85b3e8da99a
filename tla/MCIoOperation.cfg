SPECIFICATION FairSpec
CONSTANTS
    w1 = w1
    w2 = w2
    f1 = f1
    f2 = f2
    l1 = l1
    Workers = {w1, w2}
    Futures = {f1}
    Listeners = {l1}
    MaxKeys = 2
    MaxAccepts = 2
INVARIANTS EntryOutlivesKernel NoResultLost CanceledOnlyByCollision
PROPERTIES FutureIsAnswered AcceptIsHandedOver ImplementsOneShot
CHECK_DEADLOCK FALSE
