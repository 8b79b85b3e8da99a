SPECIFICATION FairSpec
CONSTANTS
    Tasks = {t1, t2, t3}
    Cancellable = {t1}
    MaxGuards = 2
    MaxWakers = 2
    MaxWakes = 1
INVARIANTS TypeOK MutualExclusion ParkedIsReachable StrandedOnlyByStaleWaker
PROPERTIES QueueIsServed ImplementsLock
