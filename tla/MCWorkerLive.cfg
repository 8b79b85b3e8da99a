SPECIFICATION FairSpec
CONSTANTS
    t1 = t1
    t2 = t2
    Tasks = {t1}
    IoTasks = {t1}
    Foreign = {f1}
    Cancels = {}
    SqSize = 1
    Stops = {"signal"}
    MaxPolls = 1
    MaxNudges = 1
    MaxFaults = 2
INVARIANT NothingSleepsUnnoticed
PROPERTIES SpawnedTaskFinishes DrainEnds
CHECK_DEADLOCK FALSE
