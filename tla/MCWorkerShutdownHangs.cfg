SPECIFICATION FairSpec
CONSTANTS
    t1 = t1
    t2 = t2
    Tasks = {t1}
    IoTasks = {t1}
    Foreign = {}
    Cancels = {x1}
    SqSize = 1
    Stops = {"shutdown"}
    MaxPolls = 1
    MaxNudges = 0
    MaxFaults = 0
CHECK_DEADLOCK FALSE
PROPERTY ShutdownEnds
