SPECIFICATION Spec
CONSTANTS
    t1 = t1
    t2 = t2
    Tasks = {t1, t2}
    IoTasks = {t1, t2}
    Foreign = {}
    Cancels = {x1}
    SqSize = 1
    Stops = {"shutdown", "kill"}
    MaxPolls = 1
    MaxNudges = 0
    MaxFaults = 0
SYMMETRY Symmetry
CHECK_DEADLOCK FALSE
INVARIANTS
    TypeOK ParkedHasWaker NoOperationStranded
    EarlyTasksFinish EndIsAnnounced
PROPERTY StoppingIsFinal
