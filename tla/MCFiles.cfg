SPECIFICATION Spec
CONSTANTS
    c1 = c1
    c2 = c2
    Callers = {c1, c2}
    FileOpens <- MCFileOpens
    RelOpens <- MCRelOpens
    DirOpens <- MCDirOpens
    DirMakes <- MCDirMakes
    NewPaths <- MCNewPaths
    MaxSteps = 3
SYMMETRY Symmetry
INVARIANTS PathNamesFile IterationsTellAll DescriptorsAccounted
PROPERTY UndisturbedCallsSucceed
CHECK_DEADLOCK FALSE
