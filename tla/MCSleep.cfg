SPECIFICATION FairSpec
CONSTANTS
    s1 = s1
    s2 = s2
    f1 = f1
    f2 = f2
    Sources = {s1, s2}
    Fds = {f1, f2}
    Zero = {s2}
    Wandering = {s1}
INVARIANTS NeverEarly  InterestKept
PROPERTIES SleepEnds StopEnds
CHECK_DEADLOCK FALSE
