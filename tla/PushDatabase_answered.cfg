\* Is every operation answered?
SPECIFICATION FairSpec
CONSTANTS
    Paths = {path1}
    Callers = {c1, c2}
    Promises = {p1, p2}
    None = None
    MaxGeneration = 1
PROPERTIES
    EveryCallerAnswered
