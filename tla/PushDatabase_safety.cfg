\* Three operations over three life cycles of the database.
SPECIFICATION Spec
CONSTANTS
    Paths = {path1, path2}
    Callers = {c1, c2, c3}
    Promises = {p1, p2, p3}
    None = None
    MaxGeneration = 2
SYMMETRY Symmetry
INVARIANTS
    TypeOK
    ConnectionIsCurrent
    SleeperInProgress
    StuckIsForgotten
