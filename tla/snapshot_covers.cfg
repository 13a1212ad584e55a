\* Two investigations of one session.
CONSTANTS
    c1 = c1  c2 = c2
    Calls = {c1, c2}
    MaxRound = 4
    KeepRecent = 1
SPECIFICATION Spec
SYMMETRY Symmetry
INVARIANTS
    SnapshotCoversUpTo
CHECK_DEADLOCK FALSE
