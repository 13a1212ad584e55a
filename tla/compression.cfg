\* Two investigations of one session that may overlap and fail.  The session is
\* full at MaxRound: no call starts any more.
CONSTANTS
    c1 = c1  c2 = c2
    Calls = {c1, c2}
    MaxRound = 5
    KeepRecent = 1
SPECIFICATION Spec
SYMMETRY Symmetry
INVARIANTS
    SnapshotWithinHistory
    NothingUnread
PROPERTIES
    SnapshotAdvances
CHECK_DEADLOCK FALSE
