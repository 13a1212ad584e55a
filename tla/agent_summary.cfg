\* sum.md: the previous summary and the older messages are merged into the new
\* summary.
CONSTANTS
    MaxBefore = 9
    MaxRecent = 6
    MaxStep = 5
    MaxCalls = 1
    Sizes = {1, 4, 8}
    MaxOutput = 7
    Kept = 2
    Hints = {0, 1}
    MissingKey = {"error", "empty"}
SPECIFICATION Spec
INVARIANTS
    CutIsSummarized
CHECK_DEADLOCK FALSE
