\* Three turns of up to two tool calls; outputs that fit, that fit alone and
\* that do not fit what may be kept; with and without a language hint.  The
\* agent ends: no deadlock check.
CONSTANTS
    MaxBefore = 9
    MaxRecent = 6
    MaxStep = 6
    MaxCalls = 2
    Sizes = {1, 4, 8}
    MaxOutput = 7
    Kept = 2
    Hints = {0, 1}
    MissingKey = {"error", "empty"}
SPECIFICATION Spec
INVARIANTS
    TypeOK
    TurnsAreWhole
    CallFits
PROPERTIES
    CutsWholeTurns
CHECK_DEADLOCK FALSE
