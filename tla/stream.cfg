\* Plans of up to four steps, with node runs for three.  The stream ends: that it
\* ends only where it should is GoroutinesEnd.
CONSTANTS
    Procs = {"handler", "investigation"}
    Subscribers = {"sse"}
    BufSize = 18
    MaxSteps = 4
    MaxRunSteps = 15
SPECIFICATION FairSpec
INVARIANTS
    TypeOK
    NoSendOnClosed
    EmitNeverBlocks
    StreamLosesNothing
    FlushIsWhole
    ContainerIsRemoved
    RoundFollowsScript
    PlanFits
    ResultHasFindings
PROPERTIES
    GoroutinesEnd
CHECK_DEADLOCK FALSE
