\* Two requests and a command on one session, with and without failures of the
\* statements, the investigations and the processes.  Sessions end: no deadlock
\* check.
CONSTANTS
    s1 = s1  s2 = s2  s3 = s3  q1 = q1  q2 = q2  q3 = q3  k1 = k1
    p1 = p1  p2 = p2  p3 = p3  c1 = c1  c2 = c2
    Sessions = {s1}
    Pcaps = {p1}
    Contents = {c1}
    Requests = {q1, q2}
    Commands = {k1}
    Scopes = {"key_findings", "planner_history"}
    MaxRound = 2
    MaxSeq = 2
    MinEvents = 2
    None = None
    FkModes = {TRUE}
    FaultModes = {{}, {"stop"}, {"io", "investigation", "stop"}}
SPECIFICATION Spec
SYMMETRY Symmetry
INVARIANTS
    TypeOK
    RoundsContiguous
    OneWriterPerRound
    RoundHasFullLog
    TitleIsFirstQuery
    CompletedHasLog
    UnfinishedLeavesNoHistory
    ShownUnderItsQuery
    AtomicWithoutFaults
    CompletedHasRound
    CountsAgree
PROPERTIES
    HistoryAppendOnly
    ImplementsRoundLog
CHECK_DEADLOCK FALSE
