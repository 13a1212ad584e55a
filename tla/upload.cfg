\* Two sessions made by uploads or by the command, two contents, one request;
\* deletions, shutdown and restart, on connections with and without foreign
\* keys.  Sessions end: no deadlock check.
CONSTANTS
    s1 = s1  s2 = s2  s3 = s3  q1 = q1  q2 = q2  q3 = q3  k1 = k1
    p1 = p1  p2 = p2  p3 = p3  c1 = c1  c2 = c2
    Sessions = {s1, s2}
    Pcaps = {p1, p2}
    Contents = {c1, c2}
    Requests = {q1}
    Commands = {k1}
    Scopes = {"key_findings", "planner_history"}
    MaxRound = 1
    MaxSeq = 1
    MinEvents = 1
    None = None
    FkModes = {TRUE, FALSE}
    FaultModes = {{"stop"}}
SPECIFICATION Spec
SYMMETRY Symmetry
INVARIANTS
    SessionHasItsCapture
CHECK_DEADLOCK FALSE
