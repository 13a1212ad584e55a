\* API.md: analyze can be called repeatedly to run additional rounds.
CONSTANTS
    s1 = s1  s2 = s2  s3 = s3  q1 = q1  q2 = q2  q3 = q3
    p1 = p1  p2 = p2  p3 = p3  c1 = c1  c2 = c2  k1 = k1
    Sessions = {s1}
    Pcaps = {p1}
    Contents = {c1}
    Requests = {q1, q2}
    Commands = {}
    Scopes = {"key_findings", "planner_history"}
    MaxRound = 2
    MaxSeq = 2
    MinEvents = 2
    None = None
    FkModes = {TRUE}
    FaultModes = {{"investigation"}}
SPECIFICATION Spec
SYMMETRY Symmetry
INVARIANTS
    NextRoundIsFree
CHECK_DEADLOCK FALSE
