\* Three sessions, three streams, a user who does not wait.
CONSTANTS
    s1 = s1  s2 = s2  s3 = s3
    Sessions = {s1, s2, s3}
    MaxStreams = 3
    MaxAwaited = 1
    None = None
    FaultModes = {{"haste"}}
SPECIFICATION Spec
SYMMETRY Symmetry
INVARIANTS
    StreamIsCancellable
CHECK_DEADLOCK FALSE
