\* Three sessions and three streams, two requests of a kind at once; users who wait
\* for answers or do not, and connections that break behind the last event.  When
\* the streams are used up and everything has been answered, nothing may be left
\* to do: no deadlock check.
CONSTANTS
    s1 = s1  s2 = s2  s3 = s3
    Sessions = {s1, s2, s3}
    MaxStreams = 3
    MaxAwaited = 2
    None = None
    FaultModes = {{}, {"tail"}, {"haste", "tail"}}
SPECIFICATION Spec
SYMMETRY Symmetry
INVARIANTS
    TypeOK
    CancellableWithoutFaults
    CancellableUnlessOrphaned
    ShownIsCurrent
    
CHECK_DEADLOCK FALSE
