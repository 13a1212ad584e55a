\* The server and two commands, and two events, one of which may be an orphan.  A
\* process that has ended is started again: no deadlock.
CONSTANTS
    Processes = {p1, p2, p3}
    Events = {e1, e2}
    Orphans = {e2}
    None = None
    FaultModes = {{}, {"crash"}, {"orphan"}, {"busy", "crash", "orphan"}}
SPECIFICATION Spec
INVARIANTS
    TypeOK
    MigrationIsOneTime
    CrashDestroysNothing
