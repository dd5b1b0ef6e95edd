SPECIFICATION Spec
CONSTANTS
    Servers = {s1, s2}
    Pids = {p1, p2}
    MaxRuns = 2
    MaxStops = 1
    MaxResets = 1
    MaxErrors = 1
    MaxEvents = 3
    TriedModes = {"loop", "worker"}
    OpenClasses = {"prompt"}
SYMMETRY Sym
CONSTRAINT Explored
INVARIANTS
    TypeOK
    OutcomeTold
    ExecutionIsReal
PROPERTIES
    AliveTold
\* The bounds may be reached and every process may end.
CHECK_DEADLOCK FALSE
