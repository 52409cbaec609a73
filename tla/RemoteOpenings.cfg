\* Two calls at a time, a retried operation, lost replies and a crash.
SPECIFICATION Spec
CONSTANTS
    Callers = {a, b}
    Ops = {o1, o2}
    MaxWorkspaces = 1
    MaxSessions = 2
    MaxCrashes = 1
    MaxLost = 1
    NoOp = NoOp
INVARIANTS RetryYieldsOneSession ClosedAtBothEnds
SYMMETRY Interchangeable
CHECK_DEADLOCK FALSE
