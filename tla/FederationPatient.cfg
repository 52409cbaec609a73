\* A foreground that sends the next turn when the last one is settled.
SPECIFICATION Spec
CONSTANTS
    Callers = {c1}
    Ops = {o1, o2}
    MaxTurns = 2
    MaxLog = 3
    PageLimit = 2
    Outcomes = {"turn.completed", "turn.failed"}
    MaxCrashes = 1
    MaxLost = 1
    MaxCancels = 1
    Patient = TRUE
    NoOp = NoOp
INVARIANTS HomeReflectsRemote MirroredOnce
PROPERTY HomeTurnSettles
CHECK_DEADLOCK FALSE
