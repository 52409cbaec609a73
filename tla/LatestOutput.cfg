\* Two overlapping turns, streams and cancels, and one call at a time.
SPECIFICATION OutputSpec
CONSTANTS
    Turns = {t1, t2}
    Askers = {a}
    Streamed = {"assistant.message", "message.delta"}
    Outcomes = {"completed"}
    Window = 2
    MaxEvents = 3
    MaxCancels = 1
    NoTurn = NoTurn
INVARIANTS OutputIsFresh FinishedOutputIsFinal
CHECK_DEADLOCK FALSE
