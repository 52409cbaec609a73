\* A request raised without a turn and one under one, two calls at a time, so
\* that a decision can find a row before its link, expiry, a lost reply and a
\* crash.  The third row is the one that a read inserts after the crash of two.
SPECIFICATION RequestSpec
CONSTANTS
    Callers = {a, b}
    Requests = {r1, r2}
    Parent <- SomeUnderTurn
    Decisions = {"approve"}
    PageLimit = 1
    MaxRows = 3
    MaxCrashes = 1
    MaxLost = 1
    None = None
    r1 = r1
    r2 = r2
INVARIANTS DecidedThere
PROPERTY RequestReachesInbox
CHECK_DEADLOCK FALSE
