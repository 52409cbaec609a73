\* A backend that does everything: request handlers, parked turns, resume and
\* reattach.  One turn, one request, one caller, one crash; with fairness.
SPECIFICATION FairSpec
CONSTANTS
    Sessions = {s1}
    Requests = {r1}
    Callers = {c1}
    NoSession = NoSession
    Root = Root
    MaxTurns = 1
    MaxCrashes = 1
    Dispositions = {"archived"}
    Decisions = {"approve", "cancel"}
    Outcomes = {"completed", "needs_input"}
    HandlesRequests = TRUE
    SupportsResume = TRUE
    SupportsTurnReattach = TRUE
PROPERTIES
    KeepsRequestContract
    RecoveryEnds
    TurnSettles
    AskerIsAnswered
