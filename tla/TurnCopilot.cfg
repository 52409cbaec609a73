\* The Copilot backend (resume, no reattach), two overlapping turns and two
\* concurrent callers, one crash at any point.  No requests.
SPECIFICATION Spec
CONSTANTS
    Sessions = {s1}
    Requests = {}
    Callers = {c1, c2}
    NoSession = NoSession
    Root = Root
    MaxTurns = 2
    MaxCrashes = 1
    Dispositions = {"archived"}
    Decisions = {"approve", "cancel"}
    Outcomes <- CopilotOutcomes
    HandlesRequests = FALSE
    SupportsResume = TRUE
    SupportsTurnReattach = FALSE
VIEW View
SYMMETRY Symmetry
INVARIANTS
    TypeOK
    NoOrphanTurn
    CompletedTurnHasHistory
    RunningSessionHasTask
PROPERTIES
    SettledStaysSettled
    InboxDelivery
