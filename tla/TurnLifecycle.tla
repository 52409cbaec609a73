----------------------------- MODULE TurnLifecycle -----------------------------
(***************************************************************************)
(* The turn lifecycle of the singleton broker: sessions, turns and         *)
(* requests in the SQLite store, and every thread that writes them.        *)
(*                                                                         *)
(* The store serialises single calls (one mutex, one connection) and has   *)
(* no transaction across calls, so one action here is one store call or    *)
(* one answer from the backend, and a handler's calls may be separated by  *)
(* anyone else's.  The threads are                                         *)
(*                                                                         *)
(*   taskPc[t]   the send_message handler of turn t and, once it spawned,  *)
(*               the background task that runs the turn and finalizes it   *)
(*   call[c]     the foreground calls create_session, cancel_turn,         *)
(*               close_resource(session), resolve_request and ack_inbox    *)
(*   askPc[r]    the backend's request handler (Copilot), which stores a   *)
(*               request, polls the store for its decision and answers     *)
(*   rec         start-up recovery, alone in the process before it serves  *)
(*                                                                         *)
(* A crash drops all four and keeps the store.                             *)
(*                                                                         *)
(* The event log is the set of <<resource, event type>> pairs it holds;    *)
(* sequence numbers and cursors belong to another module.  Titles, labels, *)
(* messages and payloads are left out, and so are the events a backend     *)
(* streams while a turn runs (their types are the backend's own), sessions *)
(* with a remote link and failures of SQLite itself.                       *)
(***************************************************************************)
EXTENDS Naturals, FiniteSets

CONSTANTS
    Sessions, Requests, Callers,
    NoSession,               \* the session of no turn
    Root,                    \* the resource of inbox events, singleton-root://
    MaxTurns,                \* bound: turns ever sent
    MaxCrashes,              \* bound: crashes of the broker process
    Dispositions,            \* the closed statuses close_resource may choose
    Decisions,               \* the decisions a foreground agent may take
    Outcomes,                \* what backend.send_message may end with
    HandlesRequests,         \* the backend has request handlers of its own
    SupportsResume,          \* BackendCapabilities.supports_resume
    SupportsTurnReattach     \* BackendCapabilities.supports_turn_reattach

\* Turn ids are dealt in the order of created_at.
Turns == 1..MaxTurns
NoTurn == 0

ActiveStatus == {"queued", "running", "needs_input"}
TerminalStatus == {"completed", "failed", "cancelled"}
ClosedStatus == {"archived", "disposed", "deleted"}
TurnStatus == {"absent"} \cup ActiveStatus \cup TerminalStatus
SessionStatus == {"absent", "pending", "idle", "running", "needs_input", "failed", "degraded"}
                   \cup ClosedStatus

\* "error" is an Err from the backend; the others are the status of a BackendTurn.
BackendOutcome == {"completed", "failed", "cancelled", "needs_input", "running", "error"}

ASSUME ConstantsAssumption ==
    /\ MaxTurns \in Nat
    /\ MaxCrashes \in Nat
    /\ NoSession \notin Sessions
    /\ Dispositions \subseteq ClosedStatus
    /\ "cancel" \in Decisions
    /\ Decisions \cap {"absent", "pending", "none"} = {}
    /\ Outcomes \subseteq BackendOutcome
    /\ HandlesRequests \in BOOLEAN
    /\ SupportsResume \in BOOLEAN
    /\ SupportsTurnReattach \in BOOLEAN

VARIABLES
    sessionStatus,    \* sessions.status; "absent": no row
    bound,            \* the sessions whose row holds a backend_session_id
    turnStatus,       \* turns.status
    turnSession,      \* turns.session_id
    unread,           \* the turns with unread = 1
    decision,         \* requests.status and its resolution in one value
    requestTurn,      \* requests.turn_id (before the insert: the handler's local)
    log,              \* the events appended so far
    taskPc, outcome,  \* the thread of each turn, and what its backend returned
    carried,          \* a request stored by ingest_backend_event, its event still to append
    call,             \* the foreground calls
    askPc, told,      \* the backend's request handlers and what they answered
    rec,              \* start-up recovery
    broker, crashes   \* "up", "recovering" or "down", and crashes so far

sessionVars == <<sessionStatus, bound>>
turnVars    == <<turnStatus, turnSession, unread>>
requestVars == <<decision, requestTurn>>
taskVars    == <<taskPc, outcome, carried>>
askVars     == <<askPc, told>>
brokerVars  == <<rec, broker, crashes>>
vars == <<sessionVars, turnVars, requestVars, log, taskVars, call, askVars, brokerVars>>

EventType ==
    {"session.created", "session.status_changed", "session.archived",
     "session.reattached", "session.degraded",
     "turn.queued", "turn.started", "turn.completed", "turn.failed", "turn.cancelled",
     "turn.needs_input",
     "request.created", "request.resolved", "request.cancelled", "inbox.acknowledged"}
Resource == Sessions \cup Turns \cup Requests \cup {Root}

TaskPc == {"none", "inserted", "queued", "started", "running", "returned", "ingesting",
           "recorded", "stored"}
CallPc == {"idle", "creating", "opened", "binding", "bound", "announced", "cancelling", "swept",
           "aborted", "marked", "logged", "closing", "resolving", "acking"}
AskPc  == {"none", "located", "inserted", "waiting", "expiring"}
RecPc  == {"off", "turns", "resumed", "attached", "unresumed", "degrading", "reattaching",
           "awaiting", "marked", "swept", "logged"}

Call == [pc : CallPc, session : Sessions \cup {NoSession}, turn : Turns \cup {NoTurn},
         requests : SUBSET Requests]
Recovery == [pc : RecPc, session : Sessions \cup {NoSession}, turn : Turns \cup {NoTurn},
             sessions : SUBSET Sessions, turns : SUBSET Turns, requests : SUBSET Requests,
             resumed : BOOLEAN]

Idle == [pc |-> "idle", session |-> NoSession, turn |-> NoTurn, requests |-> {}]
NoRecovery == [pc |-> "off", session |-> NoSession, turn |-> NoTurn, sessions |-> {},
               turns |-> {}, requests |-> {}, resumed |-> FALSE]

Init ==
    /\ sessionStatus = [s \in Sessions |-> "absent"]
    /\ bound = {}
    /\ turnStatus = [t \in Turns |-> "absent"]
    /\ turnSession = [t \in Turns |-> NoSession]
    /\ unread = {}
    /\ decision = [r \in Requests |-> "absent"]
    /\ requestTurn = [r \in Requests |-> NoTurn]
    /\ log = {}
    /\ taskPc = [t \in Turns |-> "none"]
    /\ outcome = [t \in Turns |-> "none"]
    /\ carried = [t \in Turns |-> {}]
    /\ call = [c \in Callers |-> Idle]
    /\ askPc = [r \in Requests |-> "none"]
    /\ told = [r \in Requests |-> "none"]
    /\ rec = NoRecovery
    /\ broker = "up"
    /\ crashes = 0

-----------------------------------------------------------------------------
(* What the store computes.                                                *)

Active(t) == turnStatus[t] \in ActiveStatus

ActiveTurnsOf(s) == {t \in Turns : turnSession[t] = s /\ Active(t)}

\* active_turn_for_session: the newest one, or none.
ActiveTurnOf(s) ==
    IF ActiveTurnsOf(s) = {} THEN NoTurn
    ELSE CHOOSE t \in ActiveTurnsOf(s) : \A u \in ActiveTurnsOf(s) : u <= t

Pending(r) == decision[r] = "pending"

PendingOf(t) == {r \in Requests : requestTurn[r] = t /\ Pending(r)}

SetSession(s, status) == sessionStatus' = [sessionStatus EXCEPT ![s] = status]

SetTurn(t, status, isUnread) ==
    /\ turnStatus' = [turnStatus EXCEPT ![t] = status]
    /\ unread' = IF isUnread THEN unread \cup {t} ELSE unread \ {t}
    /\ UNCHANGED turnSession

\* Mutant: the statement without its "AND status = 'pending'".
DecideAnyway(r, d) == decision' = [decision EXCEPT ![r] = d]

\* UPDATE requests ... WHERE status = 'pending': a decided row is left alone.
DecideIfPending(r, d) ==
    decision' = IF Pending(r) THEN [decision EXCEPT ![r] = d] ELSE decision

\* cancel_pending_requests_for_turn, under one lock.
CancelPendingOf(t) ==
    decision' = [r \in Requests |-> IF r \in PendingOf(t) THEN "cancel" ELSE decision[r]]

AppendEvents(resources, types) == log' = log \cup {<<i, e>> : i \in resources, e \in types}

AppendEvent(resource, type) == AppendEvents({resource}, {type})

-----------------------------------------------------------------------------
(* create_session, after the workspace was resolved.  The backend is       *)
(* awaited between "opened" and "binding"; if it fails, the handler        *)
(* returns and the row stays, pending and without a backend id.            *)

Goto(c, pc) == call' = [call EXCEPT ![c].pc = pc]

Return(c) == call' = [call EXCEPT ![c] = Idle]

CreateInsert(c, s) ==
    /\ broker = "up"
    /\ call[c].pc = "idle"
    /\ sessionStatus[s] = "absent"
    /\ SetSession(s, "pending")
    /\ call' = [call EXCEPT ![c] = [Idle EXCEPT !.pc = "creating", !.session = s]]
    /\ UNCHANGED <<bound, turnVars, requestVars, log, taskVars, askVars, brokerVars>>

CreateRecord(c) ==
    /\ call[c].pc = "creating"
    /\ AppendEvent(call[c].session, "session.created")
    /\ Goto(c, "opened")
    /\ UNCHANGED <<sessionVars, turnVars, requestVars, taskVars, askVars, brokerVars>>

CreateAnswered(c) ==
    /\ call[c].pc = "opened"
    /\ Goto(c, "binding") \/ Return(c)
    /\ UNCHANGED <<sessionVars, turnVars, requestVars, log, taskVars, askVars, brokerVars>>

\* update_session_backend writes the id and the status in one statement.
CreateBind(c) ==
    /\ call[c].pc = "binding"
    /\ bound' = bound \cup {call[c].session}
    /\ SetSession(call[c].session, "idle")
    /\ Goto(c, "bound")
    /\ UNCHANGED <<turnVars, requestVars, log, taskVars, askVars, brokerVars>>

CreateAnnounce(c) ==
    /\ call[c].pc = "bound"
    /\ AppendEvent(call[c].session, "session.status_changed")
    /\ Goto(c, "announced")
    /\ UNCHANGED <<sessionVars, turnVars, requestVars, taskVars, askVars, brokerVars>>

CreateFinish(c) ==
    /\ call[c].pc = "announced"
    /\ SetSession(call[c].session, "idle")
    /\ Return(c)
    /\ UNCHANGED <<bound, turnVars, requestVars, log, taskVars, askVars, brokerVars>>

-----------------------------------------------------------------------------
(* send_message.  The session's status is not looked at: a backend id is   *)
(* all that the handler asks for.                                          *)

SendInsert(s, t) ==
    /\ broker = "up"
    /\ s \in bound
    /\ turnStatus[t] = "absent"
    /\ \A u \in Turns : u < t => turnStatus[u] # "absent"
    /\ turnStatus' = [turnStatus EXCEPT ![t] = "running"]
    /\ turnSession' = [turnSession EXCEPT ![t] = s]
    /\ taskPc' = [taskPc EXCEPT ![t] = "inserted"]
    /\ UNCHANGED <<sessionVars, unread, requestVars, log, outcome, carried, call, askVars,
                   brokerVars>>

SendQueued(t) ==
    /\ taskPc[t] = "inserted"
    /\ AppendEvent(t, "turn.queued")
    /\ taskPc' = [taskPc EXCEPT ![t] = "queued"]
    /\ UNCHANGED <<sessionVars, turnVars, requestVars, outcome, carried, call, askVars, brokerVars>>

SendStarted(t) ==
    /\ taskPc[t] = "queued"
    /\ AppendEvent(t, "turn.started")
    /\ taskPc' = [taskPc EXCEPT ![t] = "started"]
    /\ UNCHANGED <<sessionVars, turnVars, requestVars, outcome, carried, call, askVars, brokerVars>>

\* Mutant: the turn's row turns running here, not when it is inserted.
SendSpawnLate(t) ==
    /\ taskPc[t] = "started"
    /\ turnStatus' = [turnStatus EXCEPT ![t] = "running"]
    /\ SetSession(turnSession[t], "running")
    /\ taskPc' = [taskPc EXCEPT ![t] = "running"]
    /\ UNCHANGED <<bound, turnSession, unread, requestVars, log, outcome, carried, call, askVars,
                   brokerVars>>

\* Mutant: a session closed meanwhile gets no task.
SendSpawnIfOpen(t) ==
    /\ taskPc[t] = "started"
    /\ sessionStatus[turnSession[t]] \notin ClosedStatus
    /\ SetSession(turnSession[t], "running")
    /\ taskPc' = [taskPc EXCEPT ![t] = "running"]
    /\ UNCHANGED <<bound, turnVars, requestVars, log, outcome, carried, call, askVars, brokerVars>>

\* The last store call of the handler; spawn_backend_turn follows it.
SendSpawn(t) ==
    /\ taskPc[t] = "started"
    /\ SetSession(turnSession[t], "running")
    /\ taskPc' = [taskPc EXCEPT ![t] = "running"]
    /\ UNCHANGED <<bound, turnVars, requestVars, log, outcome, carried, call, askVars, brokerVars>>

-----------------------------------------------------------------------------
(* The background task.  finalize_backend_turn and fail_backend_turn write *)
(* in the same order: the event, the turn, the session.                    *)

\* The event type of the end of a turn; a turn left running has none.
TerminalEvent(o) ==
    CASE o = "completed"            -> {"turn.completed"}
      [] o \in {"failed", "error"}  -> {"turn.failed"}
      [] o = "cancelled"            -> {"turn.cancelled"}
      [] o = "needs_input"          -> {"turn.needs_input"}
      [] OTHER                      -> {}

StatusOf(o) == IF o = "error" THEN "failed" ELSE o

\* Mutant: the session takes over the status of the turn.
SessionAfterCopied(o) == StatusOf(o)

SessionAfter(o) ==
    IF o \in {"completed", "cancelled", "error"} THEN "idle" ELSE o

\* The backend returned and left the turn for somebody else to end.
Parked(t) == outcome[t] \in {"needs_input", "running"}

BackendReturns(t, o) ==
    /\ taskPc[t] = "running"
    /\ taskPc' = [taskPc EXCEPT ![t] = "returned"]
    /\ outcome' = [outcome EXCEPT ![t] = o]
    /\ UNCHANGED <<sessionVars, turnVars, requestVars, log, carried, call, askVars, brokerVars>>

\* ingest_backend_event on a request.created event among those the backend
\* returned: the request's row first, then the event.
IngestRequest(t, r) ==
    /\ taskPc[t] = "returned"
    /\ outcome[t] = "needs_input"
    /\ decision[r] = "absent" /\ askPc[r] = "none"
    /\ decision' = [decision EXCEPT ![r] = "pending"]
    /\ requestTurn' = [requestTurn EXCEPT ![r] = t]
    /\ carried' = [carried EXCEPT ![t] = {r}]
    /\ taskPc' = [taskPc EXCEPT ![t] = "ingesting"]
    /\ UNCHANGED <<sessionVars, turnVars, log, outcome, call, askVars, brokerVars>>

IngestEvent(t) ==
    /\ taskPc[t] = "ingesting"
    /\ AppendEvents(carried[t], {"request.created"})
    /\ carried' = [carried EXCEPT ![t] = {}]
    /\ taskPc' = [taskPc EXCEPT ![t] = "returned"]
    /\ UNCHANGED <<sessionVars, turnVars, requestVars, outcome, call, askVars, brokerVars>>

RecordOutcome(t) ==
    /\ taskPc[t] = "returned"
    /\ AppendEvents({t}, TerminalEvent(outcome[t]))
    /\ taskPc' = [taskPc EXCEPT ![t] = "recorded"]
    /\ UNCHANGED <<sessionVars, turnVars, requestVars, outcome, carried, call, askVars, brokerVars>>

\* Mutant: the status does not wait for the event.
StoreOutcomeFirst(t) ==
    /\ taskPc[t] \in {"returned", "recorded"}
    /\ SetTurn(t, StatusOf(outcome[t]), outcome[t] # "running")
    /\ taskPc' = [taskPc EXCEPT ![t] = "stored"]
    /\ UNCHANGED <<sessionVars, requestVars, log, outcome, carried, call, askVars, brokerVars>>

\* Whatever the turn's status is by now.
StoreOutcome(t) ==
    /\ taskPc[t] = "recorded"
    /\ SetTurn(t, StatusOf(outcome[t]), outcome[t] # "running")
    /\ taskPc' = [taskPc EXCEPT ![t] = "stored"]
    /\ UNCHANGED <<sessionVars, requestVars, log, outcome, carried, call, askVars, brokerVars>>

ReleaseSession(t) ==
    /\ taskPc[t] = "stored"
    /\ SetSession(turnSession[t], SessionAfter(outcome[t]))
    /\ taskPc' = [taskPc EXCEPT ![t] = "none"]
    /\ outcome' = [outcome EXCEPT ![t] = IF Parked(t) THEN @ ELSE "none"]
    /\ UNCHANGED <<bound, turnVars, requestVars, log, carried, call, askVars, brokerVars>>

-----------------------------------------------------------------------------
(* The backend's request handlers (StoreRequestBroker).  A handler runs    *)
(* while some turn of the session runs, and gives the request to the       *)
(* session's newest active turn, which need not be that one.               *)

AskLocate(r, s) ==
    /\ HandlesRequests
    /\ \E t \in Turns : turnSession[t] = s /\ taskPc[t] = "running"
    /\ decision[r] = "absent" /\ askPc[r] = "none"
    /\ requestTurn' = [requestTurn EXCEPT ![r] = ActiveTurnOf(s)]
    /\ askPc' = [askPc EXCEPT ![r] = "located"]
    /\ UNCHANGED <<sessionVars, turnVars, decision, log, taskVars, call, told, brokerVars>>

AskInsert(r) ==
    /\ askPc[r] = "located"
    /\ decision' = [decision EXCEPT ![r] = "pending"]
    /\ askPc' = [askPc EXCEPT ![r] = "inserted"]
    /\ UNCHANGED <<sessionVars, turnVars, requestTurn, log, taskVars, call, told, brokerVars>>

AskRecord(r) ==
    /\ askPc[r] = "inserted"
    /\ AppendEvent(r, "request.created")
    /\ askPc' = [askPc EXCEPT ![r] = "waiting"]
    /\ UNCHANGED <<sessionVars, turnVars, requestVars, taskVars, call, told, brokerVars>>

\* wait_for_resolution: a poll that finds a decision answers with it ...
AskAnswer(r) ==
    /\ askPc[r] = "waiting"
    /\ ~Pending(r)
    /\ told' = [told EXCEPT ![r] = decision[r]]
    /\ askPc' = [askPc EXCEPT ![r] = "none"]
    /\ UNCHANGED <<sessionVars, turnVars, requestVars, log, taskVars, call, brokerVars>>

\* Mutant: a request of a turn has no deadline.
AskDeadlineTurnless(r) ==
    /\ askPc[r] = "waiting"
    /\ Pending(r)
    /\ requestTurn[r] = NoTurn
    /\ askPc' = [askPc EXCEPT ![r] = "expiring"]
    /\ UNCHANGED <<sessionVars, turnVars, requestVars, log, taskVars, call, told, brokerVars>>

\* ... and one that finds none past the deadline cancels the request, if it
\* is still pending by then, and reads it again.  No event is appended.
AskDeadline(r) ==
    /\ askPc[r] = "waiting"
    /\ Pending(r)
    /\ askPc' = [askPc EXCEPT ![r] = "expiring"]
    /\ UNCHANGED <<sessionVars, turnVars, requestVars, log, taskVars, call, told, brokerVars>>

AskExpire(r) ==
    /\ askPc[r] = "expiring"
    /\ DecideIfPending(r, "cancel")
    /\ askPc' = [askPc EXCEPT ![r] = "waiting"]
    /\ UNCHANGED <<sessionVars, turnVars, requestTurn, log, taskVars, call, told, brokerVars>>

-----------------------------------------------------------------------------
(* cancel_turn.  The turn is the session's active one, or any turn the     *)
(* caller names: neither its status nor its session is checked.            *)

CancelBegin(c, s, t) ==
    /\ broker = "up"
    /\ call[c].pc = "idle"
    /\ s \in bound
    /\ turnStatus[t] # "absent"
    /\ call' = [call EXCEPT ![c] = [Idle EXCEPT !.pc = "cancelling", !.session = s, !.turn = t]]
    /\ UNCHANGED <<sessionVars, turnVars, requestVars, log, taskVars, askVars, brokerVars>>

CancelSweep(c) ==
    /\ call[c].pc = "cancelling"
    /\ CancelPendingOf(call[c].turn)
    /\ call' = [call EXCEPT ![c].pc = "swept", ![c].requests = PendingOf(call[c].turn)]
    /\ UNCHANGED <<sessionVars, turnVars, requestTurn, log, taskVars, askVars, brokerVars>>

CancelRecordRequest(c, r) ==
    /\ call[c].pc = "swept"
    /\ r \in call[c].requests
    /\ AppendEvent(r, "request.cancelled")
    /\ call' = [call EXCEPT ![c].requests = @ \ {r}]
    /\ UNCHANGED <<sessionVars, turnVars, requestVars, taskVars, askVars, brokerVars>>

\* backend.cancel_turn answers; on an error the handler returns at once.
CancelAnswered(c) ==
    /\ call[c].pc = "swept"
    /\ call[c].requests = {}
    /\ Goto(c, "aborted") \/ Return(c)
    /\ UNCHANGED <<sessionVars, turnVars, requestVars, log, taskVars, askVars, brokerVars>>

CancelStore(c) ==
    /\ call[c].pc = "aborted"
    /\ SetTurn(call[c].turn, "cancelled", TRUE)
    /\ Goto(c, "marked")
    /\ UNCHANGED <<sessionVars, requestVars, log, taskVars, askVars, brokerVars>>

CancelRecord(c) ==
    /\ call[c].pc = "marked"
    /\ AppendEvent(call[c].turn, "turn.cancelled")
    /\ Goto(c, "logged")
    /\ UNCHANGED <<sessionVars, turnVars, requestVars, taskVars, askVars, brokerVars>>

CancelRelease(c) ==
    /\ call[c].pc = "logged"
    /\ SetSession(call[c].session, "idle")
    /\ Return(c)
    /\ UNCHANGED <<bound, turnVars, requestVars, log, taskVars, askVars, brokerVars>>

-----------------------------------------------------------------------------
(* close_resource on a session, resolve_request and ack_inbox: one write   *)
(* and one event each.                                                     *)

CloseSession(c, s, disposition) ==
    /\ broker = "up"
    /\ call[c].pc = "idle"
    /\ sessionStatus[s] # "absent"
    /\ SetSession(s, disposition)
    /\ call' = [call EXCEPT ![c] = [Idle EXCEPT !.pc = "closing", !.session = s]]
    /\ UNCHANGED <<bound, turnVars, requestVars, log, taskVars, askVars, brokerVars>>

CloseRecord(c) ==
    /\ call[c].pc = "closing"
    /\ AppendEvent(call[c].session, "session.archived")
    /\ Return(c)
    /\ UNCHANGED <<sessionVars, turnVars, requestVars, taskVars, askVars, brokerVars>>

ResolveRequest(c, r, d) ==
    /\ broker = "up"
    /\ call[c].pc = "idle"
    /\ decision[r] # "absent"
    /\ DecideIfPending(r, d)
    /\ call' = [call EXCEPT ![c] = [Idle EXCEPT !.pc = "resolving", !.requests = {r}]]
    /\ UNCHANGED <<sessionVars, turnVars, requestTurn, log, taskVars, askVars, brokerVars>>

\* Appended whether or not this call was the one that decided.
ResolveRecord(c) ==
    /\ call[c].pc = "resolving"
    /\ AppendEvents(call[c].requests, {"request.resolved"})
    /\ Return(c)
    /\ UNCHANGED <<sessionVars, turnVars, requestVars, taskVars, askVars, brokerVars>>

\* By turn, by session, or all.
AckScopes ==
    {{t} : t \in Turns} \cup {{t \in Turns : turnSession[t] = s} : s \in Sessions} \cup {Turns}

AckInbox(c, scope) ==
    /\ broker = "up"
    /\ call[c].pc = "idle"
    /\ unread' = unread \ scope
    /\ call' = [call EXCEPT ![c] = [Idle EXCEPT !.pc = "acking"]]
    /\ UNCHANGED <<sessionVars, turnStatus, turnSession, requestVars, log, taskVars, askVars,
                   brokerVars>>

AckRecord(c) ==
    /\ call[c].pc = "acking"
    /\ AppendEvent(Root, "inbox.acknowledged")
    /\ Return(c)
    /\ UNCHANGED <<sessionVars, turnVars, requestVars, taskVars, askVars, brokerVars>>

-----------------------------------------------------------------------------
(* Crash and recovery.  reconcile_backend_state runs before the broker     *)
(* serves: first each open session with a backend id, with its active      *)
(* turns, then the active turns that are left.                             *)

\* The store stays, the process and all its threads are gone.
ProcessEnds ==
    /\ broker' = "down"
    /\ taskPc' = [t \in Turns |-> "none"]
    /\ outcome' = [t \in Turns |-> "none"]
    /\ carried' = [t \in Turns |-> {}]
    /\ call' = [c \in Callers |-> Idle]
    /\ askPc' = [r \in Requests |-> "none"]
    /\ requestTurn' = [r \in Requests |-> IF decision[r] = "absent" THEN NoTurn ELSE requestTurn[r]]
    /\ rec' = NoRecovery
    /\ UNCHANGED <<sessionVars, turnVars, decision, log, told>>

Crash ==
    /\ broker # "down"
    /\ crashes < MaxCrashes
    /\ crashes' = crashes + 1
    /\ ProcessEnds

\* sessions_with_backend_session_ids
ResumableSessions == {s \in bound : sessionStatus[s] \notin ClosedStatus}

\* Mutant: only the turns of sessions that can be resumed.
TurnsToResume == {t \in Turns : Active(t) /\ turnSession[t] \in ResumableSessions}

\* active_turns_for_recovery
TurnsToRecover == {t \in Turns : Active(t)}

Restart ==
    /\ broker = "down"
    /\ broker' = "recovering"
    /\ rec' = [NoRecovery EXCEPT !.pc = "turns", !.sessions = ResumableSessions,
                                 !.turns = TurnsToRecover]
    /\ UNCHANGED <<sessionVars, turnVars, requestVars, log, taskVars, call, askVars, crashes>>

\* The turns the current pass still has to handle: those of the session at
\* hand, or, once no session is left, all of them.
Todo ==
    IF rec.session # NoSession THEN {t \in rec.turns : turnSession[t] = rec.session}
    ELSE IF rec.sessions = {} THEN rec.turns ELSE {}

RecStep(pc) ==
    /\ rec.pc = pc
    /\ UNCHANGED <<bound, turnSession, requestTurn, call, askVars, broker, crashes>>

RecGoto(pc) == rec' = [rec EXCEPT !.pc = pc]

RecoverSession(s) ==
    /\ RecStep("turns")
    /\ rec.session = NoSession
    /\ s \in rec.sessions
    /\ LET here == [rec EXCEPT !.session = s, !.sessions = @ \ {s}]
       IN  IF SupportsResume
           THEN \/ rec' = [here EXCEPT !.pc = "resumed", !.resumed = TRUE]
                \/ rec' = [here EXCEPT !.pc = "unresumed"]
           ELSE rec' = here
    /\ UNCHANGED <<sessionStatus, turnStatus, unread, decision, log, taskVars>>

\* Mutant: a session without active turns is taken to be idle already.
RecoverResumedOnly ==
    /\ RecStep("resumed")
    /\ AppendEvent(rec.session, "session.reattached")
    /\ RecGoto("turns")
    /\ UNCHANGED <<sessionStatus, turnStatus, unread, decision, taskVars>>

RecoverResumed ==
    /\ RecStep("resumed")
    /\ AppendEvent(rec.session, "session.reattached")
    /\ RecGoto(IF Todo = {} THEN "attached" ELSE "turns")
    /\ UNCHANGED <<sessionStatus, turnStatus, unread, decision, taskVars>>

RecoverIdle ==
    /\ RecStep("attached")
    /\ SetSession(rec.session, "idle")
    /\ RecGoto("turns")
    /\ UNCHANGED <<turnStatus, unread, decision, log, taskVars>>

RecoverUnresumed ==
    /\ RecStep("unresumed")
    /\ AppendEvent(rec.session, "session.degraded")
    /\ RecGoto("degrading")
    /\ UNCHANGED <<sessionStatus, turnStatus, unread, decision, taskVars>>

RecoverDegrade ==
    /\ RecStep("degrading")
    /\ SetSession(rec.session, "degraded")
    /\ RecGoto("turns")
    /\ UNCHANGED <<turnStatus, unread, decision, log, taskVars>>

RecoverSessionDone ==
    /\ RecStep("turns")
    /\ rec.session # NoSession
    /\ Todo = {}
    /\ rec' = [rec EXCEPT !.session = NoSession, !.resumed = FALSE]
    /\ UNCHANGED <<sessionStatus, turnStatus, unread, decision, log, taskVars>>

\* Mutant: a reattached turn is not counted as processed.
RecoverReattachAgain(t) ==
    /\ RecStep("turns")
    /\ t \in Todo
    /\ rec.resumed /\ SupportsTurnReattach
    /\ \/ \E o \in Outcomes \ {"error"} :
             /\ outcome' = [outcome EXCEPT ![t] = o]
             /\ taskPc' = [taskPc EXCEPT ![t] = "returned"]
             /\ rec' = [rec EXCEPT !.pc = "awaiting", !.turn = t]
       \/ /\ rec' = [rec EXCEPT !.pc = "reattaching", !.turn = t, !.turns = @ \ {t}]
          /\ UNCHANGED <<taskPc, outcome>>
    /\ UNCHANGED <<sessionStatus, turnStatus, unread, decision, log, carried>>

\* reattach_turn: the backend either has the turn's outcome, which is then
\* finalized, or has lost the turn.
RecoverReattach(t) ==
    /\ RecStep("turns")
    /\ t \in Todo
    /\ rec.resumed /\ SupportsTurnReattach
    /\ \/ \E o \in Outcomes \ {"error"} :
             /\ outcome' = [outcome EXCEPT ![t] = o]
             /\ taskPc' = [taskPc EXCEPT ![t] = "returned"]
             /\ rec' = [rec EXCEPT !.pc = "awaiting", !.turn = t, !.turns = @ \ {t}]
       \/ /\ rec' = [rec EXCEPT !.pc = "reattaching", !.turn = t, !.turns = @ \ {t}]
          /\ UNCHANGED <<taskPc, outcome>>
    /\ UNCHANGED <<sessionStatus, turnStatus, unread, decision, log, carried>>

\* An error from reattach_turn ends start-up, and with it the process.
RecoverAbort(t) ==
    /\ rec.pc = "turns"
    /\ t \in Todo
    /\ rec.resumed /\ SupportsTurnReattach
    /\ ProcessEnds
    /\ UNCHANGED crashes

RecoverFinalized ==
    /\ RecStep("awaiting")
    /\ taskPc[rec.turn] = "none"
    /\ rec' = [rec EXCEPT !.pc = "turns", !.turn = NoTurn]
    /\ UNCHANGED <<sessionStatus, turnStatus, unread, decision, log, taskVars>>

\* Mutant: the statement without "unread = 1".
MarkInterruptedRead(t) ==
    IF Active(t) THEN turnStatus' = [turnStatus EXCEPT ![t] = "failed"] /\ UNCHANGED unread
                 ELSE UNCHANGED <<turnStatus, unread>>

\* mark_turn_interrupted, whose statement is guarded by an active status.
MarkInterrupted(t) ==
    IF Active(t) THEN /\ turnStatus' = [turnStatus EXCEPT ![t] = "failed"]
                      /\ unread' = unread \cup {t}
                 ELSE UNCHANGED <<turnStatus, unread>>

RecoverInterrupt(t) ==
    /\ \/ /\ RecStep("turns")
          /\ t \in Todo
          /\ ~(rec.resumed /\ SupportsTurnReattach)
       \/ /\ RecStep("reattaching")
          /\ t = rec.turn
    /\ MarkInterrupted(t)
    /\ rec' = [rec EXCEPT !.pc = "marked", !.turn = t, !.turns = @ \ {t}]
    /\ UNCHANGED <<sessionStatus, decision, log, taskVars>>

RecoverSweep ==
    /\ RecStep("marked")
    /\ CancelPendingOf(rec.turn)
    /\ rec' = [rec EXCEPT !.pc = "swept", !.requests = PendingOf(rec.turn)]
    /\ UNCHANGED <<sessionStatus, turnStatus, unread, log, taskVars>>

RecoverRecordRequest(r) ==
    /\ RecStep("swept")
    /\ r \in rec.requests
    /\ AppendEvent(r, "request.cancelled")
    /\ rec' = [rec EXCEPT !.requests = @ \ {r}]
    /\ UNCHANGED <<sessionStatus, turnStatus, unread, decision, taskVars>>

RecoverRecord ==
    /\ RecStep("swept")
    /\ rec.requests = {}
    /\ AppendEvent(rec.turn, "turn.failed")
    /\ RecGoto("logged")
    /\ UNCHANGED <<sessionStatus, turnStatus, unread, decision, taskVars>>

RecoverRelease ==
    /\ RecStep("logged")
    /\ SetSession(turnSession[rec.turn], "idle")
    /\ rec' = [rec EXCEPT !.pc = "turns", !.turn = NoTurn]
    /\ UNCHANGED <<turnStatus, unread, decision, log, taskVars>>

Serve ==
    /\ broker = "recovering"
    /\ rec.pc = "turns" /\ rec.session = NoSession
    /\ rec.sessions = {} /\ rec.turns = {}
    /\ rec' = NoRecovery
    /\ broker' = "up"
    /\ UNCHANGED <<sessionVars, turnVars, requestVars, log, taskVars, call, askVars, crashes>>

-----------------------------------------------------------------------------
CreateStep(c) ==
    \/ \E s \in Sessions : CreateInsert(c, s)
    \/ CreateRecord(c) \/ CreateAnswered(c) \/ CreateBind(c) \/ CreateAnnounce(c) \/ CreateFinish(c)

SendStep(t) ==
    \/ \E s \in Sessions : SendInsert(s, t)
    \/ SendQueued(t) \/ SendStarted(t) \/ SendSpawn(t)

TaskStep(t) ==
    \/ \E o \in Outcomes : BackendReturns(t, o)
    \/ \E r \in Requests : IngestRequest(t, r)
    \/ IngestEvent(t) \/ RecordOutcome(t) \/ StoreOutcome(t) \/ ReleaseSession(t)

AskStep(r) ==
    \/ \E s \in Sessions : AskLocate(r, s)
    \/ AskInsert(r) \/ AskRecord(r) \/ AskAnswer(r) \/ AskDeadline(r) \/ AskExpire(r)

CancelStep(c) ==
    \/ \E s \in Sessions, t \in Turns : CancelBegin(c, s, t)
    \/ CancelSweep(c)
    \/ \E r \in Requests : CancelRecordRequest(c, r)
    \/ CancelAnswered(c) \/ CancelStore(c) \/ CancelRecord(c) \/ CancelRelease(c)

InboxStep(c) ==
    \/ \E s \in Sessions, d \in Dispositions : CloseSession(c, s, d)
    \/ CloseRecord(c)
    \/ \E r \in Requests, d \in Decisions : ResolveRequest(c, r, d)
    \/ ResolveRecord(c)
    \/ \E scope \in AckScopes : AckInbox(c, scope)
    \/ AckRecord(c)

RecoveryStep ==
    \/ \E s \in Sessions : RecoverSession(s)
    \/ RecoverResumed \/ RecoverIdle \/ RecoverUnresumed \/ RecoverDegrade \/ RecoverSessionDone
    \/ \E t \in Turns : RecoverReattach(t) \/ RecoverAbort(t) \/ RecoverInterrupt(t)
    \/ RecoverFinalized \/ RecoverSweep
    \/ \E r \in Requests : RecoverRecordRequest(r)
    \/ RecoverRecord \/ RecoverRelease \/ Serve

Next ==
    \/ \E c \in Callers : CreateStep(c) \/ CancelStep(c) \/ InboxStep(c)
    \/ \E t \in Turns : SendStep(t) \/ TaskStep(t)
    \/ \E r \in Requests : AskStep(r)
    \/ RecoveryStep
    \/ Crash
    \/ Restart

Spec == Init /\ [][Next]_vars

\* Every thread that has something to do goes on doing it: tokio runs ready
\* tasks, the backend ends a turn (Copilot fails a silent one after an hour),
\* a request handler has a deadline, and recovery is sequential.  Nothing
\* makes a client call, a process crash or a daemon restart.
Fairness ==
    /\ \A t \in Turns :
          /\ WF_vars(SendQueued(t) \/ SendStarted(t) \/ SendSpawn(t))
          /\ WF_vars(TaskStep(t))
    /\ \A r \in Requests :
          WF_vars(AskInsert(r) \/ AskRecord(r) \/ AskAnswer(r) \/ AskDeadline(r) \/ AskExpire(r))
    /\ WF_vars(RecoveryStep)

FairSpec == Spec /\ Fairness

-----------------------------------------------------------------------------
(* Properties.                                                             *)

TypeOK ==
    /\ sessionStatus \in [Sessions -> SessionStatus]
    /\ bound \in SUBSET Sessions
    /\ turnStatus \in [Turns -> TurnStatus]
    /\ turnSession \in [Turns -> Sessions \cup {NoSession}]
    /\ unread \in SUBSET Turns
    /\ decision \in [Requests -> {"absent", "pending"} \cup Decisions]
    /\ requestTurn \in [Requests -> Turns \cup {NoTurn}]
    /\ log \in SUBSET (Resource \X EventType)
    /\ taskPc \in [Turns -> TaskPc]
    /\ outcome \in [Turns -> BackendOutcome \cup {"none"}]
    /\ carried \in [Turns -> SUBSET Requests]
    /\ call \in [Callers -> Call]
    /\ askPc \in [Requests -> AskPc]
    /\ told \in [Requests -> Decisions \cup {"none"}]
    /\ rec \in Recovery
    /\ broker \in {"up", "recovering", "down"}
    /\ crashes \in 0..MaxCrashes

\* "Restart must not leave orphaned running turns": while the broker serves,
\* an active turn has a live thread that will settle it, or the backend
\* itself parked it.
NoOrphanTurn ==
    broker = "up" => \A t \in Turns : Active(t) => taskPc[t] # "none" \/ Parked(t)

\* A reader that finds a turn completed finds its story in the event log: the
\* event goes in before the status, in every handler and across restarts.
CompletedTurnHasHistory ==
    \A t \in Turns : turnStatus[t] = "completed" =>
        /\ <<t, "turn.completed">> \in log
        /\ SupportsTurnReattach \/ {t} \X {"turn.queued", "turn.started"} \subseteq log

\* With a backend that ends its turns, a session shows as running only while
\* a turn of it runs, however sends, cancels and restarts overlapped.
EndsItsTurns == SupportsResume /\ Outcomes \cap {"needs_input", "running"} = {}

RunningSessionHasTask ==
    broker = "up" /\ EndsItsTurns =>
        \A s \in Sessions : sessionStatus[s] = "running" =>
            \E t \in Turns : turnSession[t] = s /\ taskPc[t] # "none"

\* With such a backend a settled turn may change its verdict, never come back
\* to life: no late writer of the three revives it.
SettledStaysSettled ==
    [][\A t \in Turns : turnStatus[t] \in TerminalStatus => turnStatus'[t] \in TerminalStatus]_vars

\* The inbox hands over every turn that settles, and what is acknowledged is
\* a settled turn.
InboxDelivery ==
    [][\A t \in Turns :
         /\ turnStatus[t] \notin TerminalStatus /\ turnStatus'[t] \in TerminalStatus => t \in unread'
         /\ t \in unread /\ t \notin unread' => turnStatus[t] \in TerminalStatus]_vars

\* Requests keep their contract: one decision each, and the backend is told
\* that one or nothing.
Contract == INSTANCE RequestContract WITH
    Requests <- Requests, Decisions <- Decisions, decision <- decision, told <- told
KeepsRequestContract == Contract!ContractSpec

\* Every active turn settles or is parked by the backend, unless the process
\* goes down first.
TurnSettles == \A t \in Turns : Active(t) ~> (~Active(t) \/ Parked(t) \/ broker = "down")

\* Every stored request of a waiting backend is answered or its process gone.
AskerIsAnswered == \A r \in Requests : (askPc[r] # "none") ~> (askPc[r] = "none")

\* Start-up recovery comes to an end.
RecoveryEnds == (broker = "recovering") ~> (broker # "recovering")

=============================================================================
