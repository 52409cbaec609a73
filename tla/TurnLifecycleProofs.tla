------------------------- MODULE TurnLifecycleProofs --------------------------
(***************************************************************************)
(* Theorems about TurnLifecycle for every set of sessions, requests and    *)
(* callers, every number of turns and of crashes, and every backend: its   *)
(* types, no orphaned turn, the history of a completed turn, the request   *)
(* contract and, for backends that end their turns, settled turns, the     *)
(* inbox and running sessions.                                             *)
(***************************************************************************)
EXTENDS TurnLifecycle, WellFoundedInduction, TLAPS

(***************************************************************************)
(* The inductive type invariant, one part per actor: the types of TypeOK,  *)
(* and what a thread holds at the points of its program that use it.       *)
(***************************************************************************)
SessionPart ==
    /\ sessionStatus \in [Sessions -> SessionStatus]
    /\ bound \in SUBSET Sessions

TurnPart ==
    /\ turnStatus \in [Turns -> TurnStatus]
    /\ turnSession \in [Turns -> Sessions \cup {NoSession}]
    /\ unread \in SUBSET Turns

RequestPart ==
    /\ decision \in [Requests -> {"absent", "pending"} \cup Decisions]
    /\ requestTurn \in [Requests -> Turns \cup {NoTurn}]

LogPart == log \in SUBSET (Resource \X EventType)

TaskPart ==
    /\ taskPc \in [Turns -> TaskPc]
    /\ outcome \in [Turns -> BackendOutcome \cup {"none"}]
    /\ carried \in [Turns -> SUBSET Requests]
    /\ \A t \in Turns :
          /\ taskPc[t] # "none" => turnStatus[t] # "absent"
          /\ turnStatus[t] # "absent" => turnSession[t] \in Sessions
          /\ taskPc[t] \in {"returned", "ingesting", "recorded", "stored"}
                => outcome[t] \in BackendOutcome

CallPart ==
    /\ call \in [Callers -> Call]
    /\ \A c \in Callers :
          /\ call[c].pc \notin {"idle", "resolving", "acking"} => call[c].session \in Sessions
          /\ call[c].pc \in {"cancelling", "swept", "aborted", "marked", "logged"}
                => call[c].turn \in Turns /\ turnStatus[call[c].turn] # "absent"

AskPart ==
    /\ askPc \in [Requests -> AskPc]
    /\ told \in [Requests -> Decisions \cup {"none"}]
    /\ \A r \in Requests :
          /\ askPc[r] \in {"inserted", "waiting", "expiring"} => decision[r] # "absent"
          /\ askPc[r] = "located" => decision[r] = "absent"
          /\ askPc[r] # "none" => told[r] = "none"
          /\ decision[r] = "absent" => told[r] = "none"

RecPart ==
    /\ rec \in Recovery
    /\ broker \in {"up", "recovering", "down"}
    /\ crashes \in 0..MaxCrashes
    /\ rec.pc \in {"resumed", "attached", "unresumed", "degrading"} => rec.session \in Sessions
    /\ rec.pc \in {"reattaching", "awaiting", "marked", "swept", "logged"}
          => rec.turn \in Turns
    /\ rec.turns \subseteq {t \in Turns : turnStatus[t] # "absent"}

TypeInv ==
    /\ SessionPart /\ TurnPart /\ RequestPart /\ LogPart
    /\ TaskPart /\ CallPart /\ AskPart /\ RecPart

-----------------------------------------------------------------------------
(* Helper facts.                                                           *)

\* A non-empty set of turns has a newest one.
LEMMA NewestExists ==
    ASSUME NEW T \in SUBSET Turns, T # {}
    PROVE  \E t \in T : \A u \in T : u <= t
<1> DEFINE Ages == {n \in Nat : \E t \in T : t = MaxTurns - n}
<1>1. \A t \in T : t \in Nat /\ MaxTurns - t \in Nat /\ t = MaxTurns - (MaxTurns - t)
  BY ConstantsAssumption DEF Turns
<1>2. Ages # {}
  BY <1>1
<1>3. \E a \in Ages : \A b \in Ages : <<b, a>> \notin OpToRel(<, Nat)
  <2>1. Ages \subseteq Nat
    OBVIOUS
  <2> HIDE DEF Ages
  <2> QED  BY <1>2, <2>1, NatLessThanWellFounded, WFMin, Zenon
<1>4. PICK a \in Ages : \A b \in Ages : <<b, a>> \notin {ss \in Nat \X Nat : ss[1] < ss[2]}
  BY <1>3 DEF OpToRel
<1>5. \A b \in Ages : ~(b < a)
  BY <1>4
<1>6. PICK t \in T : t = MaxTurns - a
  OBVIOUS
<1>7. \A u \in T : u <= t
  BY <1>1, <1>5, <1>6, ConstantsAssumption
<1> QED  BY <1>7

\* active_turn_for_session returns an active turn of the session, or none.
LEMMA ActiveTurnOfType ==
    ASSUME NEW s
    PROVE  ActiveTurnOf(s) \in ActiveTurnsOf(s) \cup {NoTurn}
<1>1. CASE ActiveTurnsOf(s) = {}
  BY <1>1 DEF ActiveTurnOf
<1>2. CASE ActiveTurnsOf(s) # {}
  <2>1. ActiveTurnsOf(s) \in SUBSET Turns
    BY DEF ActiveTurnsOf
  <2>2. \E t \in ActiveTurnsOf(s) : \A u \in ActiveTurnsOf(s) : u <= t
    BY <1>2, <2>1, NewestExists
  <2> QED  BY <1>2, <2>2 DEF ActiveTurnOf
<1> QED  BY <1>1, <1>2

-----------------------------------------------------------------------------
(* Type correctness.                                                       *)

\* What a step must leave alone for the other actors to keep their part.
NoNewRow ==
    /\ UNCHANGED turnSession
    /\ \A t \in Turns : turnStatus'[t] = "absent" <=> turnStatus[t] = "absent"

NoNewRequest == \A r \in Requests : decision'[r] = "absent" <=> decision[r] = "absent"

\* A part holds on when its variables, and the rows it refers to, are left alone.
LEMMA Undisturbed ==
    ASSUME TypeInv
    PROVE  /\ UNCHANGED sessionVars => SessionPart'
           /\ UNCHANGED turnVars => TurnPart' /\ NoNewRow
           /\ UNCHANGED requestVars => RequestPart'
           /\ UNCHANGED decision => NoNewRequest
           /\ UNCHANGED log => LogPart'
           /\ UNCHANGED taskVars /\ NoNewRow => TaskPart'
           /\ UNCHANGED call /\ NoNewRow => CallPart'
           /\ UNCHANGED askVars /\ NoNewRequest => AskPart'
           /\ UNCHANGED brokerVars /\ NoNewRow => RecPart'
<1> USE DEF TypeInv, NoNewRow, NoNewRequest, sessionVars, turnVars, requestVars, taskVars, askVars,
            brokerVars
<1>1. UNCHANGED sessionVars => SessionPart'
  BY DEF SessionPart
<1>2. UNCHANGED turnVars => TurnPart' /\ NoNewRow
  BY DEF TurnPart
<1>3. UNCHANGED requestVars => RequestPart'
  BY DEF RequestPart
<1>4. UNCHANGED log => LogPart'
  BY DEF LogPart
<1>5. UNCHANGED taskVars /\ NoNewRow => TaskPart'
  BY DEF TaskPart
<1>6. UNCHANGED call /\ NoNewRow => CallPart'
  BY DEF CallPart, Call
<1>7. UNCHANGED askVars /\ NoNewRequest => AskPart'
  BY DEF AskPart
<1>8. UNCHANGED brokerVars /\ NoNewRow => RecPart'
  BY DEF RecPart
<1> QED  BY <1>1, <1>2, <1>3, <1>4, <1>5, <1>6, <1>7, <1>8

LEMMA CreateTypes ==
    ASSUME TypeInv, NEW c \in Callers, CreateStep(c)
    PROVE  TypeInv'
<1> USE ConstantsAssumption
    DEF TypeInv, sessionVars, turnVars, requestVars, taskVars, askVars, brokerVars
<1>1. ASSUME NEW s \in Sessions, CreateInsert(c, s) PROVE TypeInv'
  <2>1. SessionPart'
    BY <1>1 DEF CreateInsert, SessionPart, SessionStatus, SetSession
  <2>2. CallPart'
    BY <1>1 DEF CreateInsert, CallPart, Call, CallPc, Idle, NoTurn
  <2> QED  BY <1>1, <2>1, <2>2, Undisturbed DEF CreateInsert
<1>2. CASE CreateRecord(c)
  <2>1. LogPart'
    BY <1>2 DEF CreateRecord, LogPart, Resource, EventType, AppendEvent, AppendEvents, CallPart
  <2>2. CallPart'
    BY <1>2 DEF CreateRecord, CallPart, Call, CallPc, Goto
  <2> QED  BY <1>2, <2>1, <2>2, Undisturbed DEF CreateRecord
<1>3. CASE CreateAnswered(c)
  <2>1. CallPart'
    BY <1>3 DEF CreateAnswered, CallPart, Call, CallPc, Goto, Return, Idle, NoTurn
  <2> QED  BY <1>3, <2>1, Undisturbed DEF CreateAnswered
<1>4. CASE CreateBind(c)
  <2>1. SessionPart'
    BY <1>4 DEF CreateBind, SessionPart, SessionStatus, SetSession, CallPart
  <2>2. CallPart'
    BY <1>4 DEF CreateBind, CallPart, Call, CallPc, Goto
  <2> QED  BY <1>4, <2>1, <2>2, Undisturbed DEF CreateBind
<1>5. CASE CreateAnnounce(c)
  <2>1. LogPart'
    BY <1>5 DEF CreateAnnounce, LogPart, Resource, EventType, AppendEvent, AppendEvents, CallPart
  <2>2. CallPart'
    BY <1>5 DEF CreateAnnounce, CallPart, Call, CallPc, Goto
  <2> QED  BY <1>5, <2>1, <2>2, Undisturbed DEF CreateAnnounce
<1>6. CASE CreateFinish(c)
  <2>1. SessionPart'
    BY <1>6 DEF CreateFinish, SessionPart, SessionStatus, SetSession
  <2>2. CallPart'
    BY <1>6 DEF CreateFinish, CallPart, Call, CallPc, Return, Idle, NoTurn
  <2> QED  BY <1>6, <2>1, <2>2, Undisturbed DEF CreateFinish
<1> QED  BY <1>1, <1>2, <1>3, <1>4, <1>5, <1>6 DEF CreateStep

LEMMA SendTypes ==
    ASSUME TypeInv, NEW t \in Turns, SendStep(t)
    PROVE  TypeInv'
<1> USE ConstantsAssumption
    DEF TypeInv, sessionVars, turnVars, requestVars, taskVars, askVars, brokerVars
<1>1. ASSUME NEW s \in Sessions, SendInsert(s, t) PROVE TypeInv'
  <2>1. TurnPart'
    BY <1>1 DEF SendInsert, TurnPart, TurnStatus, ActiveStatus, TerminalStatus
  <2>2. TaskPart'
    BY <1>1 DEF SendInsert, TaskPart, TaskPc, TurnPart
  <2>3. CallPart'
    BY <1>1 DEF SendInsert, CallPart, Call, CallPc, TurnPart
  <2>4. RecPart'
    BY <1>1 DEF SendInsert, RecPart, Recovery, RecPc, TurnPart
  <2> QED  BY <1>1, <2>1, <2>2, <2>3, <2>4, Undisturbed DEF SendInsert
<1>2. CASE SendQueued(t)
  <2>1. LogPart'
    BY <1>2 DEF SendQueued, LogPart, Resource, EventType, AppendEvent, AppendEvents
  <2>2. TaskPart'
    BY <1>2 DEF SendQueued, TaskPart, TaskPc
  <2> QED  BY <1>2, <2>1, <2>2, Undisturbed DEF SendQueued
<1>3. CASE SendStarted(t)
  <2>1. LogPart'
    BY <1>3 DEF SendStarted, LogPart, Resource, EventType, AppendEvent, AppendEvents
  <2>2. TaskPart'
    BY <1>3 DEF SendStarted, TaskPart, TaskPc
  <2> QED  BY <1>3, <2>1, <2>2, Undisturbed DEF SendStarted
<1>4. CASE SendSpawn(t)
  <2>1. SessionPart'
    BY <1>4 DEF SendSpawn, SessionPart, SessionStatus, SetSession
  <2>2. TaskPart'
    BY <1>4 DEF SendSpawn, TaskPart, TaskPc
  <2> QED  BY <1>4, <2>1, <2>2, Undisturbed DEF SendSpawn
<1> QED  BY <1>1, <1>2, <1>3, <1>4 DEF SendStep

LEMMA TaskTypes ==
    ASSUME TypeInv, NEW t \in Turns, TaskStep(t)
    PROVE  TypeInv'
<1> USE ConstantsAssumption
    DEF TypeInv, sessionVars, turnVars, requestVars, taskVars, askVars, brokerVars
<1>1. ASSUME NEW o \in Outcomes, BackendReturns(t, o) PROVE TypeInv'
  <2>1. TaskPart'
    BY <1>1 DEF BackendReturns, TaskPart, TaskPc
  <2> QED  BY <1>1, <2>1, Undisturbed DEF BackendReturns
<1>2. ASSUME NEW r \in Requests, IngestRequest(t, r) PROVE TypeInv'
  <2>1. RequestPart'
    BY <1>2 DEF IngestRequest, RequestPart
  <2>2. TaskPart'
    BY <1>2 DEF IngestRequest, TaskPart, TaskPc
  <2>3. AskPart'
    BY <1>2 DEF IngestRequest, AskPart, AskPc, RequestPart
  <2> QED  BY <1>2, <2>1, <2>2, <2>3, Undisturbed DEF IngestRequest
<1>3. CASE IngestEvent(t)
  <2>1. LogPart'
    BY <1>3 DEF IngestEvent, LogPart, Resource, EventType, AppendEvent, AppendEvents, TaskPart
  <2>2. TaskPart'
    BY <1>3 DEF IngestEvent, TaskPart, TaskPc
  <2> QED  BY <1>3, <2>1, <2>2, Undisturbed DEF IngestEvent
<1>4. CASE RecordOutcome(t)
  <2>1. LogPart'
    BY <1>4
    DEF RecordOutcome, LogPart, Resource, EventType, AppendEvent, AppendEvents, TerminalEvent,
        TaskPart, BackendOutcome
  <2>2. TaskPart'
    BY <1>4 DEF RecordOutcome, TaskPart, TaskPc
  <2> QED  BY <1>4, <2>1, <2>2, Undisturbed DEF RecordOutcome
<1>5. CASE StoreOutcome(t)
  <2>1. NoNewRow
    BY <1>5 DEF StoreOutcome, NoNewRow, SetTurn, StatusOf, TaskPart, BackendOutcome, TurnPart
  <2>2. TurnPart'
    BY <1>5
    DEF StoreOutcome, TurnPart, TurnStatus, ActiveStatus, TerminalStatus, SetTurn, StatusOf,
        TaskPart, BackendOutcome
  <2>3. TaskPart'
    BY <1>5, <2>1 DEF StoreOutcome, TaskPart, TaskPc, NoNewRow
  <2> QED  BY <1>5, <2>1, <2>2, <2>3, Undisturbed DEF StoreOutcome
<1>6. CASE ReleaseSession(t)
  <2>1. SessionPart'
    BY <1>6
    DEF ReleaseSession, SessionPart, SessionStatus, SetSession, SessionAfter, TaskPart,
        BackendOutcome
  <2>2. TaskPart'
    BY <1>6 DEF ReleaseSession, TaskPart, TaskPc, Parked
  <2> QED  BY <1>6, <2>1, <2>2, Undisturbed DEF ReleaseSession
<1> QED  BY <1>1, <1>2, <1>3, <1>4, <1>5, <1>6 DEF TaskStep

LEMMA AskTypes ==
    ASSUME TypeInv, NEW r \in Requests, AskStep(r)
    PROVE  TypeInv'
<1> USE ConstantsAssumption
    DEF TypeInv, sessionVars, turnVars, requestVars, taskVars, askVars, brokerVars
<1>1. ASSUME NEW s \in Sessions, AskLocate(r, s) PROVE TypeInv'
  <2>1. RequestPart'
    <3>1. ActiveTurnOf(s) \in Turns \cup {NoTurn}
      BY ActiveTurnOfType DEF ActiveTurnsOf
    <3> QED  BY <1>1, <3>1 DEF AskLocate, RequestPart
  <2>2. AskPart'
    BY <1>1 DEF AskLocate, AskPart, AskPc
  <2> QED  BY <1>1, <2>1, <2>2, Undisturbed DEF AskLocate
<1>2. CASE AskInsert(r)
  <2>1. RequestPart'
    BY <1>2 DEF AskInsert, RequestPart
  <2>2. AskPart'
    BY <1>2 DEF AskInsert, AskPart, AskPc, RequestPart
  <2> QED  BY <1>2, <2>1, <2>2, Undisturbed DEF AskInsert
<1>3. CASE AskRecord(r)
  <2>1. LogPart'
    BY <1>3 DEF AskRecord, LogPart, Resource, EventType, AppendEvent, AppendEvents
  <2>2. AskPart'
    BY <1>3 DEF AskRecord, AskPart, AskPc
  <2> QED  BY <1>3, <2>1, <2>2, Undisturbed DEF AskRecord
<1>4. CASE AskAnswer(r)
  <2>1. AskPart'
    BY <1>4 DEF AskAnswer, AskPart, AskPc, Pending, RequestPart
  <2> QED  BY <1>4, <2>1, Undisturbed DEF AskAnswer
<1>5. CASE AskDeadline(r)
  <2>1. AskPart'
    BY <1>5 DEF AskDeadline, AskPart, AskPc, Pending
  <2> QED  BY <1>5, <2>1, Undisturbed DEF AskDeadline
<1>6. CASE AskExpire(r)
  <2>1. RequestPart'
    BY <1>6 DEF AskExpire, RequestPart, DecideIfPending, Pending
  <2>2. AskPart'
    BY <1>6 DEF AskExpire, AskPart, AskPc, DecideIfPending, Pending, RequestPart
  <2> QED  BY <1>6, <2>1, <2>2, Undisturbed DEF AskExpire
<1> QED  BY <1>1, <1>2, <1>3, <1>4, <1>5, <1>6 DEF AskStep

LEMMA CancelTypes ==
    ASSUME TypeInv, NEW c \in Callers, CancelStep(c)
    PROVE  TypeInv'
<1> USE ConstantsAssumption
    DEF TypeInv, sessionVars, turnVars, requestVars, taskVars, askVars, brokerVars
<1>1. ASSUME NEW s \in Sessions, NEW t \in Turns, CancelBegin(c, s, t) PROVE TypeInv'
  <2>1. CallPart'
    BY <1>1 DEF CancelBegin, CallPart, Call, CallPc, Idle, NoTurn
  <2> QED  BY <1>1, <2>1, Undisturbed DEF CancelBegin
<1>2. CASE CancelSweep(c)
  <2>1. RequestPart'
    BY <1>2 DEF CancelSweep, RequestPart, CancelPendingOf, PendingOf, Pending
  <2>2. CallPart'
    BY <1>2 DEF CancelSweep, CallPart, Call, CallPc, PendingOf
  <2>3. NoNewRequest
    BY <1>2 DEF CancelSweep, NoNewRequest, CancelPendingOf, PendingOf, Pending, RequestPart
  <2> QED  BY <1>2, <2>1, <2>2, <2>3, Undisturbed DEF CancelSweep
<1>3. ASSUME NEW r \in Requests, CancelRecordRequest(c, r) PROVE TypeInv'
  <2>1. LogPart'
    BY <1>3 DEF CancelRecordRequest, LogPart, Resource, EventType, AppendEvent, AppendEvents
  <2>2. CallPart'
    BY <1>3 DEF CancelRecordRequest, CallPart, Call, CallPc
  <2> QED  BY <1>3, <2>1, <2>2, Undisturbed DEF CancelRecordRequest
<1>4. CASE CancelAnswered(c)
  <2>1. CallPart'
    BY <1>4 DEF CancelAnswered, CallPart, Call, CallPc, Goto, Return, Idle, NoTurn
  <2> QED  BY <1>4, <2>1, Undisturbed DEF CancelAnswered
<1>5. CASE CancelStore(c)
  <2>1. NoNewRow
    BY <1>5 DEF CancelStore, NoNewRow, SetTurn, CallPart, TurnPart
  <2>2. TurnPart'
    BY <1>5 DEF CancelStore, TurnPart, TurnStatus, ActiveStatus, TerminalStatus, SetTurn, CallPart
  <2>3. CallPart'
    BY <1>5, <2>1 DEF CancelStore, CallPart, Call, CallPc, Goto, NoNewRow
  <2> QED  BY <1>5, <2>1, <2>2, <2>3, Undisturbed DEF CancelStore
<1>6. CASE CancelRecord(c)
  <2>1. LogPart'
    BY <1>6 DEF CancelRecord, LogPart, Resource, EventType, AppendEvent, AppendEvents, CallPart
  <2>2. CallPart'
    BY <1>6 DEF CancelRecord, CallPart, Call, CallPc, Goto
  <2> QED  BY <1>6, <2>1, <2>2, Undisturbed DEF CancelRecord
<1>7. CASE CancelRelease(c)
  <2>1. SessionPart'
    BY <1>7 DEF CancelRelease, SessionPart, SessionStatus, SetSession
  <2>2. CallPart'
    BY <1>7 DEF CancelRelease, CallPart, Call, CallPc, Return, Idle, NoTurn
  <2> QED  BY <1>7, <2>1, <2>2, Undisturbed DEF CancelRelease
<1> QED  BY <1>1, <1>2, <1>3, <1>4, <1>5, <1>6, <1>7 DEF CancelStep

LEMMA InboxTypes ==
    ASSUME TypeInv, NEW c \in Callers, InboxStep(c)
    PROVE  TypeInv'
<1> USE ConstantsAssumption
    DEF TypeInv, sessionVars, turnVars, requestVars, taskVars, askVars, brokerVars
<1>1. ASSUME NEW s \in Sessions, NEW d \in Dispositions, CloseSession(c, s, d) PROVE TypeInv'
  <2>1. SessionPart'
    BY <1>1 DEF CloseSession, SessionPart, SessionStatus, SetSession, ClosedStatus
  <2>2. CallPart'
    BY <1>1 DEF CloseSession, CallPart, Call, CallPc, Idle, NoTurn
  <2> QED  BY <1>1, <2>1, <2>2, Undisturbed DEF CloseSession
<1>2. CASE CloseRecord(c)
  <2>1. LogPart'
    BY <1>2 DEF CloseRecord, LogPart, Resource, EventType, AppendEvent, AppendEvents, CallPart
  <2>2. CallPart'
    BY <1>2 DEF CloseRecord, CallPart, Call, CallPc, Return, Idle, NoTurn
  <2> QED  BY <1>2, <2>1, <2>2, Undisturbed DEF CloseRecord
<1>3. ASSUME NEW r \in Requests, NEW d \in Decisions, ResolveRequest(c, r, d) PROVE TypeInv'
  <2>1. RequestPart'
    BY <1>3 DEF ResolveRequest, RequestPart, DecideIfPending, Pending
  <2>2. CallPart'
    BY <1>3 DEF ResolveRequest, CallPart, Call, CallPc, Idle, NoTurn
  <2>3. AskPart'
    BY <1>3 DEF ResolveRequest, AskPart, AskPc, DecideIfPending, Pending, RequestPart
  <2> QED  BY <1>3, <2>1, <2>2, <2>3, Undisturbed DEF ResolveRequest
<1>4. CASE ResolveRecord(c)
  <2>1. LogPart'
    BY <1>4
    DEF ResolveRecord, LogPart, Resource, EventType, AppendEvent, AppendEvents, CallPart, Call
  <2>2. CallPart'
    BY <1>4 DEF ResolveRecord, CallPart, Call, CallPc, Return, Idle, NoTurn
  <2> QED  BY <1>4, <2>1, <2>2, Undisturbed DEF ResolveRecord
<1>5. ASSUME NEW scope \in AckScopes, AckInbox(c, scope) PROVE TypeInv'
  <2>1. NoNewRow
    BY <1>5 DEF AckInbox, NoNewRow
  <2>2. TurnPart'
    BY <1>5 DEF AckInbox, TurnPart, TurnStatus, ActiveStatus, TerminalStatus
  <2>3. CallPart'
    BY <1>5, <2>1 DEF AckInbox, CallPart, Call, CallPc, Idle, NoTurn, NoNewRow
  <2> QED  BY <1>5, <2>1, <2>2, <2>3, Undisturbed DEF AckInbox
<1>6. CASE AckRecord(c)
  <2>1. LogPart'
    BY <1>6 DEF AckRecord, LogPart, Resource, EventType, AppendEvent, AppendEvents
  <2>2. CallPart'
    BY <1>6 DEF AckRecord, CallPart, Call, CallPc, Return, Idle, NoTurn
  <2> QED  BY <1>6, <2>1, <2>2, Undisturbed DEF AckRecord
<1> QED  BY <1>1, <1>2, <1>3, <1>4, <1>5, <1>6 DEF InboxStep

LEMMA ProcessEndsTypes ==
    ASSUME TypeInv, ProcessEnds, crashes' \in 0..MaxCrashes
    PROVE  TypeInv'
<1> USE ConstantsAssumption
<1>1. NoNewRow /\ NoNewRequest
  BY Undisturbed DEF ProcessEnds, turnVars
<1>2. RequestPart'
  BY DEF ProcessEnds, TypeInv, RequestPart
<1>3. TaskPart'
  BY <1>1 DEF ProcessEnds, TypeInv, TaskPart, TaskPc, NoNewRow
<1>4. CallPart'
  BY DEF ProcessEnds, TypeInv, CallPart, Call, CallPc, Idle, NoTurn
<1>5. AskPart'
  BY <1>1 DEF ProcessEnds, TypeInv, AskPart, AskPc, NoNewRequest
<1>6. RecPart'
  BY DEF ProcessEnds, TypeInv, RecPart, Recovery, RecPc, NoRecovery, NoTurn
<1> QED  BY <1>2, <1>3, <1>4, <1>5, <1>6, Undisturbed
         DEF ProcessEnds, TypeInv, sessionVars, turnVars

LEMMA RecoveryTypes ==
    ASSUME TypeInv, RecoveryStep
    PROVE  TypeInv'
<1> USE ConstantsAssumption
    DEF TypeInv, sessionVars, turnVars, requestVars, taskVars, askVars, brokerVars
<1>1. ASSUME NEW s \in Sessions, RecoverSession(s) PROVE TypeInv'
  <2>1. RecPart'
    <3> DEFINE here == [rec EXCEPT !.session = s, !.sessions = @ \ {s}]
    <3>1. here \in Recovery /\ here.pc = "turns" /\ here.turns = rec.turns
      BY <1>1 DEF RecoverSession, RecStep, RecPart, Recovery
    <3>2. here.session = s
      BY DEF RecPart, Recovery
    <3>3. \/ rec' = [here EXCEPT !.pc = "resumed", !.resumed = TRUE]
          \/ rec' = [here EXCEPT !.pc = "unresumed"]
          \/ rec' = here
      BY <1>1 DEF RecoverSession
    <3> HIDE DEF here
    <3>4. rec' \in Recovery /\ rec'.turns = rec.turns /\ rec'.session = s
      BY <3>1, <3>2, <3>3 DEF Recovery, RecPc
    <3>5. rec'.pc \in {"resumed", "unresumed", "turns"}
      BY <3>1, <3>3 DEF Recovery
    <3> QED  BY <1>1, <3>4, <3>5 DEF RecoverSession, RecStep, RecPart
  <2> QED  BY <1>1, <2>1, Undisturbed DEF RecoverSession, RecStep
<1>2. CASE RecoverResumed
  <2>1. LogPart'
    BY <1>2
    DEF RecoverResumed, RecStep, LogPart, Resource, EventType, AppendEvent, AppendEvents, RecPart
  <2>2. RecPart'
    BY <1>2 DEF RecoverResumed, RecStep, RecPart, Recovery, RecPc, RecGoto
  <2> QED  BY <1>2, <2>1, <2>2, Undisturbed DEF RecoverResumed, RecStep
<1>3. CASE RecoverIdle
  <2>1. SessionPart'
    BY <1>3 DEF RecoverIdle, RecStep, SessionPart, SessionStatus, SetSession
  <2>2. RecPart'
    BY <1>3 DEF RecoverIdle, RecStep, RecPart, Recovery, RecPc, RecGoto
  <2> QED  BY <1>3, <2>1, <2>2, Undisturbed DEF RecoverIdle, RecStep
<1>4. CASE RecoverUnresumed
  <2>1. LogPart'
    BY <1>4
    DEF RecoverUnresumed, RecStep, LogPart, Resource, EventType, AppendEvent, AppendEvents, RecPart
  <2>2. RecPart'
    BY <1>4 DEF RecoverUnresumed, RecStep, RecPart, Recovery, RecPc, RecGoto
  <2> QED  BY <1>4, <2>1, <2>2, Undisturbed DEF RecoverUnresumed, RecStep
<1>5. CASE RecoverDegrade
  <2>1. SessionPart'
    BY <1>5 DEF RecoverDegrade, RecStep, SessionPart, SessionStatus, SetSession
  <2>2. RecPart'
    BY <1>5 DEF RecoverDegrade, RecStep, RecPart, Recovery, RecPc, RecGoto
  <2> QED  BY <1>5, <2>1, <2>2, Undisturbed DEF RecoverDegrade, RecStep
<1>6. CASE RecoverSessionDone
  <2>1. RecPart'
    BY <1>6 DEF RecoverSessionDone, RecStep, RecPart, Recovery, RecPc
  <2> QED  BY <1>6, <2>1, Undisturbed DEF RecoverSessionDone, RecStep
<1>7. ASSUME NEW t \in Turns, RecoverReattach(t) PROVE TypeInv'
  <2>1. TaskPart'
    BY <1>7 DEF RecoverReattach, RecStep, TaskPart, TaskPc, Todo, RecPart
  <2>2. RecPart'
    <3> DEFINE next(pc) == [rec EXCEPT !.pc = pc, !.turn = t, !.turns = @ \ {t}]
    <3>1. rec' = next("awaiting") \/ rec' = next("reattaching")
      BY <1>7 DEF RecoverReattach
    <3>2. ASSUME NEW pc \in {"awaiting", "reattaching"}
          PROVE  next(pc) \in Recovery /\ next(pc).pc = pc /\ next(pc).turn = t
                    /\ next(pc).turns = rec.turns \ {t}
      BY DEF RecPart, Recovery, RecPc
    <3> HIDE DEF next
    <3> QED  BY <1>7, <3>1, <3>2 DEF RecoverReattach, RecStep, RecPart
  <2> QED  BY <1>7, <2>1, <2>2, Undisturbed DEF RecoverReattach, RecStep
<1>8. CASE RecoverFinalized
  <2>1. RecPart'
    BY <1>8 DEF RecoverFinalized, RecStep, RecPart, Recovery, RecPc, NoTurn
  <2> QED  BY <1>8, <2>1, Undisturbed DEF RecoverFinalized, RecStep
<1>9. ASSUME NEW t \in Turns, RecoverInterrupt(t) PROVE TypeInv'
  <2>1. NoNewRow
    BY <1>9 DEF RecoverInterrupt, RecStep, NoNewRow, MarkInterrupted, Active, ActiveStatus, TurnPart
  <2>2. TurnPart'
    BY <1>9
    DEF RecoverInterrupt, RecStep, TurnPart, TurnStatus, ActiveStatus, TerminalStatus,
        MarkInterrupted, Active
  <2>3. TaskPart'
    BY <1>9, <2>1 DEF RecoverInterrupt, RecStep, TaskPart, TaskPc, NoNewRow
  <2>4. RecPart'
    BY <1>9, <2>1 DEF RecoverInterrupt, RecStep, RecPart, Recovery, RecPc, NoNewRow
  <2> QED  BY <1>9, <2>1, <2>2, <2>3, <2>4, Undisturbed DEF RecoverInterrupt, RecStep
<1>10. CASE RecoverSweep
  <2>1. RequestPart'
    BY <1>10 DEF RecoverSweep, RecStep, RequestPart, CancelPendingOf, PendingOf, Pending
  <2>2. AskPart'
    BY <1>10
    DEF RecoverSweep, RecStep, AskPart, AskPc, CancelPendingOf, PendingOf, Pending, RequestPart
  <2>3. RecPart'
    BY <1>10 DEF RecoverSweep, RecStep, RecPart, Recovery, RecPc, PendingOf
  <2> QED  BY <1>10, <2>1, <2>2, <2>3, Undisturbed DEF RecoverSweep, RecStep
<1>11. ASSUME NEW r \in Requests, RecoverRecordRequest(r) PROVE TypeInv'
  <2>1. LogPart'
    BY <1>11
    DEF RecoverRecordRequest, RecStep, LogPart, Resource, EventType, AppendEvent, AppendEvents
  <2>2. RecPart'
    BY <1>11 DEF RecoverRecordRequest, RecStep, RecPart, Recovery, RecPc
  <2> QED  BY <1>11, <2>1, <2>2, Undisturbed DEF RecoverRecordRequest, RecStep
<1>12. CASE RecoverRecord
  <2>1. LogPart'
    BY <1>12
    DEF RecoverRecord, RecStep, LogPart, Resource, EventType, AppendEvent, AppendEvents, RecPart
  <2>2. RecPart'
    BY <1>12 DEF RecoverRecord, RecStep, RecPart, Recovery, RecPc, RecGoto
  <2> QED  BY <1>12, <2>1, <2>2, Undisturbed DEF RecoverRecord, RecStep
<1>13. CASE RecoverRelease
  <2>1. SessionPart'
    BY <1>13 DEF RecoverRelease, RecStep, SessionPart, SessionStatus, SetSession
  <2>2. RecPart'
    BY <1>13 DEF RecoverRelease, RecStep, RecPart, Recovery, RecPc, NoTurn
  <2> QED  BY <1>13, <2>1, <2>2, Undisturbed DEF RecoverRelease, RecStep
<1>14. CASE Serve
  <2>1. RecPart'
    BY <1>14 DEF Serve, RecPart, Recovery, RecPc, NoRecovery, NoTurn
  <2> QED  BY <1>14, <2>1, Undisturbed DEF Serve
<1>15. ASSUME NEW t \in Turns, RecoverAbort(t) PROVE TypeInv'
  <2>1. ProcessEnds /\ UNCHANGED crashes
    BY <1>15 DEF RecoverAbort
  <2>2. crashes' \in 0..MaxCrashes
    BY <2>1 DEF RecPart
  <2> QED  BY <2>1, <2>2, ProcessEndsTypes
<1> QED  BY <1>1, <1>2, <1>3, <1>4, <1>5, <1>6, <1>7, <1>8, <1>9, <1>10, <1>11, <1>12, <1>13, <1>14,
            <1>15 DEF RecoveryStep

LEMMA RestartTypes ==
    ASSUME TypeInv, Restart
    PROVE  TypeInv'
<1>1. RecPart'
  <2>1. ResumableSessions \in SUBSET Sessions
    BY DEF TypeInv, SessionPart, ResumableSessions
  <2>2. TurnsToRecover \in SUBSET {t \in Turns : turnStatus[t] # "absent"}
    BY DEF TurnsToRecover, Active, ActiveStatus
  <2> QED  BY <2>1, <2>2 DEF Restart, TypeInv, RecPart, Recovery, RecPc, NoRecovery, NoTurn,
                             turnVars
<1> QED  BY <1>1, Undisturbed
         DEF Restart, TypeInv, sessionVars, turnVars, requestVars, taskVars, askVars

LEMMA InitTypes ==
    ASSUME Init
    PROVE  TypeInv
<1> USE ConstantsAssumption DEF Init
<1>1. SessionPart /\ TurnPart /\ RequestPart /\ LogPart
  BY DEF SessionPart, SessionStatus, TurnPart, TurnStatus, RequestPart, LogPart
<1>2. TaskPart
  BY DEF TaskPart, TaskPc
<1>3. CallPart
  BY DEF CallPart, Call, CallPc, Idle, NoTurn
<1>4. AskPart
  BY DEF AskPart, AskPc
<1>5. RecPart
  BY DEF RecPart, Recovery, RecPc, NoRecovery, NoTurn
<1> QED  BY <1>1, <1>2, <1>3, <1>4, <1>5 DEF TypeInv

\* The inductive invariant behind type correctness: the types, and that every
\* thread of the broker holds the session, turn or request its next store
\* call names.
THEOREM TypeInvariant == Spec => []TypeInv
<1>1. Init => TypeInv
  BY InitTypes
<1>2. TypeInv /\ [Next]_vars => TypeInv'
  <2> SUFFICES ASSUME TypeInv, [Next]_vars PROVE TypeInv'
    OBVIOUS
  <2>1. ASSUME NEW c \in Callers, CreateStep(c) \/ CancelStep(c) \/ InboxStep(c) PROVE TypeInv'
    BY <2>1, CreateTypes, CancelTypes, InboxTypes
  <2>2. ASSUME NEW t \in Turns, SendStep(t) \/ TaskStep(t) PROVE TypeInv'
    BY <2>2, SendTypes, TaskTypes
  <2>3. ASSUME NEW r \in Requests, AskStep(r) PROVE TypeInv'
    BY <2>3, AskTypes
  <2>4. CASE RecoveryStep \/ Restart
    BY <2>4, RecoveryTypes, RestartTypes
  <2>5. CASE Crash
    BY <2>5, ProcessEndsTypes, ConstantsAssumption DEF Crash, TypeInv, RecPart
  <2>6. CASE UNCHANGED vars
    BY <2>6, Undisturbed
    DEF TypeInv, vars, sessionVars, turnVars, requestVars, taskVars, askVars, brokerVars
  <2> QED  BY <2>1, <2>2, <2>3, <2>4, <2>5, <2>6 DEF Next
<1> QED  BY <1>1, <1>2, PTL DEF Spec

LEMMA TypeInvGivesTypes == TypeInv => TypeOK
BY DEF TypeInv, TypeOK, SessionPart, TurnPart, RequestPart, LogPart, TaskPart, CallPart, AskPart,
       RecPart

\* Type correctness of the store, the log and every thread, whatever the
\* backend does and whenever the process dies.
THEOREM TypeCorrect == Spec => []TypeOK
BY TypeInvariant, TypeInvGivesTypes, PTL

-----------------------------------------------------------------------------
(* The steps that matter to turns.  All the others only append to the log  *)
(* and move threads that hold no turn's fate.                              *)

Quiet ==
    /\ UNCHANGED <<turnStatus, turnSession, unread, taskPc, outcome>>
    /\ log \subseteq log'

LEMMA Appended ==
    ASSUME NEW R, NEW T, AppendEvents(R, T)
    PROVE  /\ log \subseteq log'
           /\ \A i \in R, e \in T : <<i, e>> \in log'
BY DEF AppendEvents

LEMMA CallsAreQuiet ==
    ASSUME NEW c \in Callers, CreateStep(c) \/ CancelStep(c) \/ InboxStep(c)
    PROVE  \/ Quiet /\ UNCHANGED <<rec, broker>>
           \/ CancelStore(c)
           \/ \E scope \in AckScopes : AckInbox(c, scope)
<1> USE Appended DEF Quiet, AppendEvent, turnVars, taskVars, brokerVars
<1>1. CASE CreateStep(c)
  BY <1>1 DEF CreateStep, CreateInsert, CreateRecord, CreateAnswered, CreateBind, CreateAnnounce,
              CreateFinish
<1>2. CASE CancelStep(c)
  BY <1>2 DEF CancelStep, CancelBegin, CancelSweep, CancelRecordRequest, CancelAnswered,
              CancelRecord, CancelRelease
<1>3. CASE InboxStep(c)
  BY <1>3 DEF InboxStep, CloseSession, CloseRecord, ResolveRequest, ResolveRecord, AckRecord
<1> QED  BY <1>1, <1>2, <1>3

LEMMA AskIsQuiet ==
    ASSUME NEW r \in Requests, AskStep(r)
    PROVE  Quiet /\ UNCHANGED <<rec, broker>>
BY Appended DEF AskStep, AskLocate, AskInsert, AskRecord, AskAnswer, AskDeadline, AskExpire,
                AppendEvent, Quiet, turnVars, taskVars, brokerVars

\* Recovery touches a turn in two steps, and its worklist in a third.
LEMMA RecoveryIsQuiet ==
    ASSUME TypeInv, RecoveryStep
    PROVE  \/ /\ Quiet
              /\ rec'.turns = rec.turns
              /\ rec.pc # "reattaching"
              /\ broker' = broker
           \/ Quiet /\ Serve
           \/ \E t \in Turns : RecoverReattach(t) \/ RecoverInterrupt(t)
           \/ ProcessEnds
<1> USE Appended DEF Quiet, AppendEvent, turnVars, taskVars, brokerVars, RecStep, RecGoto,
                     TypeInv, RecPart, Recovery
<1>1. ASSUME NEW s \in Sessions, RecoverSession(s)
      PROVE  Quiet /\ rec'.turns = rec.turns /\ rec.pc # "reattaching" /\ broker' = broker
  <2>1. Quiet /\ rec.pc = "turns" /\ broker' = broker
    BY <1>1 DEF RecoverSession
  <2>2. rec'.turns = rec.turns
    BY <1>1 DEF RecoverSession
  <2> QED  BY <2>1, <2>2
<1>2. CASE RecoverResumed
  BY <1>2 DEF RecoverResumed
<1>3. CASE RecoverIdle \/ RecoverDegrade
  BY <1>3 DEF RecoverIdle, RecoverDegrade
<1>4. CASE RecoverUnresumed
  BY <1>4 DEF RecoverUnresumed
<1>5. CASE RecoverSessionDone \/ RecoverFinalized \/ RecoverRelease
  BY <1>5 DEF RecoverSessionDone, RecoverFinalized, RecoverRelease
<1>6. CASE RecoverSweep
  BY <1>6 DEF RecoverSweep
<1>7. CASE \E r \in Requests : RecoverRecordRequest(r)
  BY <1>7 DEF RecoverRecordRequest
<1>8. CASE RecoverRecord
  BY <1>8 DEF RecoverRecord
<1>9. CASE Serve
  BY <1>9 DEF Serve
<1>10. CASE \E t \in Turns : RecoverAbort(t)
  BY <1>10 DEF RecoverAbort
<1> QED  BY <1>1, <1>2, <1>3, <1>4, <1>5, <1>6, <1>7, <1>8, <1>9, <1>10 DEF RecoveryStep

-----------------------------------------------------------------------------
(* The history of a completed turn.                                        *)

HistoryOf(t) ==
    /\ turnStatus[t] = "completed" => <<t, "turn.completed">> \in log
    /\ taskPc[t] \in {"recorded", "stored"} /\ outcome[t] = "completed"
         => <<t, "turn.completed">> \in log
    /\ SupportsTurnReattach
       \/ /\ taskPc[t] \notin {"none", "inserted"} => <<t, "turn.queued">> \in log
          /\ taskPc[t] \notin {"none", "inserted", "queued"} => <<t, "turn.started">> \in log
          /\ turnStatus[t] = "completed" => {t} \X {"turn.queued", "turn.started"} \subseteq log

HistoryInv == \A t \in Turns : HistoryOf(t)

LEMMA HistoryStep ==
    ASSUME TypeInv, HistoryInv, [Next]_vars
    PROVE  HistoryInv'
<1> USE DEF HistoryInv, HistoryOf, turnVars, taskVars, TypeInv, TurnPart, TaskPart
<1>1. CASE Quiet
  BY <1>1 DEF Quiet
<1>2. ASSUME NEW c \in Callers, CancelStore(c) PROVE HistoryInv'
  BY <1>2 DEF CancelStore, SetTurn
<1>3. ASSUME NEW c \in Callers, NEW scope \in AckScopes, AckInbox(c, scope) PROVE HistoryInv'
  BY <1>3 DEF AckInbox
<1>4. ASSUME NEW t \in Turns, SendStep(t) PROVE HistoryInv'
  <2>1. ASSUME NEW s \in Sessions, SendInsert(s, t) PROVE HistoryInv'
    BY <2>1 DEF SendInsert
  <2>2. CASE SendQueued(t)
    <3>1. log \subseteq log' /\ <<t, "turn.queued">> \in log'
      BY <2>2, Appended DEF SendQueued, AppendEvent
    <3> QED  BY <2>2, <3>1 DEF SendQueued
  <2>3. CASE SendStarted(t)
    <3>1. log \subseteq log' /\ <<t, "turn.started">> \in log'
      BY <2>3, Appended DEF SendStarted, AppendEvent
    <3> QED  BY <2>3, <3>1 DEF SendStarted
  <2>4. CASE SendSpawn(t)
    BY <2>4 DEF SendSpawn
  <2> QED  BY <1>4, <2>1, <2>2, <2>3, <2>4 DEF SendStep
<1>5. ASSUME NEW t \in Turns, TaskStep(t) PROVE HistoryInv'
  <2>1. ASSUME NEW o \in Outcomes, BackendReturns(t, o) PROVE HistoryInv'
    BY <2>1 DEF BackendReturns
  <2>2. ASSUME NEW r \in Requests, IngestRequest(t, r) PROVE HistoryInv'
    BY <2>2 DEF IngestRequest
  <2>3. CASE IngestEvent(t)
    <3>1. log \subseteq log'
      BY <2>3, Appended DEF IngestEvent
    <3> QED  BY <2>3, <3>1 DEF IngestEvent
  <2>4. CASE RecordOutcome(t)
    <3>1. log \subseteq log' /\ (outcome[t] = "completed" => <<t, "turn.completed">> \in log')
      BY <2>4, Appended DEF RecordOutcome, TerminalEvent
    <3> QED  BY <2>4, <3>1 DEF RecordOutcome
  <2>5. CASE StoreOutcome(t)
    <3>1. turnStatus'[t] = "completed" => outcome[t] = "completed"
      BY <2>5 DEF StoreOutcome, SetTurn, StatusOf
    <3>2. \A u \in Turns \ {t} : turnStatus'[u] = turnStatus[u] /\ taskPc'[u] = taskPc[u]
      BY <2>5 DEF StoreOutcome, SetTurn
    <3>3. taskPc[t] = "recorded" /\ taskPc'[t] = "stored" /\ UNCHANGED <<log, outcome>>
      BY <2>5 DEF StoreOutcome
    <3>4. HistoryOf(t)'
      BY <3>1, <3>3
    <3>5. \A u \in Turns \ {t} : HistoryOf(u)'
      BY <3>2, <3>3
    <3> QED  BY <3>4, <3>5
  <2>6. CASE ReleaseSession(t)
    BY <2>6 DEF ReleaseSession
  <2> QED  BY <1>5, <2>1, <2>2, <2>3, <2>4, <2>5, <2>6 DEF TaskStep
<1>6. ASSUME NEW t \in Turns, RecoverReattach(t) PROVE HistoryInv'
  BY <1>6 DEF RecoverReattach, RecStep
<1>7. ASSUME NEW t \in Turns, RecoverInterrupt(t) PROVE HistoryInv'
  BY <1>7 DEF RecoverInterrupt, RecStep, MarkInterrupted
<1>8. CASE ProcessEnds
  BY <1>8 DEF ProcessEnds
<1>9. CASE Restart \/ UNCHANGED vars
  BY <1>9 DEF Restart, vars
<1> QED
  <2>1. CASE \E c \in Callers : CreateStep(c) \/ CancelStep(c) \/ InboxStep(c)
    BY <2>1, <1>1, <1>2, <1>3, CallsAreQuiet
  <2>2. CASE \E r \in Requests : AskStep(r)
    BY <2>2, <1>1, AskIsQuiet
  <2>3. CASE RecoveryStep
    BY <2>3, <1>1, <1>6, <1>7, <1>8, RecoveryIsQuiet
  <2> QED  BY <1>4, <1>5, <1>8, <1>9, <2>1, <2>2, <2>3 DEF Next, Crash

\* Whoever finds a turn completed finds its end in the event log, and its
\* beginning too unless the backend hands over turns from before a restart:
\* the handlers append the event before they store the status, and a crash
\* between the two leaves the turn unfinished.
THEOREM CompletedHistory == Spec => []CompletedTurnHasHistory
<1>1. Init => HistoryInv
  BY DEF Init, HistoryInv, HistoryOf
<1>2. TypeInv /\ HistoryInv /\ [Next]_vars => HistoryInv'
  BY HistoryStep
<1>3. HistoryInv => CompletedTurnHasHistory
  BY DEF HistoryInv, HistoryOf, CompletedTurnHasHistory
<1> QED  BY <1>1, <1>2, <1>3, TypeInvariant, PTL DEF Spec

-----------------------------------------------------------------------------
(* No orphaned turn.  While recovery runs, an active turn is on its        *)
(* worklist, or is the one at hand, or has been handed to a thread.        *)

Attended(t) ==
    \/ taskPc[t] # "none"
    \/ Parked(t)
    \/ broker = "recovering" /\ (t \in rec.turns \/ (rec.pc = "reattaching" /\ rec.turn = t))

OrphanInv ==
    \A t \in Turns :
        /\ broker # "down" /\ Active(t) => Attended(t)
        /\ taskPc[t] = "stored" /\ ~Parked(t) => ~Active(t)

LEMMA OrphanStep ==
    ASSUME TypeInv, OrphanInv, [Next]_vars
    PROVE  OrphanInv'
<1> USE DEF OrphanInv, Attended, Active, ActiveStatus, Parked, turnVars, taskVars, brokerVars,
            TypeInv, TurnPart, TaskPart
<1>1. CASE Quiet /\ UNCHANGED <<rec, broker>>
  BY <1>1 DEF Quiet
<1>2. ASSUME NEW c \in Callers, CancelStore(c) PROVE OrphanInv'
  BY <1>2 DEF CancelStore, SetTurn
<1>3. ASSUME NEW c \in Callers, NEW scope \in AckScopes, AckInbox(c, scope) PROVE OrphanInv'
  BY <1>3 DEF AckInbox
<1>4. ASSUME NEW t \in Turns, SendStep(t) PROVE OrphanInv'
  <2>1. ASSUME NEW s \in Sessions, SendInsert(s, t) PROVE OrphanInv'
    BY <2>1 DEF SendInsert
  <2>2. CASE SendQueued(t)
    BY <2>2 DEF SendQueued
  <2>3. CASE SendStarted(t)
    BY <2>3 DEF SendStarted
  <2>4. CASE SendSpawn(t)
    BY <2>4 DEF SendSpawn
  <2> QED  BY <1>4, <2>1, <2>2, <2>3, <2>4 DEF SendStep
<1>5. ASSUME NEW t \in Turns, TaskStep(t) PROVE OrphanInv'
  <2>1. ASSUME NEW o \in Outcomes, BackendReturns(t, o) PROVE OrphanInv'
    BY <2>1 DEF BackendReturns
  <2>2. ASSUME NEW r \in Requests, IngestRequest(t, r) PROVE OrphanInv'
    BY <2>2 DEF IngestRequest
  <2>3. CASE IngestEvent(t)
    BY <2>3 DEF IngestEvent
  <2>4. CASE RecordOutcome(t)
    BY <2>4 DEF RecordOutcome
  <2>5. CASE StoreOutcome(t)
    <3>1. Parked(t) \/ turnStatus'[t] \notin ActiveStatus
      BY <2>5 DEF StoreOutcome, SetTurn, StatusOf, BackendOutcome
    <3>2. \A u \in Turns \ {t} : turnStatus'[u] = turnStatus[u] /\ taskPc'[u] = taskPc[u]
      BY <2>5 DEF StoreOutcome, SetTurn
    <3>3. taskPc'[t] = "stored" /\ UNCHANGED <<outcome, rec, broker>>
      BY <2>5 DEF StoreOutcome
    <3> QED  BY <3>1, <3>2, <3>3
  <2>6. CASE ReleaseSession(t)
    BY <2>6 DEF ReleaseSession
  <2> QED  BY <1>5, <2>1, <2>2, <2>3, <2>4, <2>5, <2>6 DEF TaskStep
<1>6. CASE /\ Quiet
           /\ rec'.turns = rec.turns
           /\ rec.pc # "reattaching"
           /\ broker' = broker
  BY <1>6 DEF Quiet
<1>7. CASE Quiet /\ Serve
  BY <1>7 DEF Quiet, Serve
<1>8. ASSUME NEW t \in Turns, RecoverReattach(t) PROVE OrphanInv'
  <2>1. \/ taskPc'[t] = "returned"
        \/ rec'.pc = "reattaching" /\ rec'.turn = t /\ UNCHANGED <<taskPc, outcome>>
    BY <1>8 DEF RecoverReattach, RecPart, Recovery
  <2>2. rec.pc = "turns" /\ rec'.turns = rec.turns \ {t} /\ UNCHANGED <<broker, turnStatus>>
    BY <1>8 DEF RecoverReattach, RecStep, RecPart, Recovery
  <2>3. \A u \in Turns \ {t} : taskPc'[u] = taskPc[u] /\ outcome'[u] = outcome[u]
    BY <1>8 DEF RecoverReattach
  <2>4. broker = "recovering" \/ taskPc'[t] # "none" \/ UNCHANGED <<taskPc, outcome>>
    BY <2>1
  <2> QED  BY <2>1, <2>2, <2>3, <2>4
<1>9. ASSUME NEW t \in Turns, RecoverInterrupt(t) PROVE OrphanInv'
  <2>1. turnStatus'[t] \notin ActiveStatus
    BY <1>9 DEF RecoverInterrupt, MarkInterrupted
  <2>2. \A u \in Turns \ {t} : turnStatus'[u] = turnStatus[u]
    BY <1>9 DEF RecoverInterrupt, MarkInterrupted
  <2>3. UNCHANGED <<taskPc, outcome, broker>>
    BY <1>9 DEF RecoverInterrupt, RecStep
  <2>4. rec'.turns = rec.turns \ {t} /\ (rec.pc = "reattaching" => rec.turn = t)
    BY <1>9 DEF RecoverInterrupt, RecStep, RecPart, Recovery
  <2> QED  BY <2>1, <2>2, <2>3, <2>4
<1>10. CASE ProcessEnds
  BY <1>10 DEF ProcessEnds
<1>11. CASE Restart
  <2>1. rec'.turns = TurnsToRecover
    BY <1>11 DEF Restart, NoRecovery
  <2> QED  BY <1>11, <2>1 DEF Restart, TurnsToRecover
<1>12. CASE UNCHANGED vars
  BY <1>12 DEF vars
<1> QED
  <2>1. CASE \E c \in Callers : CreateStep(c) \/ CancelStep(c) \/ InboxStep(c)
    BY <2>1, <1>1, <1>2, <1>3, CallsAreQuiet
  <2>2. CASE \E r \in Requests : AskStep(r)
    BY <2>2, <1>1, AskIsQuiet
  <2>3. CASE RecoveryStep
    BY <2>3, <1>6, <1>7, <1>8, <1>9, <1>10, RecoveryIsQuiet
  <2> QED  BY <1>4, <1>5, <1>10, <1>11, <1>12, <2>1, <2>2, <2>3 DEF Next, Crash

\* "Restart must not leave orphaned running turns": once the broker serves,
\* after any number of crashes at any point, start-up included, every active
\* turn is run by a thread or was parked by the backend.
THEOREM NoOrphan == Spec => []NoOrphanTurn
<1>1. Init => OrphanInv
  BY DEF Init, OrphanInv, Active, ActiveStatus
<1>2. TypeInv /\ OrphanInv /\ [Next]_vars => OrphanInv'
  BY OrphanStep
<1>3. OrphanInv => NoOrphanTurn
  BY DEF OrphanInv, Attended, NoOrphanTurn
<1> QED  BY <1>1, <1>2, <1>3, TypeInvariant, PTL DEF Spec

-----------------------------------------------------------------------------
(* The request contract.                                                   *)

\* Who decides a request, and how, in terms of the contract.
LEMMA OneDecision ==
    ASSUME TypeInv, NEW r \in Requests, NEW d \in Decisions,
           DecideIfPending(r, d), UNCHANGED told
    PROVE  Contract!Decide({r}, d) \/ UNCHANGED <<decision, told>>
BY DEF TypeInv, RequestPart, DecideIfPending, Pending, Contract!Decide

LEMMA SweepDecides ==
    ASSUME NEW t, CancelPendingOf(t), UNCHANGED told
    PROVE  \E R \in SUBSET Requests, d \in Decisions : Contract!Decide(R, d)
<1>1. PendingOf(t) \in SUBSET Requests /\ "cancel" \in Decisions
  BY ConstantsAssumption DEF PendingOf
<1>2. Contract!Decide(PendingOf(t), "cancel")
  BY DEF CancelPendingOf, PendingOf, Pending, Contract!Decide
<1> QED  BY <1>1, <1>2

LEMMA ContractStep ==
    ASSUME TypeInv, [Next]_vars
    PROVE  Contract!ContractNext \/ UNCHANGED <<decision, told>>
<1> USE DEF requestVars, askVars, Contract!ContractNext
<1>1. ASSUME NEW c \in Callers, CreateStep(c)
      PROVE  UNCHANGED <<decision, told>>
  BY <1>1 DEF CreateStep, CreateInsert, CreateRecord, CreateAnswered, CreateBind, CreateAnnounce,
              CreateFinish
<1>2. ASSUME NEW c \in Callers, CancelStep(c)
      PROVE  Contract!ContractNext \/ UNCHANGED <<decision, told>>
  <2>1. CASE CancelSweep(c)
    BY <2>1, SweepDecides DEF CancelSweep
  <2> QED  BY <1>2, <2>1 DEF CancelStep, CancelBegin, CancelRecordRequest, CancelAnswered,
                             CancelStore, CancelRecord, CancelRelease
<1>3. ASSUME NEW c \in Callers, InboxStep(c)
      PROVE  Contract!ContractNext \/ UNCHANGED <<decision, told>>
  <2>1. ASSUME NEW r \in Requests, NEW d \in Decisions, ResolveRequest(c, r, d)
        PROVE  Contract!ContractNext \/ UNCHANGED <<decision, told>>
    BY <2>1, OneDecision DEF ResolveRequest
  <2> QED  BY <1>3, <2>1 DEF InboxStep, CloseSession, CloseRecord, ResolveRecord, AckInbox,
                             AckRecord
<1>4. ASSUME NEW t \in Turns, SendStep(t)
      PROVE  UNCHANGED <<decision, told>>
  BY <1>4 DEF SendStep, SendInsert, SendQueued, SendStarted, SendSpawn
<1>5. ASSUME NEW t \in Turns, TaskStep(t)
      PROVE  Contract!ContractNext \/ UNCHANGED <<decision, told>>
  <2>1. ASSUME NEW r \in Requests, IngestRequest(t, r)
        PROVE  Contract!Raise(r)
    BY <2>1 DEF IngestRequest, Contract!Raise
  <2> QED  BY <1>5, <2>1 DEF TaskStep, BackendReturns, IngestEvent, RecordOutcome, StoreOutcome,
                             ReleaseSession
<1>6. ASSUME NEW r \in Requests, AskStep(r)
      PROVE  Contract!ContractNext \/ UNCHANGED <<decision, told>>
  <2>1. CASE AskInsert(r)
    BY <2>1 DEF AskInsert, TypeInv, AskPart, Contract!Raise
  <2>2. CASE AskAnswer(r)
    BY <2>2 DEF AskAnswer, Pending, TypeInv, AskPart, RequestPart, Contract!Answer
  <2>3. CASE AskExpire(r)
    BY <2>3, OneDecision, ConstantsAssumption DEF AskExpire
  <2> QED  BY <1>6, <2>1, <2>2, <2>3 DEF AskStep, AskLocate, AskRecord, AskDeadline
<1>7. CASE RecoveryStep
  <2>1. CASE RecoverSweep
    BY <2>1, SweepDecides DEF RecoverSweep, RecStep
  <2>2. CASE \E s \in Sessions : RecoverSession(s)
    BY <2>2 DEF RecoverSession, RecStep
  <2>3. CASE \E t \in Turns : RecoverReattach(t) \/ RecoverAbort(t) \/ RecoverInterrupt(t)
    BY <2>3 DEF RecoverReattach, RecoverAbort, ProcessEnds, RecoverInterrupt, RecStep
  <2>4. CASE \/ RecoverResumed \/ RecoverIdle \/ RecoverUnresumed \/ RecoverDegrade
             \/ RecoverSessionDone \/ RecoverFinalized
    BY <2>4 DEF RecoverResumed, RecoverIdle, RecoverUnresumed, RecoverDegrade, RecoverSessionDone,
                RecoverFinalized, RecStep
  <2>5. CASE RecoverRecord \/ RecoverRelease \/ Serve \/ \E r \in Requests : RecoverRecordRequest(r)
    BY <2>5 DEF RecoverRecord, RecoverRelease, Serve, RecoverRecordRequest, RecStep
  <2> QED  BY <1>7, <2>1, <2>2, <2>3, <2>4, <2>5 DEF RecoveryStep
<1>8. CASE Crash \/ Restart \/ UNCHANGED vars
  BY <1>8 DEF Crash, ProcessEnds, Restart, vars
<1> QED  BY <1>1, <1>2, <1>3, <1>4, <1>5, <1>6, <1>7, <1>8 DEF Next

\* The broker implements the request contract: one decision each, whichever
\* of the inbox, the clean-up and the deadline comes first, and the backend
\* is told that decision at most once.
THEOREM RequestContractKept == Spec => KeepsRequestContract
<1>1. Init => Contract!ContractInit
  BY DEF Init, Contract!ContractInit
<1>2. TypeInv /\ [Next]_vars => [Contract!ContractNext]_Contract!contractVars
  BY ContractStep DEF Contract!contractVars
<1> QED  BY <1>1, <1>2, TypeInvariant, PTL DEF Spec, KeepsRequestContract, Contract!ContractSpec

-----------------------------------------------------------------------------
(* Settled turns and the inbox, with a backend that ends its turns.        *)

SettledInv ==
    /\ \A t \in Turns : outcome[t] \in Outcomes \cup {"none"}
    /\ \A t \in unread : turnStatus[t] \in TerminalStatus

\* What a step may do to one turn.
SettlesWell(t) ==
    /\ turnStatus[t] \in TerminalStatus => turnStatus'[t] \in TerminalStatus
    /\ turnStatus[t] \notin TerminalStatus /\ turnStatus'[t] \in TerminalStatus => t \in unread'
    /\ t \in unread /\ t \notin unread' => turnStatus[t] \in TerminalStatus

LEMMA SettledStep ==
    ASSUME EndsItsTurns, TypeInv, SettledInv, [Next]_vars
    PROVE  SettledInv' /\ \A t \in Turns : SettlesWell(t)
<1> DEFINE Goal == SettledInv' /\ \A t \in Turns : SettlesWell(t)
<1> USE DEF SettledInv, SettlesWell, TerminalStatus, turnVars, taskVars, TypeInv, TurnPart, TaskPart
<1>1. CASE Quiet
  BY <1>1 DEF Quiet
<1>2. ASSUME NEW c \in Callers, CancelStore(c) PROVE Goal
  BY <1>2 DEF CancelStore, SetTurn, CallPart
<1>3. ASSUME NEW c \in Callers, NEW scope \in AckScopes, AckInbox(c, scope) PROVE Goal
  BY <1>3 DEF AckInbox
<1>4. ASSUME NEW t \in Turns, SendStep(t) PROVE Goal
  BY <1>4 DEF SendStep, SendInsert, SendQueued, SendStarted, SendSpawn
<1>5. ASSUME NEW t \in Turns, TaskStep(t) PROVE Goal
  <2>1. ASSUME NEW o \in Outcomes, BackendReturns(t, o) PROVE Goal
    BY <2>1 DEF BackendReturns
  <2>2. CASE StoreOutcome(t)
    <3>1. outcome[t] \in {"completed", "failed", "cancelled", "error"}
      BY <2>2 DEF StoreOutcome, EndsItsTurns, BackendOutcome
    <3>2. turnStatus'[t] \in TerminalStatus /\ unread' = unread \cup {t}
      BY <2>2, <3>1 DEF StoreOutcome, SetTurn, StatusOf
    <3>3. \A u \in Turns \ {t} : turnStatus'[u] = turnStatus[u]
      BY <2>2 DEF StoreOutcome, SetTurn
    <3> QED  BY <2>2, <3>2, <3>3 DEF StoreOutcome
  <2>3. CASE ReleaseSession(t)
    BY <2>3 DEF ReleaseSession
  <2>4. CASE IngestEvent(t) \/ RecordOutcome(t) \/ \E r \in Requests : IngestRequest(t, r)
    BY <2>4 DEF IngestEvent, RecordOutcome, IngestRequest
  <2> QED  BY <1>5, <2>1, <2>2, <2>3, <2>4 DEF TaskStep
<1>6. ASSUME NEW t \in Turns, RecoverReattach(t) PROVE Goal
  BY <1>6 DEF RecoverReattach, RecStep
<1>7. ASSUME NEW t \in Turns, RecoverInterrupt(t) PROVE Goal
  BY <1>7 DEF RecoverInterrupt, RecStep, MarkInterrupted, Active, ActiveStatus
<1>8. CASE ProcessEnds \/ Restart \/ UNCHANGED vars
  BY <1>8 DEF ProcessEnds, Restart, vars
<1> QED
  <2>1. CASE \E c \in Callers : CreateStep(c) \/ CancelStep(c) \/ InboxStep(c)
    BY <2>1, <1>1, <1>2, <1>3, CallsAreQuiet
  <2>2. CASE \E r \in Requests : AskStep(r)
    BY <2>2, <1>1, AskIsQuiet
  <2>3. CASE RecoveryStep
    BY <2>3, <1>1, <1>6, <1>7, <1>8, RecoveryIsQuiet
  <2> QED  BY <1>4, <1>5, <1>8, <2>1, <2>2, <2>3 DEF Next, Crash

LEMMA SettledAlways ==
    ASSUME EndsItsTurns
    PROVE  Spec => []SettledInv
<1>1. Init => SettledInv
  BY DEF Init, SettledInv
<1>2. TypeInv /\ SettledInv /\ [Next]_vars => SettledInv'
  BY SettledStep
<1> QED  BY <1>1, <1>2, TypeInvariant, PTL DEF Spec

\* With a backend that ends its turns, no late writer (the task, a cancel, a
\* recovery) brings a settled turn back to life.
THEOREM SettledTurnsStaySettled == ASSUME EndsItsTurns PROVE Spec => SettledStaysSettled
<1>1. TypeInv /\ SettledInv /\ [Next]_vars =>
        [\A t \in Turns : turnStatus[t] \in TerminalStatus => turnStatus'[t] \in TerminalStatus]_vars
  BY SettledStep DEF SettlesWell
<1> QED  BY <1>1, TypeInvariant, SettledAlways, PTL DEF Spec, SettledStaysSettled

\* With such a backend every turn that settles is put in the inbox, and only
\* settled turns are taken out.
THEOREM InboxDelivers == ASSUME EndsItsTurns PROVE Spec => InboxDelivery
<1>1. TypeInv /\ SettledInv /\ [Next]_vars =>
        [\A t \in Turns :
           /\ turnStatus[t] \notin TerminalStatus /\ turnStatus'[t] \in TerminalStatus => t \in unread'
           /\ t \in unread /\ t \notin unread' => turnStatus[t] \in TerminalStatus]_vars
  BY SettledStep DEF SettlesWell
<1> QED  BY <1>1, TypeInvariant, SettledAlways, PTL DEF Spec, InboxDelivery

-----------------------------------------------------------------------------
(* Running sessions, with a backend that ends its turns.                   *)

\* Where start-up recovery has a session that shows as running.
Ahead(s) ==
    \/ s \in rec.sessions
    \/ rec.session = s /\ rec.pc \in {"resumed", "attached", "unresumed", "degrading"}
    \/ rec.session = s /\ rec.pc = "turns" /\ \E t \in rec.turns : turnSession[t] = s
    \/ /\ rec.pc \in {"reattaching", "awaiting", "marked", "swept", "logged"}
       /\ turnSession[rec.turn] = s
       /\ rec.pc = "awaiting" => taskPc[rec.turn] # "none"

RunningInv ==
    /\ \A t \in Turns : turnStatus[t] # "absent" => turnSession[t] \in bound
    /\ broker # "recovering" => rec.pc = "off"
    /\ broker # "up" => \A t \in Turns : taskPc[t] # "none" =>
         /\ broker = "recovering" /\ rec.pc = "awaiting" /\ rec.turn = t
         /\ taskPc[t] \in {"returned", "ingesting", "recorded", "stored"}
    /\ \A s \in Sessions : sessionStatus[s] = "running" =>
         /\ s \in bound
         /\ broker = "up" => \E t \in Turns : turnSession[t] = s /\ taskPc[t] # "none"
         /\ broker = "recovering" => Ahead(s)

\* A step that starts no session, moves no thread of a turn and sends none.
Calm ==
    /\ \A s \in Sessions : sessionStatus'[s] = "running" => sessionStatus[s] = "running"
    /\ bound \subseteq bound'
    /\ UNCHANGED <<turnSession, taskPc, rec, broker>>
    /\ \A t \in Turns : turnStatus'[t] # "absent" => turnStatus[t] # "absent"

LEMMA CalmStep ==
    ASSUME RunningInv, Calm
    PROVE  RunningInv'
BY DEF RunningInv, Calm, Ahead

LEMMA CallsAreCalm ==
    ASSUME TypeInv, NEW c \in Callers, CreateStep(c) \/ CancelStep(c) \/ InboxStep(c)
    PROVE  Calm
<1> USE DEF Calm, TypeInv, SessionPart, TurnPart, SetSession, sessionVars, turnVars, taskVars,
            brokerVars
<1>1. CASE CreateStep(c)
  BY <1>1 DEF CreateStep, CreateInsert, CreateRecord, CreateAnswered, CreateBind, CreateAnnounce,
              CreateFinish
<1>2. CASE CancelStep(c)
  <2>1. CASE CancelStore(c)
    BY <2>1 DEF CancelStore, SetTurn, CallPart
  <2> QED  BY <1>2, <2>1 DEF CancelStep, CancelBegin, CancelSweep, CancelRecordRequest,
                             CancelAnswered, CancelRecord, CancelRelease
<1>3. CASE InboxStep(c)
  <2>1. ASSUME NEW s \in Sessions, NEW d \in Dispositions, CloseSession(c, s, d) PROVE Calm
    <3>1. d # "running"
      BY ConstantsAssumption DEF ClosedStatus
    <3> QED  BY <2>1, <3>1 DEF CloseSession
  <2> QED  BY <1>3, <2>1 DEF InboxStep, CloseRecord, ResolveRequest, ResolveRecord, AckInbox,
                             AckRecord
<1> QED  BY <1>1, <1>2, <1>3

LEMMA AskIsCalm ==
    ASSUME NEW r \in Requests, AskStep(r)
    PROVE  Calm
BY DEF AskStep, AskLocate, AskInsert, AskRecord, AskAnswer, AskDeadline, AskExpire, Calm,
       sessionVars, turnVars, taskVars, brokerVars

LEMMA SendRuns ==
    ASSUME TypeInv, RunningInv, NEW t \in Turns, SendStep(t)
    PROVE  RunningInv'
<1> USE DEF RunningInv, TypeInv, TurnPart, TaskPart, sessionVars, turnVars, taskVars, brokerVars
<1>1. ASSUME NEW s \in Sessions, SendInsert(s, t) PROVE RunningInv'
  <2>1. taskPc[t] = "none"
    BY <1>1 DEF SendInsert
  <2>2. \A u \in Turns \ {t} : /\ taskPc'[u] = taskPc[u]
                              /\ turnSession'[u] = turnSession[u]
                              /\ turnStatus'[u] = turnStatus[u]
    BY <1>1 DEF SendInsert
  <2>3. broker = "up" /\ s \in bound /\ turnSession'[t] = s
        /\ UNCHANGED <<sessionStatus, bound, rec, broker>>
    BY <1>1 DEF SendInsert
  <2> QED  BY <2>1, <2>2, <2>3
<1>2. CASE SendQueued(t) \/ SendStarted(t)
  BY <1>2 DEF SendQueued, SendStarted, Ahead
<1>3. CASE SendSpawn(t)
  <2>1. broker = "up"
    BY <1>3 DEF SendSpawn, RecPart
  <2>2. turnSession[t] \in bound
    BY <1>3 DEF SendSpawn
  <2>3. \A u \in Turns : taskPc[u] # "none" => taskPc'[u] # "none"
    BY <1>3 DEF SendSpawn
  <2>4. \A s \in Sessions :
            sessionStatus'[s] = "running" => sessionStatus[s] = "running" \/ s = turnSession[t]
    BY <1>3 DEF SendSpawn, SetSession, SessionPart
  <2>5. UNCHANGED <<bound, turnStatus, turnSession, rec, broker>> /\ taskPc'[t] # "none"
    BY <1>3 DEF SendSpawn
  <2> QED  BY <2>1, <2>2, <2>3, <2>4, <2>5
<1> QED  BY <1>1, <1>2, <1>3 DEF SendStep

\* A thread that goes on within finalize_backend_turn.
LEMMA KeptThread ==
    ASSUME TypeInv, RunningInv, NEW t \in Turns,
           taskPc[t] # "none", taskPc'[t] \in {"returned", "ingesting", "recorded", "stored"},
           \A u \in Turns \ {t} : taskPc'[u] = taskPc[u] /\ turnStatus'[u] = turnStatus[u],
           UNCHANGED <<sessionStatus, bound, turnSession, rec, broker>>
    PROVE  RunningInv'
<1>1. \A u \in Turns : turnStatus'[u] # "absent" => turnSession'[u] \in bound'
  BY DEF RunningInv, TypeInv, TaskPart
<1>2. \A u \in Turns : taskPc[u] # "none" <=> taskPc'[u] # "none"
  OBVIOUS
<1>3. \A s \in Sessions : rec.pc # "awaiting" \/ rec.turn \in Turns => (Ahead(s) => Ahead(s)')
  BY <1>2 DEF Ahead
<1>4. rec.pc = "awaiting" => rec.turn \in Turns
  BY DEF TypeInv, RecPart
<1>5. broker' # "up" => \A u \in Turns : taskPc'[u] # "none" =>
         /\ broker' = "recovering" /\ rec'.pc = "awaiting" /\ rec'.turn = u
         /\ taskPc'[u] \in {"returned", "ingesting", "recorded", "stored"}
  BY <1>2 DEF RunningInv
<1> QED  BY <1>1, <1>2, <1>3, <1>4, <1>5 DEF RunningInv

LEMMA TaskRuns ==
    ASSUME EndsItsTurns, TypeInv, SettledInv, RunningInv, NEW t \in Turns, TaskStep(t)
    PROVE  RunningInv'
<1> USE DEF RunningInv, TypeInv, TurnPart, TaskPart, sessionVars, turnVars, taskVars, brokerVars
<1>1. ASSUME NEW o \in Outcomes, BackendReturns(t, o) PROVE RunningInv'
  BY <1>1 DEF BackendReturns, RecPart
<1>2. CASE IngestEvent(t) \/ RecordOutcome(t) \/ \E r \in Requests : IngestRequest(t, r)
  <2>1. /\ taskPc[t] # "none" /\ taskPc'[t] \in {"returned", "ingesting", "recorded"}
        /\ \A u \in Turns \ {t} : taskPc'[u] = taskPc[u]
        /\ UNCHANGED <<sessionStatus, bound, turnStatus, turnSession, rec, broker>>
    BY <1>2 DEF IngestEvent, RecordOutcome, IngestRequest
  <2> QED  BY <2>1, KeptThread
<1>3. CASE StoreOutcome(t)
  <2>1. /\ taskPc[t] # "none" /\ taskPc'[t] = "stored"
        /\ \A u \in Turns \ {t} : taskPc'[u] = taskPc[u] /\ turnStatus'[u] = turnStatus[u]
        /\ UNCHANGED <<sessionStatus, bound, turnSession, rec, broker>>
    BY <1>3 DEF StoreOutcome, SetTurn
  <2> QED  BY <2>1, KeptThread
<1>4. CASE ReleaseSession(t)
  <2>1. outcome[t] \in {"completed", "failed", "cancelled", "error"}
    BY <1>4 DEF ReleaseSession, SettledInv, EndsItsTurns, BackendOutcome
  <2>2. /\ sessionStatus'[turnSession[t]] # "running"
        /\ \A s \in Sessions : sessionStatus'[s] = "running"
              => s # turnSession[t] /\ sessionStatus[s] = "running"
    BY <1>4, <2>1 DEF ReleaseSession, SetSession, SessionAfter, SessionPart
  <2>3. /\ taskPc'[t] = "none" /\ \A u \in Turns \ {t} : taskPc'[u] = taskPc[u]
        /\ UNCHANGED <<bound, turnStatus, turnSession, rec, broker>>
    BY <1>4 DEF ReleaseSession
  <2>4. broker = "recovering" => rec.pc = "awaiting" /\ rec.turn = t
    BY <1>4 DEF ReleaseSession, RecPart
  <2>5. \A s \in Sessions : s # turnSession[t] /\ broker = "recovering" /\ Ahead(s) => Ahead(s)'
    BY <2>3, <2>4 DEF Ahead
  <2>6. \A s \in Sessions, u \in Turns :
            s # turnSession[t] /\ turnSession[u] = s /\ taskPc[u] # "none" => taskPc'[u] # "none"
    BY <2>3
  <2> QED  BY <2>2, <2>3, <2>5, <2>6
<1> QED  BY <1>1, <1>2, <1>3, <1>4 DEF TaskStep

LEMMA RecoveryRuns ==
    ASSUME EndsItsTurns, TypeInv, RunningInv, RecoveryStep
    PROVE  RunningInv'
<1> USE DEF RunningInv, TypeInv, SessionPart, TurnPart, TaskPart, RecPart, Recovery, Ahead,
            RecStep, RecGoto, SetSession, turnVars, taskVars
<1>1. ASSUME NEW s \in Sessions, RecoverSession(s) PROVE RunningInv'
  <2>1. SupportsResume
    BY DEF EndsItsTurns
  <2>2. rec'.session = s
    BY <1>1, <2>1 DEF RecoverSession
  <2>3. rec'.sessions = rec.sessions \ {s}
    BY <1>1, <2>1 DEF RecoverSession
  <2>4. rec'.pc \in {"resumed", "unresumed"}
    BY <1>1, <2>1 DEF RecoverSession
  <2>5. rec.session = NoSession /\ rec.pc = "turns"
    BY <1>1 DEF RecoverSession
  <2>6. UNCHANGED <<sessionStatus, bound, turnStatus, turnSession, taskPc, broker>>
    BY <1>1 DEF RecoverSession
  <2> QED  BY <2>2, <2>3, <2>4, <2>5, <2>6, ConstantsAssumption
<1>2. CASE RecoverResumed
  <2>1. /\ rec'.session = rec.session /\ rec'.sessions = rec.sessions /\ rec'.turns = rec.turns
        /\ rec.pc = "resumed" /\ rec.session \in Sessions
        /\ rec'.pc = IF Todo = {} THEN "attached" ELSE "turns"
    BY <1>2 DEF RecoverResumed
  <2>2. Todo # {} => \E t \in rec.turns : turnSession[t] = rec.session
    BY <2>1, ConstantsAssumption DEF Todo
  <2>3. UNCHANGED <<sessionStatus, bound, turnStatus, turnSession, taskPc, broker>>
    BY <1>2 DEF RecoverResumed
  <2> QED  BY <2>1, <2>2, <2>3
<1>3. CASE RecoverIdle \/ RecoverDegrade
  BY <1>3 DEF RecoverIdle, RecoverDegrade
<1>4. CASE RecoverUnresumed
  BY <1>4 DEF RecoverUnresumed
<1>5. CASE RecoverSessionDone
  <2>1. \A t \in rec.turns : turnSession[t] # rec.session
    BY <1>5 DEF RecoverSessionDone, Todo
  <2> QED  BY <1>5, <2>1 DEF RecoverSessionDone
<1>6. ASSUME NEW t \in Turns, RecoverReattach(t) PROVE RunningInv'
  <2>1. /\ rec.pc = "turns" /\ rec'.sessions = rec.sessions /\ rec'.session = rec.session
        /\ rec'.turn = t
        /\ \/ rec'.pc = "reattaching" /\ taskPc' = taskPc
           \/ rec'.pc = "awaiting" /\ taskPc' = [taskPc EXCEPT ![t] = "returned"]
        /\ rec.session # NoSession => turnSession[t] = rec.session
    BY <1>6 DEF RecoverReattach, Todo
  <2>2. UNCHANGED <<sessionStatus, bound, turnStatus, turnSession, broker>>
    BY <1>6 DEF RecoverReattach
  <2> QED  BY <2>1, <2>2, ConstantsAssumption
<1>7. ASSUME NEW t \in Turns, RecoverAbort(t) PROVE RunningInv'
  BY <1>7 DEF RecoverAbort, ProcessEnds, NoRecovery, sessionVars
<1>8. ASSUME NEW t \in Turns, RecoverInterrupt(t) PROVE RunningInv'
  <2>1. /\ rec.pc \in {"turns", "reattaching"} /\ rec'.sessions = rec.sessions
        /\ rec'.pc = "marked" /\ rec'.turn = t /\ rec'.session = rec.session
        /\ rec.pc = "reattaching" => t = rec.turn
        /\ rec.pc = "turns" /\ rec.session # NoSession => turnSession[t] = rec.session
    BY <1>8 DEF RecoverInterrupt, Todo
  <2>2. UNCHANGED <<sessionStatus, bound, turnSession, taskPc, broker>>
    BY <1>8 DEF RecoverInterrupt
  <2>3. \A u \in Turns : turnStatus'[u] # "absent" => turnStatus[u] # "absent"
    BY <1>8 DEF RecoverInterrupt, MarkInterrupted, Active, ActiveStatus
  <2> QED  BY <2>1, <2>2, <2>3, ConstantsAssumption
<1>9. CASE RecoverFinalized
  BY <1>9 DEF RecoverFinalized
<1>10. CASE RecoverSweep \/ RecoverRecord \/ \E r \in Requests : RecoverRecordRequest(r)
  <2>1. /\ rec.pc \in {"marked", "swept"} /\ rec'.pc \in {"marked", "swept", "logged"}
        /\ rec'.sessions = rec.sessions /\ rec'.session = rec.session /\ rec'.turn = rec.turn
        /\ UNCHANGED <<sessionStatus, bound, turnStatus, turnSession, taskPc, broker>>
    BY <1>10 DEF RecoverSweep, RecoverRecord, RecoverRecordRequest
  <2> QED  BY <2>1
<1>11. CASE RecoverRelease
  BY <1>11 DEF RecoverRelease
<1>12. CASE Serve
  <2>1. \A s \in Sessions : ~Ahead(s)
    BY <1>12, ConstantsAssumption DEF Serve
  <2> QED  BY <1>12, <2>1 DEF Serve, NoRecovery, sessionVars
<1> QED  BY <1>1, <1>2, <1>3, <1>4, <1>5, <1>6, <1>7, <1>8, <1>9, <1>10, <1>11, <1>12
            DEF RecoveryStep

LEMMA RunningStep ==
    ASSUME EndsItsTurns, TypeInv, SettledInv, RunningInv, [Next]_vars
    PROVE  RunningInv'
<1>1. CASE Crash
  BY <1>1 DEF Crash, ProcessEnds, NoRecovery, RunningInv, sessionVars, turnVars
<1>2. CASE Restart
  <2>1. \A s \in Sessions : sessionStatus[s] = "running" => s \in rec'.sessions
    BY <1>2 DEF Restart, ResumableSessions, ClosedStatus, RunningInv, NoRecovery
  <2> QED  BY <1>2, <2>1 DEF Restart, RunningInv, Ahead, sessionVars, turnVars, taskVars
<1>3. CASE UNCHANGED vars
  BY <1>3 DEF vars, sessionVars, turnVars, taskVars, brokerVars, RunningInv, Ahead
<1> QED  BY <1>1, <1>2, <1>3, CallsAreCalm, AskIsCalm, CalmStep, SendRuns, TaskRuns, RecoveryRuns
            DEF Next

\* With a backend that ends its turns, a session shows as running only while
\* one of its turns has a thread, however sends, cancels, closes, ends of
\* overlapping turns and restarts are interleaved.
THEOREM RunningIsRun == Spec => []RunningSessionHasTask
<1>1. CASE EndsItsTurns
  <2>1. Init => RunningInv
    BY DEF Init, NoRecovery, RunningInv
  <2>2. TypeInv /\ SettledInv /\ RunningInv /\ [Next]_vars => RunningInv'
    BY <1>1, RunningStep
  <2>3. RunningInv => RunningSessionHasTask
    BY DEF RunningInv, RunningSessionHasTask
  <2> QED  BY <1>1, <2>1, <2>2, <2>3, TypeInvariant, SettledAlways, PTL DEF Spec
<1>2. CASE ~EndsItsTurns
  <2>1. RunningSessionHasTask
    BY <1>2 DEF RunningSessionHasTask
  <2> QED  BY <2>1, PTL
<1> QED  BY <1>1, <1>2
=============================================================================
