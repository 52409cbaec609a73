-------------------------- MODULE RemoteFederation --------------------------
(***************************************************************************)
(* One session that a home broker runs on a remote one.  The home broker    *)
(* keeps its own rows and a link from each to its remote counterpart;       *)
(* send_message and cancel_turn are forwarded, and every session-targeted   *)
(* read first mirrors the remote log from the cursor the session's link     *)
(* holds.  The remote broker is the environment: it executes what reaches   *)
(* it, and its turns end when they end.  Replies may be lost, and the home  *)
(* broker may crash between any two store calls.                            *)
(*                                                                         *)
(* The model starts when the session is linked, and leaves requests out:    *)
(* the event that creates one is a child of its turn, so no page of the     *)
(* session holds it, and mirroring its resolution stores nothing else.      *)
(***************************************************************************)
EXTENDS EventLog

CONSTANTS
    Callers,     \* foreground calls that may run at the same time
    Ops,         \* operation ids of send_message calls; a call may be retried
    MaxTurns,    \* bound: home turns, one for each attempt at an operation
    MaxLog,      \* bound: length of the remote log that lets a delta be logged
    PageLimit,   \* the limit of a mirroring read (500 in the code)
    Outcomes,    \* the types of event a remote turn may end with
    MaxCrashes, MaxLost, MaxCancels,   \* bounds on each kind of event
    Patient,     \* TRUE: the foreground sends only when no turn is active
    NoOp         \* no operation

Turns == 1 .. MaxTurns       \* rows of the home store, and the remote turns
NoTurn == 0

(* The remote session is resource 0, its turns are numbered from 1.         *)
RemoteSession == 0
RemoteEvent(w, type) == [resource |-> w, parent |-> RemoteSession, type |-> type]

(* The turn status that mirroring an event of a linked turn stores; other   *)
(* types store none.                                                        *)
Verdict == [type \in {"turn.completed", "turn.failed", "turn.cancelled", "turn.needs_input"} |->
              CASE type = "turn.completed"   -> "completed"
                [] type = "turn.failed"      -> "failed"
                [] type = "turn.cancelled"   -> "cancelled"
                [] type = "turn.needs_input" -> "needs_input"]

ASSUME FederationAssumption ==
    /\ MaxTurns \in Nat /\ MaxLog \in Nat /\ PageLimit \in Nat \ {0}
    /\ MaxCrashes \in Nat /\ MaxLost \in Nat /\ MaxCancels \in Nat
    /\ Outcomes \subseteq DOMAIN Verdict
    /\ Patient \in BOOLEAN
    /\ NoOp \notin Ops

ActiveStatus == {"running", "needs_input"}
TurnStatus == ActiveStatus \cup {"absent", "completed", "failed", "cancelled", "degraded"}
SessionStatus == {"idle", "running", "needs_input", "degraded"}

VARIABLES
    \* the remote broker
    rlog,        \* its events of this session
    work,        \* work[w]: the operation that remote turn w was sent for
    ended,       \* remote turns whose backend has returned
    \* the home store
    turn,        \* turn[t]: status of the row, "absent" before it is inserted
    session,     \* status of the session's row
    link,        \* link[t]: the remote turn t is linked to, NoTurn if none
    cursor,      \* remote_cursor of the session's link
    op,          \* op[o]: status of the forwarded operation
    mirrored,    \* seqs of the remote events that the home log holds
    repeated,    \* those that it holds more than once
    \* the home broker's calls
    call,        \* call[c]: where c's call is, and what it holds
    spent        \* how many of each bounded event have happened

remoteVars == <<rlog, work, ended>>
rowVars == <<turn, session, link, cursor, op>>
mirrorVars == <<mirrored, repeated>>
vars == <<remoteVars, rowVars, mirrorVars, call, spent>>

Idle == [pc |-> "idle", op |-> NoOp, turn |-> NoTurn, work |-> NoTurn,
         cursor |-> 0, page |-> {}]

(* new_session and create_remote_session leave the link at the cursor of    *)
(* session.created, here 0.                                                 *)
Init ==
    /\ rlog = << >> /\ work = << >> /\ ended = {}
    /\ turn = [t \in Turns |-> "absent"]
    /\ session = "idle"
    /\ link = [t \in Turns |-> NoTurn]
    /\ cursor = 0
    /\ op = [o \in Ops |-> "absent"]
    /\ mirrored = {} /\ repeated = {}
    /\ call = [c \in Callers |-> Idle]
    /\ spent = [crashes |-> 0, lost |-> 0, cancels |-> 0]

At(c, pc) == call[c].pc = pc
Go(c, pc) == call' = [call EXCEPT ![c].pc = pc]
Return(c) == call' = [call EXCEPT ![c] = Idle]
Active(t) == turn[t] \in ActiveStatus
Works == DOMAIN work

(* A reply of the remote broker does not arrive, or its call fails.         *)
Lose ==
    /\ spent.lost < MaxLost
    /\ spent' = [spent EXCEPT !.lost = @ + 1]
-----------------------------------------------------------------------------
(* The remote broker.                                                       *)

(* The backend streams an event of a turn.                                  *)
RemoteDelta ==
    /\ Len(rlog) < MaxLog
    /\ \E w \in Works \ ended : rlog' = Append(rlog, RemoteEvent(w, "message.delta"))
    /\ UNCHANGED <<work, ended, rowVars, mirrorVars, call, spent>>

(* The backend's turn ends, cancelled before or not.                        *)
RemoteEnds(w) ==
    /\ w \in Works \ ended
    /\ \E type \in Outcomes : rlog' = Append(rlog, RemoteEvent(w, type))
    /\ ended' = ended \cup {w}
    /\ UNCHANGED <<work, rowVars, mirrorVars, call, spent>>

(* The remote send_message: a new turn, with turn.started as its newest     *)
(* event.  The operation id it is called with is not looked at.             *)
RemoteSend(o) ==
    /\ work' = Append(work, o)
    /\ rlog' = rlog \o <<RemoteEvent(Len(work) + 1, "turn.queued"),
                         RemoteEvent(Len(work) + 1, "turn.started")>>
-----------------------------------------------------------------------------
(* Broker::send_remote_message.                                             *)

(* The call of an operation already applied returns the stored reply and    *)
(* changes nothing, so it is left out; any other goes on.                   *)
SendBegin(c, o) ==
    /\ At(c, "idle")
    /\ op[o] # "applied"
    /\ \E t \in Turns : turn[t] = "absent"
    /\ Patient => \A t \in Turns : ~Active(t)
    /\ call' = [call EXCEPT ![c] = [Idle EXCEPT !.pc = "record", !.op = o]]
    /\ UNCHANGED <<remoteVars, rowVars, mirrorVars, spent>>

SendRecord(c) ==
    /\ At(c, "record")
    /\ op' = [op EXCEPT ![call[c].op] = "pending"]
    /\ Go(c, "insert")
    /\ UNCHANGED <<remoteVars, turn, session, link, cursor, mirrorVars, spent>>

(* insert_turn, running from the start; its id is the next free one.        *)
SendInsert(c) ==
    /\ At(c, "insert")
    /\ \E t \in Turns :
         /\ turn[t] = "absent"
         /\ \A s \in Turns : s < t => turn[s] # "absent"
         /\ turn' = [turn EXCEPT ![t] = "running"]
         /\ call' = [call EXCEPT ![c].turn = t, ![c].pc = "announce"]
    /\ UNCHANGED <<remoteVars, session, link, cursor, op, mirrorVars, spent>>

(* The home log's turn.queued and turn.started, then the session's status.  *)
SendAnnounce(c) ==
    /\ At(c, "announce")
    /\ session' = "running"
    /\ Go(c, "forward")
    /\ UNCHANGED <<remoteVars, turn, link, cursor, op, mirrorVars, spent>>

SendForwarded(c) ==
    /\ At(c, "forward")
    /\ RemoteSend(call[c].op)
    /\ call' = [call EXCEPT ![c].pc = "link", ![c].work = Len(work) + 1,
                            ![c].cursor = Len(rlog) + 2]
    /\ UNCHANGED <<ended, rowVars, mirrorVars, spent>>

(* The call fails, before or after the remote broker has done the work.     *)
SendFails(c) ==
    /\ At(c, "forward")
    /\ Lose
    /\ RemoteSend(call[c].op) \/ UNCHANGED <<rlog, work>>
    /\ Go(c, "degrade")
    /\ UNCHANGED <<ended, rowVars, mirrorVars>>

SendDegradeTurn(c) ==
    /\ At(c, "degrade")
    /\ turn' = [turn EXCEPT ![call[c].turn] = "degraded"]
    /\ Go(c, "degradeSession")
    /\ UNCHANGED <<remoteVars, session, link, cursor, op, mirrorVars, spent>>

(* Then the turn.degraded event, and the error is returned.                 *)
SendDegradeSession(c) ==
    /\ At(c, "degradeSession")
    /\ session' = "degraded"
    /\ Return(c)
    /\ UNCHANGED <<remoteVars, turn, link, cursor, op, mirrorVars, spent>>

SendLink(c) ==
    /\ At(c, "link")
    /\ link' = [link EXCEPT ![call[c].turn] = call[c].work]
    /\ Go(c, "setCursor")
    /\ UNCHANGED <<remoteVars, turn, session, cursor, op, mirrorVars, spent>>

(* The session's cursor becomes that of the reply: the remote turn.started. *)
SendCursor(c) ==
    /\ At(c, "setCursor")
    /\ cursor' = call[c].cursor
    /\ Go(c, "applied")
    /\ UNCHANGED <<remoteVars, turn, session, link, op, mirrorVars, spent>>

SendApplied(c) ==
    /\ At(c, "applied")
    /\ op' = [op EXCEPT ![call[c].op] = "applied"]
    /\ Return(c)
    /\ UNCHANGED <<remoteVars, turn, session, link, cursor, mirrorVars, spent>>

Send(c) ==
    \/ SendRecord(c) \/ SendInsert(c) \/ SendAnnounce(c) \/ SendForwarded(c)
    \/ SendDegradeTurn(c) \/ SendDegradeSession(c)
    \/ SendLink(c) \/ SendCursor(c) \/ SendApplied(c)
-----------------------------------------------------------------------------
(* Broker::sync_remote_session_events, the first thing a session-targeted   *)
(* read_events or get_latest_output does.                                   *)

ReadBegin(c) ==
    /\ At(c, "idle")
    /\ call' = [call EXCEPT ![c] = [Idle EXCEPT !.pc = "read", !.cursor = cursor]]
    /\ UNCHANGED <<remoteVars, rowVars, mirrorVars, spent>>

(* The remote read_events answers with a page and its next_cursor.          *)
ReadAnswered(c) ==
    /\ At(c, "read")
    /\ LET page == ReadEvents(rlog, RemoteSession, call[c].cursor, PageLimit, {})
           next == {call[c].cursor} \cup page
       IN \E last \in next :
            /\ \A n \in next : n <= last
            /\ call' = [call EXCEPT ![c].pc = "mirror", ![c].page = page,
                                    ![c].cursor = last]
    /\ UNCHANGED <<remoteVars, rowVars, mirrorVars, spent>>

(* The call fails: session.degraded is logged and the stale rows are read.  *)
ReadFails(c) ==
    /\ At(c, "read")
    /\ Lose
    /\ Return(c)
    /\ UNCHANGED <<remoteVars, rowVars, mirrorVars>>

Oldest(page) == CHOOSE n \in page : \A m \in page : n <= m

\* Mutant: a failed turn has no branch of its own.
MirrorEventButFailures(c) ==
    /\ At(c, "mirror")
    /\ call[c].page # {}
    /\ LET n == Oldest(call[c].page)
           linked == {t \in Turns : link[t] = rlog[n].resource /\ link[t] # NoTurn}
       IN /\ mirrored' = mirrored \cup {n}
          /\ repeated' = repeated \cup ({n} \cap mirrored)
          /\ IF linked # {} /\ rlog[n].type \in DOMAIN Verdict \ {"turn.failed"}
             THEN \E t \in linked :
                    call' = [call EXCEPT ![c].pc = "mirrorTurn", ![c].turn = t]
             ELSE call' = [call EXCEPT ![c].page = @ \ {n}]
    /\ UNCHANGED <<remoteVars, rowVars, spent>>

(* mirror_remote_event: the links are looked up and the event is appended,  *)
(* on the linked turn or else on the session.                               *)
MirrorEvent(c) ==
    /\ At(c, "mirror")
    /\ call[c].page # {}
    /\ LET n == Oldest(call[c].page)
           linked == {t \in Turns : link[t] = rlog[n].resource /\ link[t] # NoTurn}
       IN /\ mirrored' = mirrored \cup {n}
          /\ repeated' = repeated \cup ({n} \cap mirrored)
          /\ IF linked # {} /\ rlog[n].type \in DOMAIN Verdict
             THEN \E t \in linked :
                    call' = [call EXCEPT ![c].pc = "mirrorTurn", ![c].turn = t]
             ELSE call' = [call EXCEPT ![c].page = @ \ {n}]
    /\ UNCHANGED <<remoteVars, rowVars, spent>>

(* ... then its verdict is stored in the turn's row, ...                    *)
MirrorTurn(c) ==
    /\ At(c, "mirrorTurn")
    /\ LET n == Oldest(call[c].page)
       IN turn' = [turn EXCEPT ![call[c].turn] = Verdict[rlog[n].type]]
    /\ Go(c, "mirrorSession")
    /\ UNCHANGED <<remoteVars, session, link, cursor, op, mirrorVars, spent>>

(* ... and in the session's, whatever other turns of it are doing.          *)
MirrorSession(c) ==
    /\ At(c, "mirrorSession")
    /\ LET n == Oldest(call[c].page)
       IN /\ session' = IF rlog[n].type = "turn.needs_input" THEN "needs_input" ELSE "idle"
          /\ call' = [call EXCEPT ![c].pc = "mirror", ![c].page = @ \ {n}]
    /\ UNCHANGED <<remoteVars, turn, link, cursor, op, mirrorVars, spent>>

\* Mutant: the stored cursor is the seq before the last one read.
ReadCursorBehind(c) ==
    /\ At(c, "mirror")
    /\ call[c].page = {}
    /\ cursor' = IF call[c].cursor > cursor THEN call[c].cursor - 1 ELSE cursor
    /\ Return(c)
    /\ UNCHANGED <<remoteVars, turn, session, link, op, mirrorVars, spent>>

(* The link's cursor is stored once, after the page.                        *)
ReadCursor(c) ==
    /\ At(c, "mirror")
    /\ call[c].page = {}
    /\ cursor' = call[c].cursor
    /\ Return(c)
    /\ UNCHANGED <<remoteVars, turn, session, link, op, mirrorVars, spent>>

Read(c) ==
    \/ ReadAnswered(c) \/ MirrorEvent(c) \/ MirrorTurn(c) \/ MirrorSession(c)
    \/ ReadCursor(c)
-----------------------------------------------------------------------------
(* Broker::cancel_turn on a linked turn, whatever its status: it is looked  *)
(* up by its id, and its cancel forwarded.  A turn without a link is not    *)
(* forwarded; the local path finds no backend session and changes nothing.  *)
(* The record of a cancel's operation is left out: nothing reads it.        *)

CancelBegin(c) ==
    /\ At(c, "idle")
    /\ spent.cancels < MaxCancels
    /\ \E t \in Turns :
         /\ link[t] # NoTurn
         /\ call' = [call EXCEPT ![c] = [Idle EXCEPT !.pc = "cancel", !.turn = t]]
    /\ spent' = [spent EXCEPT !.cancels = @ + 1]
    /\ UNCHANGED <<remoteVars, rowVars, mirrorVars>>

(* The remote cancel_turn stores the verdict and logs it.                   *)
RemoteCancel(w) == rlog' = Append(rlog, RemoteEvent(w, "turn.cancelled"))

CancelForwarded(c) ==
    /\ At(c, "cancel")
    /\ RemoteCancel(link[call[c].turn])
    /\ Go(c, "cancelTurn")
    /\ UNCHANGED <<work, ended, rowVars, mirrorVars, spent>>

CancelFails(c) ==
    /\ At(c, "cancel")
    /\ Lose
    /\ RemoteCancel(link[call[c].turn]) \/ UNCHANGED rlog
    /\ Return(c)
    /\ UNCHANGED <<work, ended, rowVars, mirrorVars>>

CancelTurn(c) ==
    /\ At(c, "cancelTurn")
    /\ turn' = [turn EXCEPT ![call[c].turn] = "cancelled"]
    /\ Go(c, "cancelSession")
    /\ UNCHANGED <<remoteVars, session, link, cursor, op, mirrorVars, spent>>

CancelSession(c) ==
    /\ At(c, "cancelSession")
    /\ session' = "idle"
    /\ Return(c)
    /\ UNCHANGED <<remoteVars, turn, link, cursor, op, mirrorVars, spent>>

Cancel(c) == CancelForwarded(c) \/ CancelTurn(c) \/ CancelSession(c)
-----------------------------------------------------------------------------
\* Mutant: start-up leaves the turns of sessions it cannot resume.
RestartLeavesTurns ==
    /\ spent.crashes < MaxCrashes
    /\ spent' = [spent EXCEPT !.crashes = @ + 1]
    /\ call' = [c \in Callers |-> Idle]
    /\ UNCHANGED <<remoteVars, turn, session, link, cursor, op, mirrorVars>>

(* The home broker stops between two store calls and starts again.  A       *)
(* remote session has no backend session id, so start-up resumes nothing of *)
(* it and fails its active turns (in the steps of TurnLifecycle, here one); *)
(* their links stay.                                                        *)
CrashAndRestart ==
    /\ spent.crashes < MaxCrashes
    /\ spent' = [spent EXCEPT !.crashes = @ + 1]
    /\ turn' = [t \in Turns |-> IF Active(t) THEN "failed" ELSE turn[t]]
    /\ session' = IF \E t \in Turns : Active(t) THEN "idle" ELSE session
    /\ call' = [c \in Callers |-> Idle]
    /\ UNCHANGED <<remoteVars, link, cursor, op, mirrorVars>>

Step(c) == Send(c) \/ Read(c) \/ Cancel(c)

Next ==
    \/ RemoteDelta
    \/ \E w \in Works : RemoteEnds(w)
    \/ \E c \in Callers :
         \/ Step(c)
         \/ ReadBegin(c) \/ CancelBegin(c) \/ \E o \in Ops : SendBegin(c, o)
         \/ SendFails(c) \/ ReadFails(c) \/ CancelFails(c)
    \/ CrashAndRestart

(* Remote turns end, started calls go on to their return, and a foreground  *)
(* that has nothing else to do reads again.  Sends, cancels, lost replies   *)
(* and crashes need not happen.                                             *)
Spec ==
    /\ Init /\ [][Next]_vars
    /\ \A w \in Turns : WF_vars(RemoteEnds(w))
    /\ \A c \in Callers : WF_vars(Step(c) \/ ReadBegin(c))
-----------------------------------------------------------------------------
Pcs == {"idle", "record", "insert", "announce", "forward", "degrade", "degradeSession",
        "link", "setCursor", "applied", "read", "mirror", "mirrorTurn", "mirrorSession",
        "cancel", "cancelTurn", "cancelSession"}

TypeOK ==
    /\ rlog \in Seq([resource : Works, parent : {RemoteSession},
                     type : {"turn.queued", "turn.started", "message.delta"}
                              \cup DOMAIN Verdict])
    /\ work \in Seq(Ops)
    /\ ended \subseteq Works
    /\ turn \in [Turns -> TurnStatus]
    /\ session \in SessionStatus
    /\ link \in [Turns -> {NoTurn} \cup Works]
    /\ cursor \in 0 .. Len(rlog)
    /\ op \in [Ops -> {"absent", "pending", "applied"}]
    /\ mirrored \subseteq DOMAIN rlog
    /\ repeated \subseteq mirrored
    /\ call \in [Callers -> [pc : Pcs, op : Ops \cup {NoOp}, turn : {NoTurn} \cup Turns,
                            work : {NoTurn} \cup Works, cursor : 0 .. Len(rlog),
                            page : SUBSET DOMAIN rlog]]
    /\ spent \in [crashes : 0 .. MaxCrashes, lost : 0 .. MaxLost, cancels : 0 .. MaxCancels]

(* The verdicts on turn t that the remote log holds up to seq n.            *)
VerdictsUpTo(t, n) ==
    {m \in DOMAIN rlog : m <= n /\ rlog[m].resource = link[t] /\ rlog[m].type \in DOMAIN Verdict}

(* A linked turn never shows what the remote broker did not decide, nor     *)
(* stays active once its verdict is behind the cursor, where no later read  *)
(* looks: it runs and no verdict has been passed, or has one of its         *)
(* verdicts, or a restart of the home broker failed it.                     *)
HomeReflectsRemote ==
    \A t \in {s \in Turns : link[s] # NoTurn} :
        \/ turn[t] = "running" /\ VerdictsUpTo(t, cursor) = {}
        \/ \E m \in VerdictsUpTo(t, Len(rlog)) : turn[t] = Verdict[rlog[m].type]
        \/ turn[t] = "failed" /\ spent.crashes > 0

(* "mirror unseen events locally": as long as the home broker does not      *)
(* crash, no remote event is mirrored twice.                                *)
MirroredOnce == spent.crashes = 0 => repeated = {}

(* A turn that the home store shows as running is settled in the end:       *)
(* mirrored, degraded, cancelled, or failed by a restart.                   *)
HomeTurnSettles == \A t \in Turns : turn[t] = "running" ~> turn[t] # "running"

=============================================================================
