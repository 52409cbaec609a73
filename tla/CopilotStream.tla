---------------------------- MODULE CopilotStream ----------------------------
(***************************************************************************)
(* The Copilot adapter's send_message and cancel_turn on one session.  Each *)
(* send reads, from the moment it subscribes, the stream of events that the *)
(* session emits, passes them on to the event log, and returns at the first *)
(* event that ends a turn.  The stream is a broadcast ring: a reader that   *)
(* falls behind loses its oldest events and is told how many.               *)
(*                                                                         *)
(* The agent is external, and modelled by what terminal_status reads into   *)
(* its events: it works on one message at a time, emits a last event for    *)
(* it, and "session.idle" when it has nothing left to do.  The events do    *)
(* not say which message they belong to.                                    *)
(***************************************************************************)
EXTENDS Naturals, Sequences

CONSTANTS
    Sends,       \* calls of send_message
    Capacity,    \* events that the ring keeps
    MaxEvents    \* bound: events that are numbered; past them there is only progress

ASSUME StreamAssumption ==
    /\ Capacity \in Nat /\ Capacity >= 2    \* the last event of a turn and session.idle
    /\ MaxEvents \in Nat /\ "none" \notin Sends

VARIABLES
    attached,    \* the sessions map has an SDK session for the backend session
    stream,      \* the kinds of the events emitted so far
    closed,      \* the stream has ended: the SDK's process is gone
    queue,       \* messages the agent has accepted and not begun
    working,     \* the message it works on, or "none"
    idleDue,     \* it has ended a turn and not emitted session.idle since
    outcome,     \* outcome[t]: what became of t's message, or "none"
    send,        \* send[t]: where t is in send_message
    from,        \* from[t]: events emitted before t subscribed
    pos,         \* pos[t]: the last event that t has been given, or has lost
    passed,      \* passed[t]: events that t passed on
    skipped,     \* skipped[t]: events that t reported as lost
    more,        \* the sends that have progress past the bound still to read
    told,        \* told[t]: what t returned, or "none"
    mixed        \* sends that overlapped another, or found the agent busy (history)

agentVars == <<stream, closed, queue, working, idleDue, outcome>>
readVars == <<from, pos, passed, skipped, more>>
vars == <<attached, agentVars, send, readVars, told, mixed>>

Verdicts == {"completed", "cancelled", "failed"}
InFlight == {t \in Sends : send[t] \in {"subscribed", "sent", "receive"}}
Quiet == working = "none" /\ queue = <<>> /\ ~idleDue

Init ==
    /\ attached = FALSE /\ closed = FALSE /\ idleDue = FALSE
    /\ stream = <<>> /\ queue = <<>> /\ working = "none" /\ mixed = {} /\ more = {}
    /\ outcome = [t \in Sends |-> "none"]
    /\ send = [t \in Sends |-> "idle"]
    /\ told = [t \in Sends |-> "none"]
    /\ from = [t \in Sends |-> 0] /\ pos = [t \in Sends |-> 0]
    /\ passed = [t \in Sends |-> 0] /\ skipped = [t \in Sends |-> 0]

\* terminal_status: "none" for an event that ends no turn.
TerminalStatus(kind) ==
    CASE kind \in {"assistant.turn_end", "session.idle"} -> "completed"
      [] kind = "abort" -> "cancelled"
      [] kind = "session.error" -> "failed"
      [] OTHER -> "none"
-----------------------------------------------------------------------------
(* The agent.                                                              *)

Emit(kind) ==
    /\ ~closed /\ Len(stream) < MaxEvents
    /\ stream' = Append(stream, kind)
    /\ UNCHANGED <<attached, closed, send, readVars, told, mixed>>

AgentBegins ==
    /\ ~closed /\ working = "none" /\ queue # <<>>
    /\ working' = Head(queue) /\ queue' = Tail(queue)
    /\ UNCHANGED <<attached, stream, closed, idleDue, outcome, send, readVars, told, mixed>>

\* A message, a tool's output, an error that the agent tries again after.
AgentWorks ==
    /\ working # "none"
    /\ Emit("progress")
    /\ UNCHANGED <<queue, working, idleDue, outcome>>

\* It may go on for ever: past the bound its events are not numbered.
AgentWorksOn ==
    /\ working # "none" /\ ~closed /\ Len(stream) = MaxEvents
    /\ more' = InFlight
    /\ UNCHANGED <<attached, agentVars, send, from, pos, passed, skipped, told, mixed>>

EndsWith(kind) ==
    /\ working # "none"
    /\ Emit(kind)
    /\ outcome' = [outcome EXCEPT ![working] = TerminalStatus(kind)]
    /\ working' = "none" /\ idleDue' = TRUE
    /\ UNCHANGED queue
AgentEnds == EndsWith("assistant.turn_end") \/ EndsWith("session.error")

AgentIdles ==
    /\ idleDue /\ working = "none"
    /\ Emit("session.idle")
    /\ idleDue' = FALSE
    /\ UNCHANGED <<queue, working, outcome>>

\* cancel_turn: it aborts whatever the session works on.
CancelTurn == attached /\ EndsWith("abort")

StreamCloses ==
    /\ attached /\ ~closed
    /\ closed' = TRUE
    /\ UNCHANGED <<attached, stream, queue, working, idleDue, outcome, send, readVars, told, mixed>>
-----------------------------------------------------------------------------
(* The adapter.                                                            *)

\* create_session or resume_session.
Attach ==
    /\ ~attached /\ attached' = TRUE
    /\ UNCHANGED <<agentVars, send, readVars, told, mixed>>

Return(t, status) ==
    /\ send' = [send EXCEPT ![t] = "ended"]
    /\ told' = [told EXCEPT ![t] = status]

NotAttached(t) ==
    /\ send[t] = "idle" /\ ~attached
    /\ Return(t, "error")
    /\ UNCHANGED <<attached, agentVars, readVars, mixed>>

Subscribe(t) ==
    /\ send[t] = "idle" /\ attached
    /\ send' = [send EXCEPT ![t] = "subscribed"]
    /\ from' = [from EXCEPT ![t] = Len(stream)]
    /\ pos' = [pos EXCEPT ![t] = Len(stream)]
    /\ mixed' = IF Quiet /\ InFlight = {} THEN mixed ELSE mixed \cup {t} \cup InFlight
    /\ UNCHANGED <<attached, agentVars, passed, skipped, more, told>>

SendToAgent(t) ==
    /\ send[t] = "subscribed" /\ ~closed
    /\ queue' = Append(queue, t)
    /\ send' = [send EXCEPT ![t] = "sent"]
    /\ UNCHANGED <<attached, stream, closed, working, idleDue, outcome, readVars, told, mixed>>

SendFails(t) ==
    /\ send[t] = "subscribed"
    /\ Return(t, "error")
    /\ UNCHANGED <<attached, agentVars, readVars, mixed>>

\* turn.dispatched goes to the log first.
Dispatched(t) ==
    /\ send[t] = "sent"
    /\ send' = [send EXCEPT ![t] = "receive"]
    /\ UNCHANGED <<attached, agentVars, readVars, told, mixed>>

\* The event sink stores the event; if that fails, so does the turn.
SinkFails(t) ==
    /\ send[t] = "sent" \/ (send[t] = "receive" /\ pos[t] < Len(stream))
    /\ Return(t, "error")
    /\ UNCHANGED <<attached, agentVars, readVars, mixed>>

Oldest == IF Len(stream) > Capacity THEN Len(stream) - Capacity ELSE 0
Lost(t) == pos[t] < Oldest

\* Mutant: the loss is not reported.
LaggedInSilence(t) ==
    /\ send[t] = "receive" /\ Lost(t)
    /\ pos' = [pos EXCEPT ![t] = Oldest]
    /\ UNCHANGED <<attached, agentVars, send, from, passed, skipped, more, told, mixed>>

\* Mutant: a reader that has lost events goes on with the newest.
LaggedToNewest(t) ==
    /\ send[t] = "receive" /\ Lost(t)
    /\ pos' = [pos EXCEPT ![t] = Len(stream) - 1]
    /\ skipped' = [skipped EXCEPT ![t] = @ + (Len(stream) - 1 - pos[t])]
    /\ UNCHANGED <<attached, agentVars, send, from, passed, more, told, mixed>>

Lagged(t) ==
    /\ send[t] = "receive" /\ Lost(t)
    /\ pos' = [pos EXCEPT ![t] = Oldest]
    /\ skipped' = [skipped EXCEPT ![t] = @ + (Oldest - pos[t])]
    /\ UNCHANGED <<attached, agentVars, send, from, passed, more, told, mixed>>

Receive(t) ==
    /\ send[t] = "receive" /\ ~Lost(t) /\ pos[t] < Len(stream)
    /\ pos' = [pos EXCEPT ![t] = @ + 1]
    /\ passed' = [passed EXCEPT ![t] = @ + 1]
    /\ LET status == TerminalStatus(stream[pos[t] + 1])
       IN IF status = "none" THEN UNCHANGED <<send, told>> ELSE Return(t, status)
    /\ UNCHANGED <<attached, agentVars, from, skipped, more, mixed>>

ReceiveMore(t) ==
    /\ send[t] = "receive" /\ pos[t] = Len(stream) /\ t \in more
    /\ more' = more \ {t}
    /\ UNCHANGED <<attached, agentVars, send, from, pos, passed, skipped, told, mixed>>

CaughtUp(t) == pos[t] = Len(stream) /\ t \notin more

\* Mutant: there is no time-out.
GivesUpWhenClosed(t) ==
    /\ send[t] = "receive" /\ CaughtUp(t) /\ closed
    /\ Return(t, "error")
    /\ UNCHANGED <<attached, agentVars, readVars, mixed>>

\* The stream has ended, or says nothing for an hour since the last event.
GivesUp(t) ==
    /\ send[t] = "receive" /\ CaughtUp(t)
    /\ Return(t, "error")
    /\ UNCHANGED <<attached, agentVars, readVars, mixed>>

SendStep(t) ==
    \/ NotAttached(t) \/ Subscribe(t) \/ SendToAgent(t) \/ SendFails(t) \/ Dispatched(t)
    \/ SinkFails(t) \/ Lagged(t) \/ Receive(t) \/ ReceiveMore(t) \/ GivesUp(t)

Next ==
    \/ Attach \/ CancelTurn \/ StreamCloses
    \/ AgentBegins \/ AgentWorks \/ AgentWorksOn \/ AgentEnds \/ AgentIdles
    \/ \E t \in Sends : SendStep(t)

\* Once the SDK has accepted the message, the adapter's task runs, and time
\* passes.  That the SDK answers at all is not assumed (its send has no
\* time-out), nor that the agent ever ends, pauses or says anything.
Loop(t) == Dispatched(t) \/ Lagged(t) \/ Receive(t) \/ ReceiveMore(t) \/ GivesUp(t)

Spec == Init /\ [][Next]_vars /\ \A t \in Sends : WF_vars(Loop(t))
-----------------------------------------------------------------------------
TypeOK ==
    /\ attached \in BOOLEAN /\ closed \in BOOLEAN /\ idleDue \in BOOLEAN
    /\ stream \in Seq({"progress", "assistant.turn_end", "session.error", "session.idle", "abort"})
    /\ queue \in Seq(Sends) /\ working \in Sends \cup {"none"}
    /\ outcome \in [Sends -> Verdicts \cup {"none"}]
    /\ send \in [Sends -> {"idle", "subscribed", "sent", "receive", "ended"}]
    /\ from \in [Sends -> Nat] /\ pos \in [Sends -> Nat]
    /\ passed \in [Sends -> Nat] /\ skipped \in [Sends -> Nat]
    /\ told \in [Sends -> Verdicts \cup {"none", "error"}]
    /\ mixed \subseteq Sends /\ more \subseteq Sends

(* However far a send falls behind, what it passed on and what it reported  *)
(* as lost ("subscription.lagged") make up everything since it subscribed:  *)
(* the event log has no gap that it does not name.                          *)
NoSilentGap ==
    \A t \in Sends : pos[t] = from[t] + passed[t] + skipped[t] /\ pos[t] <= Len(stream)

(* The verdict that the broker stores for a turn is what the agent did with *)
(* it, also when events were lost or a cancel came late, unless the send    *)
(* returns an error.  Nothing is claimed for a send that overlaps another   *)
(* one, or that subscribes before the last turn's session.idle: it may      *)
(* return at an event of the other turn.                                    *)
Claim ==
    [t \in Sends |->
        IF told[t] # "none" /\ (t \in mixed \/ told[t] = "error") THEN "unsure" ELSE told[t]]
Promise == INSTANCE BackendContract WITH outcome <- outcome, told <- Claim
KeepsBackendContract == Promise!ContractSpec

(* A send whose message the SDK has accepted returns, unless the agent works *)
(* on for ever: it reads on to an end, or to the end of the stream, or gives *)
(* up after an hour without an event, whatever it has lost.  The hour starts *)
(* again with each event, so an agent that never pauses keeps its send.      *)
SendEnds ==
    \A t \in Sends : []<><<AgentWorksOn>>_vars \/ (send[t] = "sent" ~> send[t] = "ended")
=============================================================================
