---------------------------- MODULE LatestOutput ----------------------------
(***************************************************************************)
(* Broker::get_latest_output on one local session: the compact result of a  *)
(* turn, computed from its newest events while the backend's tasks and      *)
(* cancel_turn write its events and its row, each in two store calls.       *)
(*                                                                         *)
(* Of a payload only this is kept: whether it has a non-blank text where    *)
(* the code looks for one.  The first step of the call, mirroring a remote  *)
(* session, is RemoteFederation's.                                          *)
(***************************************************************************)
EXTENDS EventLog

CONSTANTS
    Turns,       \* the session's turns
    Askers,      \* foreground calls
    Streamed,    \* types of event that a backend streams
    Outcomes,    \* what a backend's turn may end with
    Window,      \* how many events are looked at (500)
    MaxEvents,   \* bound: the length of the log that stops the streams
    MaxCancels,  \* bound: cancel_turn calls
    NoTurn       \* no turn, no turn_id

Terminal == {"completed", "failed", "cancelled"}

(* Where a result is looked for, in this order of preference.               *)
Sources == <<{"assistant.message"},
             {"turn.completed", "turn.failed", "turn.cancelled", "message.completed"},
             {"session.error"}>>

(* message.delta stands for the types that are no source, the turn's first  *)
(* events and those of its requests among them.                             *)
Streams == {"assistant.message", "message.completed", "session.error", "message.delta"}

ASSUME OutputAssumption ==
    /\ NoTurn \notin Turns /\ "session" \notin Turns
    /\ Streamed \subseteq Streams
    /\ Outcomes \subseteq Terminal \cup {"needs_input"}
    /\ Window \in Nat \ {0} /\ MaxEvents \in Nat /\ MaxCancels \in Nat

EndOf == [o \in Terminal \cup {"needs_input"} |->
            CASE o = "completed" -> "turn.completed" [] o = "failed" -> "turn.failed"
              [] o = "cancelled" -> "turn.cancelled" [] o = "needs_input" -> "turn.needs_input"]
Ends == {EndOf[o] : o \in Outcomes}

VARIABLES
    turnLog,     \* the events of the session's turns
    row,         \* row[t]: the status of the turn's row
    at,          \* at[t]: its updated_at, in the order of the updates
    task,        \* task[t]: the backend's task, or the outcome it has logged
    cancel,      \* cancel[t]: whether a cancel_turn is between its two calls
    output       \* output[c]: a get_latest_output call, and its reply

outputVars == <<turnLog, row, at, task, cancel, output>>

NoReply == [pc |-> "idle", asked |-> NoTurn, from |-> 0, turn |-> NoTurn,
            status |-> "none", result |-> 0]

OutputInit ==
    /\ turnLog = << >>
    /\ row = [t \in Turns |-> "absent"]
    /\ at = [t \in Turns |-> 0]
    /\ task = [t \in Turns |-> "none"]
    /\ cancel = [t \in Turns |-> "none"]
    /\ output = [c \in Askers |-> NoReply]

Tell(t, type, text) ==
    turnLog' = Append(turnLog, [resource |-> t, parent |-> "session",
                                type |-> type, text |-> text])

(* update_turn_status stamps the row with the time.                         *)
SetTurn(t, status) ==
    /\ row' = [row EXCEPT ![t] = status]
    /\ \E s \in Turns :
         /\ \A u \in Turns : at[u] <= at[s]
         /\ at' = [at EXCEPT ![t] = at[s] + 1]
-----------------------------------------------------------------------------
(* The writers: send_message's rows, and the backend's task.                *)

Send(t) ==
    /\ row[t] = "absent"
    /\ SetTurn(t, "running")
    /\ Tell(t, "message.delta", FALSE)
    /\ task' = [task EXCEPT ![t] = "running"]
    /\ UNCHANGED <<cancel, output>>

(* ingest_backend_event.                                                    *)
Stream(t) ==
    /\ task[t] = "running" /\ Len(turnLog) < MaxEvents
    /\ \E type \in Streamed, text \in BOOLEAN :
         /\ type = "message.delta" => ~text
         /\ Tell(t, type, text)
    /\ UNCHANGED <<row, at, task, cancel, output>>

(* finalize_backend_turn and fail_backend_turn: the event that ends the     *)
(* turn, with a summary or without, ...                                     *)
RecordOutcome(t) ==
    /\ task[t] = "running"
    /\ \E o \in Outcomes, text \in BOOLEAN :
         /\ Tell(t, EndOf[o], text)
         /\ task' = [task EXCEPT ![t] = o]
    /\ UNCHANGED <<row, at, cancel, output>>

\* Mutant: the status is stored when the backend returns, before its events.
StoreOutcomeFirst(t) ==
    \/ /\ task[t] = "running"
       /\ \E o \in Outcomes : SetTurn(t, o)
       /\ row[t] = "running"
       /\ UNCHANGED <<turnLog, task, cancel, output>>
    \/ /\ task[t] \in Outcomes
       /\ SetTurn(t, task[t])
       /\ task' = [task EXCEPT ![t] = "done"]
       /\ UNCHANGED <<turnLog, cancel, output>>

(* ... then its status.                                                     *)
StoreOutcome(t) ==
    /\ task[t] \in Outcomes
    /\ SetTurn(t, task[t])
    /\ task' = [task EXCEPT ![t] = "done"]
    /\ UNCHANGED <<turnLog, cancel, output>>

(* cancel_turn stores the status first, whatever the row held.              *)
StoreCancelled(t) ==
    /\ row[t] # "absent" /\ cancel[t] = "none"
    /\ Cardinality({u \in Turns : cancel[u] # "none"}) < MaxCancels
    /\ SetTurn(t, "cancelled")
    /\ cancel' = [cancel EXCEPT ![t] = "stored"]
    /\ UNCHANGED <<turnLog, task, output>>

RecordCancelled(t) ==
    /\ cancel[t] = "stored"
    /\ Tell(t, "turn.cancelled", FALSE)
    /\ cancel' = [cancel EXCEPT ![t] = "recorded"]
    /\ UNCHANGED <<row, at, task, output>>
-----------------------------------------------------------------------------
(* The call.  Its reply is kept until the caller's next one.                *)

(* asked is the turn_id, NoTurn if there is none; from is what the log held *)
(* when the call began (history).                                           *)
Ask(c) ==
    /\ output[c].pc = "idle"
    /\ \E t \in {NoTurn} \cup {u \in Turns : row[u] # "absent"} :
         output' = [output EXCEPT ![c] = [NoReply EXCEPT !.pc = "select", !.asked = t,
                                                         !.from = Len(turnLog)]]
    /\ UNCHANGED <<turnLog, row, at, task, cancel>>

(* latest_terminal_turn_for_session: the one whose row changed last.        *)
LatestTerminal ==
    LET ended == {t \in Turns : row[t] \in Terminal}
    IN {t \in ended : \A u \in ended : at[u] <= at[t]}

(* The turn's row is read; without a turn to show the reply is empty.       *)
Select(c) ==
    /\ output[c].pc = "select"
    /\ LET named == IF output[c].asked = NoTurn THEN LatestTerminal ELSE {output[c].asked}
       IN \/ /\ named = {}
             /\ output' = [output EXCEPT ![c].pc = "idle"]
          \/ \E t \in named :
               output' = [output EXCEPT ![c].pc = "extract", ![c].turn = t,
                                        ![c].status = row[t]]
    /\ UNCHANGED <<turnLog, row, at, task, cancel>>

Texts(events, i) == {n \in events : turnLog[n].type \in Sources[i] /\ turnLog[n].text}

(* extract_latest_result: the newest text of the first source that has one. *)
Results(events) ==
    {n \in events : \E i \in DOMAIN Sources :
        /\ n \in Texts(events, i)
        /\ \A m \in Texts(events, i) : m <= n
        /\ \A j \in 1 .. i - 1 : Texts(events, j) = {}}

(* latest_output_from_events; without a result the reply asks for the       *)
(* inspection of the events.                                                *)
Extract(c) ==
    /\ output[c].pc = "extract"
    /\ LET found == Results(Recent(turnLog, output[c].turn, Window))
       IN \/ found = {} /\ output' = [output EXCEPT ![c].pc = "idle"]
          \/ \E n \in found : output' = [output EXCEPT ![c].pc = "idle", ![c].result = n]
    /\ UNCHANGED <<turnLog, row, at, task, cancel>>

OutputNext ==
    \/ \E t \in Turns :
         \/ Send(t) \/ Stream(t) \/ RecordOutcome(t) \/ StoreOutcome(t)
         \/ StoreCancelled(t) \/ RecordCancelled(t)
    \/ \E c \in Askers : Ask(c) \/ Select(c) \/ Extract(c)

OutputSpec == OutputInit /\ [][OutputNext]_outputVars
-----------------------------------------------------------------------------
TurnStatus == {"running", "needs_input"} \cup Terminal

(* A call without a turn_id only ever shows a turn that has ended.          *)
OutputTypeOK ==
    /\ turnLog \in Seq([resource : Turns, parent : {"session"}, text : BOOLEAN,
                    type : Streams \cup Ends \cup {"turn.cancelled"}])
    /\ row \in [Turns -> TurnStatus \cup {"absent"}]
    /\ at \in [Turns -> Nat]
    /\ task \in [Turns -> {"none", "running", "done"} \cup Outcomes]
    /\ cancel \in [Turns -> {"none", "stored", "recorded"}]
    /\ \A c \in Askers :
         /\ output[c].pc \in {"idle", "select", "extract"}
         /\ output[c].asked \in Turns \cup {NoTurn} /\ output[c].turn \in Turns \cup {NoTurn}
         /\ output[c].status \in IF output[c].turn = NoTurn THEN {"none"}
                               ELSE IF output[c].asked = NoTurn THEN Terminal ELSE TurnStatus
         /\ output[c].from \in 0 .. Len(turnLog) /\ output[c].result \in 0 .. Len(turnLog)

Replies == {c \in Askers : output[c].pc = "idle" /\ output[c].turn # NoTurn}
EventsOf(c) == Matching(turnLog, output[c].turn, 0)

(* A text that was there when the call began is not missed: the result is   *)
(* at least as good a source and, of that source, as new, unless a full     *)
(* window of later events hides the text.  So "inspection required" is said *)
(* of a turn only if it has no text that can be seen.                       *)
OutputIsFresh ==
    \A c \in Replies : \A i \in DOMAIN Sources : \A n \in Texts(EventsOf(c), i) :
        \/ n > output[c].from
        \/ Cardinality({m \in EventsOf(c) : m > n}) >= Window
        \/ \E j \in 1 .. i : /\ output[c].result \in Texts(EventsOf(c), j)
                             /\ j = i => n <= output[c].result

(* A reply that shows a turn as completed or failed shows its final result: *)
(* however calls and writes interleave, no later call would find another,   *)
(* as long as the turn's events fit in the window.                          *)
FinishedOutputIsFinal ==
    \A c \in Replies :
        /\ output[c].status \in {"completed", "failed"}
        /\ Cardinality(EventsOf(c)) <= Window
        => Results(Recent(turnLog, output[c].turn, Window)) = {output[c].result} \ {0}

=============================================================================
