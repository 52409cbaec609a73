----------------------------- MODULE EventReads -----------------------------
(***************************************************************************)
(* Broker::read_events over the events of one session: the broker, the      *)
(* backend's tasks and the request broker append to the log while           *)
(* foreground agents page through it, each with a target, a type filter and *)
(* the next_cursor of its previous reply.                                   *)
(***************************************************************************)
EXTENDS EventLog

CONSTANTS
    Readers,     \* the foreground agents
    Target,      \* [Readers -> resources]: the session, or the turn
    Types,       \* [Readers -> sets of types]: event_types, {} for no filter
    Limit,       \* the page size, min(limit, 500)
    MaxLog       \* bound: events appended in a behaviour

Ev(resource, parent, type) ==
    [resource |-> resource, parent |-> parent, type |-> type]

(* What the code appends for one session with one turn and its requests.    *)
(* The backend's types are the two kinds a filter tells apart: the many     *)
(* deltas and the one completion.                                           *)
SessionEvents == {Ev("session", "none", "session.status_changed")}
TurnEvents    == {Ev("turn", "session", "message.delta"),
                  Ev("turn", "session", "turn.completed")}
RequestEvents == {Ev("request", "turn", "request.created"),
                  Ev("request", "session", "request.created"),
                  Ev("request", "session", "request.resolved"),
                  Ev("request", "turn", "request.cancelled")}
Events == SessionEvents \cup TurnEvents \cup RequestEvents

Resources  == {"session", "turn", "request"}
EventTypes == {e.type : e \in Events}

ASSUME ReadersAssumption ==
    /\ Target \in [Readers -> Resources]
    /\ Types \in [Readers -> SUBSET EventTypes]
    /\ Limit \in Nat \ {0}
    /\ MaxLog \in Nat

VARIABLES
    log,        \* the events table, by server_seq
    call,       \* call[r]: no call, a read_events call polling, or answered
    cursor,     \* cursor[r]: the cursor of r's next or present call
    start,      \* start[r]: the cursor r began with (history)
    reply,      \* reply[r]: the seqs of the events r's latest call returned
    got         \* got[r]: every seq r was given (history)

vars == <<log, call, cursor, start, reply, got>>

Init ==
    /\ log = << >>
    /\ call = [r \in Readers |-> "new"]
    /\ cursor = [r \in Readers |-> 0]
    /\ start = [r \in Readers |-> 0]
    /\ reply = [r \in Readers |-> {}]
    /\ got = [r \in Readers |-> {}]

(* append_event, by any of its callers.                                     *)
AppendEvent ==
    /\ Len(log) < MaxLog
    /\ \E e \in Events : log' = Append(log, e)
    /\ UNCHANGED <<call, cursor, start, reply, got>>

(* r takes its first cursor: zero, or the event_cursor of an earlier reply  *)
(* or of the session's row, each the server_seq of some appended event.     *)
StartReading(r) ==
    /\ call[r] = "new"
    /\ \E c \in 0 .. Len(log) :
         /\ cursor' = [cursor EXCEPT ![r] = c]
         /\ start' = [start EXCEPT ![r] = c]
    /\ call' = [call EXCEPT ![r] = "idle"]
    /\ UNCHANGED <<log, reply, got>>

(* r calls read_events, done with the reply of its previous call.           *)
CallReadEvents(r) ==
    /\ call[r] = "idle"
    /\ call' = [call EXCEPT ![r] = "polling"]
    /\ reply' = [reply EXCEPT ![r] = {}]
    /\ UNCHANGED <<log, cursor, start, got>>

Found(r) == ReadEvents(log, Target[r], cursor[r], Limit, Types[r])

(* A poll that finds events answers the call; next_cursor is the server_seq *)
(* of the last event returned.                                              *)
AnswerEvents(r) ==
    /\ call[r] = "polling"
    /\ \E last \in Found(r) :
         /\ \A n \in Found(r) : n <= last
         /\ cursor' = [cursor EXCEPT ![r] = last]
    /\ reply' = [reply EXCEPT ![r] = Found(r)]
    /\ got' = [got EXCEPT ![r] = @ \cup Found(r)]
    /\ call' = [call EXCEPT ![r] = "idle"]
    /\ UNCHANGED <<log, start>>

\* Mutant: the deadline is looked at before the events.
AnswerNoneInTime(r) ==
    /\ call[r] = "polling"
    /\ call' = [call EXCEPT ![r] = "idle"]
    /\ UNCHANGED <<log, cursor, start, reply, got>>

(* A poll that finds none answers when wait_ms is zero or has passed, with  *)
(* the request's cursor; else the call sleeps and polls again.              *)
AnswerNone(r) ==
    /\ call[r] = "polling"
    /\ Found(r) = {}
    /\ call' = [call EXCEPT ![r] = "idle"]
    /\ UNCHANGED <<log, cursor, start, reply, got>>

Reader(r) == CallReadEvents(r) \/ AnswerEvents(r) \/ AnswerNone(r)

Next ==
    \/ AppendEvent
    \/ \E r \in Readers : StartReading(r) \/ Reader(r)

(* An agent that began to read goes on calling, and a call polls every      *)
(* 25 ms until it answers.  Nothing obliges anyone to append.               *)
Spec == Init /\ [][Next]_vars /\ \A r \in Readers : WF_vars(Reader(r))
-----------------------------------------------------------------------------
TypeOK ==
    /\ log \in Seq(Events)
    /\ Len(log) <= MaxLog
    /\ call \in [Readers -> {"new", "idle", "polling"}]
    /\ cursor \in [Readers -> 0 .. Len(log)]
    /\ start \in [Readers -> 0 .. Len(log)]
    /\ reply \in [Readers -> SUBSET (1 .. Len(log))]
    /\ got \in [Readers -> SUBSET (1 .. Len(log))]

(* The seqs of the events after r's first cursor that r asked for.          *)
Wanted(r) ==
    {n \in Matching(log, Target[r], start[r]) : Passes(log[n], Types[r])}

(* Paging loses nothing: what an agent has been given is, at every moment,  *)
(* every wanted event up to its cursor and no other, however appends fall   *)
(* between its polls.                                                       *)
GapFree ==
    \A r \in Readers : got[r] = {n \in Wanted(r) : n <= cursor[r]}

(* A reply never repeats an event nor goes back: its events follow all that *)
(* the agent was given before, so an agent can apply them as they come.     *)
DeliveredInOrder ==
    [][\A r \in Readers : call[r] = "polling" /\ call'[r] = "idle" =>
        \A n \in reply'[r], m \in got[r] : m < n]_vars

(* An agent that reads without a filter is given every event of its target. *)
UnfilteredReaderIsServed ==
    \A r \in {x \in Readers : Types[x] = {}} : \A n \in 1 .. MaxLog :
        n \in Wanted(r) /\ call[r] # "new" ~> n \in got[r]
=============================================================================
