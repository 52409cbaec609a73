------------------------ MODULE CopilotStreamProofs ------------------------
(***************************************************************************)
(* For every number of sends, every length of the stream and every ring of  *)
(* at least two events: what a send passes on has no silent gap, and the    *)
(* adapter refines BackendContract.                                         *)
(***************************************************************************)
EXTENDS CopilotStream, TLAPS

(* Where a send is in send_message says what it has read and returned.      *)
Threads ==
    \A t \in Sends :
        /\ send[t] = "ended" <=> told[t] # "none"
        /\ send[t] = "idle" => passed[t] = 0 /\ skipped[t] = 0 /\ pos[t] = 0 /\ from[t] = 0
        /\ send[t] \in {"idle", "subscribed"} => outcome[t] = "none"

(* The agent has a message once, and has not yet brought it to an end.      *)
Agent ==
    /\ working # "none" =>
         outcome[working] = "none" /\ send[working] \notin {"idle", "subscribed"}
    /\ \A i \in 1 .. Len(queue) :
         /\ outcome[queue[i]] = "none" /\ queue[i] # working
         /\ send[queue[i]] \notin {"idle", "subscribed"}
         /\ \A j \in 1 .. Len(queue) : queue[i] = queue[j] => i = j

(* A send that overlaps no other has the agent to itself, ...               *)
Alone(t) ==
    /\ \A u \in InFlight : u = t
    /\ working \in {"none", t}
    /\ \A i \in 1 .. Len(queue) : queue[i] = t
    /\ send[t] = "subscribed" => Quiet /\ pos[t] = Len(stream)

(* ... before its message ends there is nothing ahead of it but progress, ... *)
NothingAhead(t) ==
    /\ ~idleDue
    /\ \A k \in 1 .. Len(stream) : pos[t] < k => stream[k] = "progress"

(* ... and afterwards the event that says how is within the ring and ahead,  *)
(* followed by session.idle at most.                                        *)
EndAhead(t) ==
    /\ working = "none" /\ queue = <<>>
    /\ \E k \in 1 .. Len(stream) :
         /\ pos[t] < k /\ Len(stream) <= k + 1
         /\ TerminalStatus(stream[k]) = outcome[t]
         /\ idleDue => k = Len(stream)
         /\ \A j \in 1 .. Len(stream) : pos[t] < j /\ j < k => stream[j] = "progress"

Ahead(t) == IF outcome[t] = "none" THEN NothingAhead(t) ELSE EndAhead(t)

Apart == \A t \in InFlight \ mixed : Alone(t) /\ Ahead(t)

IInv == TypeOK /\ Threads /\ Agent /\ NoSilentGap /\ Apart

(* What the agent emits.                                                    *)
Kinds == {"progress", "assistant.turn_end", "session.error", "session.idle", "abort"}

(* terminal_status is a verdict, or says that the turn goes on.             *)
LEMMA StatusType == \A kind \in Kinds : TerminalStatus(kind) \in Verdicts \cup {"none"}
BY DEF TerminalStatus, Verdicts, Kinds

(* The size of a gap.                                                        *)
LEMMA Difference ==
    ASSUME NEW a \in Nat, NEW b \in Nat, b < a
    PROVE  a - b \in Nat /\ b + (a - b) = a
OBVIOUS

(* Progress past the bound changes nothing else.                             *)
LEMMA PastTheBound ==
    ASSUME AgentWorksOn \/ \E t \in Sends : ReceiveMore(t)
    PROVE  /\ UNCHANGED <<attached, agentVars, send, from, pos, passed, skipped, told, mixed>>
           /\ more' \subseteq Sends \cup more
BY DEF AgentWorksOn, ReceiveMore, InFlight

(* Nothing is ahead of anybody at first.                                     *)
LEMMA InitInv == Init => IInv
<1> SUFFICES ASSUME Init PROVE IInv
  OBVIOUS
<1> USE DEF Init
<1>0. Len(stream) = 0 /\ stream \in Seq(Kinds) /\ queue \in Seq(Sends)
  OBVIOUS
<1>1. TypeOK
  BY <1>0 DEF TypeOK, Verdicts, Kinds
<1>2. Threads /\ Agent
  BY DEF Threads, Agent
<1>3. NoSilentGap
  <2> SUFFICES ASSUME NEW t \in Sends
               PROVE  pos[t] = from[t] + passed[t] + skipped[t] /\ pos[t] <= Len(stream)
    BY DEF NoSilentGap
  <2>1. pos[t] = 0 /\ from[t] = 0 /\ passed[t] = 0 /\ skipped[t] = 0
    OBVIOUS
  <2> HIDE DEF Init
  <2> QED  BY <1>0, <2>1
<1>4. Apart
  BY DEF Apart, InFlight
<1> QED  BY <1>1, <1>2, <1>3, <1>4 DEF IInv

(* Types. *)
LEMMA TypeInv == IInv /\ [Next]_vars => TypeOK'
<1> SUFFICES ASSUME TypeOK, [Next]_vars PROVE TypeOK'
  BY DEF IInv
<1> USE DEF TypeOK, agentVars, readVars, Verdicts
<1>1. ASSUME Attach PROVE TypeOK'
  BY <1>1 DEF Attach
<1>2. ASSUME CancelTurn PROVE TypeOK'
  BY <1>2 DEF CancelTurn, EndsWith, Emit, TerminalStatus
<1>3. ASSUME StreamCloses PROVE TypeOK'
  BY <1>3 DEF StreamCloses
<1>4. ASSUME AgentBegins PROVE TypeOK'
  BY <1>4 DEF AgentBegins
<1>5. ASSUME AgentWorks PROVE TypeOK'
  BY <1>5 DEF AgentWorks, Emit
<1>6. ASSUME AgentEnds PROVE TypeOK'
  <2> SUFFICES ASSUME NEW kind \in Kinds, EndsWith(kind), TerminalStatus(kind) # "none"
               PROVE  TypeOK'
    BY <1>6 DEF AgentEnds, Kinds, TerminalStatus
  <2>1. stream' \in Seq(Kinds)
    BY DEF EndsWith, Emit, Kinds
  <2>2. outcome' \in [Sends -> Verdicts \cup {"none"}]
    BY StatusType DEF EndsWith
  <2> QED  BY <2>1, <2>2 DEF EndsWith, Emit, Kinds
<1>7. ASSUME AgentIdles PROVE TypeOK'
  <2>1. stream' \in Seq(Kinds)
    BY <1>7 DEF AgentIdles, Emit, Kinds
  <2> QED  BY <1>7, <2>1 DEF AgentIdles, Emit, Kinds
<1>8. ASSUME NEW t \in Sends, NotAttached(t) PROVE TypeOK'
  BY <1>8 DEF NotAttached, Return
<1>9. ASSUME NEW t \in Sends, Subscribe(t) PROVE TypeOK'
  <2>1. Len(stream) \in Nat
    OBVIOUS
  <2>2. from' \in [Sends -> Nat] /\ pos' \in [Sends -> Nat] /\ mixed' \subseteq Sends
    BY <1>9, <2>1 DEF Subscribe, InFlight
  <2> QED  BY <1>9, <2>2 DEF Subscribe
<1>10. ASSUME NEW t \in Sends, SendToAgent(t) PROVE TypeOK'
  BY <1>10 DEF SendToAgent
<1>11. ASSUME NEW t \in Sends, SendFails(t) PROVE TypeOK'
  BY <1>11 DEF SendFails, Return
<1>12. ASSUME NEW t \in Sends, Dispatched(t) PROVE TypeOK'
  BY <1>12 DEF Dispatched
<1>13. ASSUME NEW t \in Sends, SinkFails(t) PROVE TypeOK'
  BY <1>13 DEF SinkFails, Return
<1>14. ASSUME NEW t \in Sends, Lagged(t) PROVE TypeOK'
  <2>1. Oldest \in Nat /\ Oldest <= Len(stream) /\ Len(stream) \in Nat
    BY StreamAssumption DEF Oldest
  <2>2. pos[t] \in Nat /\ skipped[t] \in Nat /\ pos[t] < Oldest
    BY <1>14 DEF Lagged, Lost
  <2> DEFINE n == Oldest - pos[t]
  <2>3. n \in Nat /\ pos[t] + n = Oldest
    BY <2>1, <2>2, Difference
  <2>4. /\ pos' = [pos EXCEPT ![t] = Oldest]
        /\ skipped' = [skipped EXCEPT ![t] = skipped[t] + n]
        /\ UNCHANGED <<attached, agentVars, send, from, passed, more, told, mixed>>
    BY <1>14 DEF Lagged
  <2>5. skipped[t] + n \in Nat
    BY <2>2, <2>3
  <2> HIDE DEF n
  <2>6. pos' \in [Sends -> Nat] /\ skipped' \in [Sends -> Nat]
    BY <2>1, <2>4, <2>5
  <2> QED  BY <2>4, <2>6
<1>15. ASSUME NEW t \in Sends, Receive(t) PROVE TypeOK'
  <2>1. stream[pos[t] + 1] \in Kinds
    BY <1>15 DEF Receive, Kinds
  <2>2. TerminalStatus(stream[pos[t] + 1]) \in Verdicts \cup {"none"}
    BY <2>1, StatusType
  <2>3. pos' \in [Sends -> Nat] /\ passed' \in [Sends -> Nat]
    BY <1>15 DEF Receive
  <2>4. UNCHANGED <<attached, agentVars, from, skipped, more, mixed>>
    BY <1>15 DEF Receive
  <2>5. /\ send' \in [Sends -> {"idle", "subscribed", "sent", "receive", "ended"}]
        /\ told' \in [Sends -> Verdicts \cup {"none", "error"}]
    BY <1>15, <2>2 DEF Receive, Return
  <2> QED  BY <2>3, <2>4, <2>5
<1>16. ASSUME NEW t \in Sends, GivesUp(t) PROVE TypeOK'
  BY <1>16 DEF GivesUp, Return
<1>17. ASSUME UNCHANGED vars PROVE TypeOK'
  BY <1>17 DEF vars
<1>18. ASSUME AgentWorksOn \/ \E t \in Sends : ReceiveMore(t) PROVE TypeOK'
  BY <1>18, PastTheBound
<1> QED  BY <1>1, <1>2, <1>3, <1>4, <1>5, <1>6, <1>7, <1>8, <1>9, <1>10, <1>11, <1>12, <1>13, <1>14, <1>15, <1>16, <1>17, <1>18 DEF Next, SendStep

(* What a thread has read and returned. *)
LEMMA ThreadsInv == IInv /\ [Next]_vars => Threads'
<1> SUFFICES ASSUME TypeOK, Threads, Agent, [Next]_vars PROVE Threads'
  BY DEF IInv
<1> USE DEF TypeOK, Threads, Agent, agentVars, readVars, Verdicts
<1>1. ASSUME Attach PROVE Threads'
  BY <1>1 DEF Attach
<1>2. ASSUME CancelTurn PROVE Threads'
  BY <1>2 DEF CancelTurn, EndsWith, Emit, TerminalStatus
<1>3. ASSUME StreamCloses PROVE Threads'
  BY <1>3 DEF StreamCloses
<1>4. ASSUME AgentBegins PROVE Threads'
  BY <1>4 DEF AgentBegins
<1>5. ASSUME AgentWorks PROVE Threads'
  BY <1>5 DEF AgentWorks, Emit
<1>6. ASSUME AgentEnds PROVE Threads'
  BY <1>6 DEF AgentEnds, EndsWith, Emit, TerminalStatus
<1>7. ASSUME AgentIdles PROVE Threads'
  BY <1>7 DEF AgentIdles, Emit
<1>8. ASSUME NEW t \in Sends, NotAttached(t) PROVE Threads'
  BY <1>8 DEF NotAttached, Return
<1>9. ASSUME NEW t \in Sends, Subscribe(t) PROVE Threads'
  BY <1>9 DEF Subscribe
<1>10. ASSUME NEW t \in Sends, SendToAgent(t) PROVE Threads'
  BY <1>10 DEF SendToAgent
<1>11. ASSUME NEW t \in Sends, SendFails(t) PROVE Threads'
  BY <1>11 DEF SendFails, Return
<1>12. ASSUME NEW t \in Sends, Dispatched(t) PROVE Threads'
  BY <1>12 DEF Dispatched
<1>13. ASSUME NEW t \in Sends, SinkFails(t) PROVE Threads'
  BY <1>13 DEF SinkFails, Return
<1>14. ASSUME NEW t \in Sends, Lagged(t) PROVE Threads'
  BY <1>14 DEF Lagged, Lost, Oldest
<1>15. ASSUME NEW t \in Sends, Receive(t) PROVE Threads'
  BY <1>15 DEF Receive, Return
<1>16. ASSUME NEW t \in Sends, GivesUp(t) PROVE Threads'
  BY <1>16 DEF GivesUp, Return
<1>17. ASSUME UNCHANGED vars PROVE Threads'
  BY <1>17 DEF vars
<1>18. ASSUME AgentWorksOn \/ \E t \in Sends : ReceiveMore(t) PROVE Threads'
  BY <1>18, PastTheBound
<1> QED  BY <1>1, <1>2, <1>3, <1>4, <1>5, <1>6, <1>7, <1>8, <1>9, <1>10, <1>11, <1>12, <1>13, <1>14, <1>15, <1>16, <1>17, <1>18 DEF Next, SendStep

(* A reader counts what it passes on, and what the ring has lost. *)
LEMMA GapInv == IInv /\ [Next]_vars => NoSilentGap'
<1> SUFFICES ASSUME TypeOK, Threads, NoSilentGap, [Next]_vars PROVE NoSilentGap'
  BY DEF IInv
<1> USE DEF TypeOK, Threads, NoSilentGap, agentVars, readVars
<1>1. ASSUME Attach PROVE NoSilentGap'
  BY <1>1 DEF Attach
<1>2. ASSUME CancelTurn PROVE NoSilentGap'
  BY <1>2 DEF CancelTurn, EndsWith, Emit
<1>3. ASSUME StreamCloses PROVE NoSilentGap'
  BY <1>3 DEF StreamCloses
<1>4. ASSUME AgentBegins PROVE NoSilentGap'
  BY <1>4 DEF AgentBegins
<1>5. ASSUME AgentWorks PROVE NoSilentGap'
  BY <1>5 DEF AgentWorks, Emit
<1>6. ASSUME AgentEnds PROVE NoSilentGap'
  BY <1>6 DEF AgentEnds, EndsWith, Emit
<1>7. ASSUME AgentIdles PROVE NoSilentGap'
  BY <1>7 DEF AgentIdles, Emit
<1>8. ASSUME NEW t \in Sends, NotAttached(t) PROVE NoSilentGap'
  BY <1>8 DEF NotAttached, Return
<1>9. ASSUME NEW t \in Sends, Subscribe(t) PROVE NoSilentGap'
  BY <1>9 DEF Subscribe
<1>10. ASSUME NEW t \in Sends, SendToAgent(t) PROVE NoSilentGap'
  BY <1>10 DEF SendToAgent
<1>11. ASSUME NEW t \in Sends, SendFails(t) PROVE NoSilentGap'
  BY <1>11 DEF SendFails, Return
<1>12. ASSUME NEW t \in Sends, Dispatched(t) PROVE NoSilentGap'
  BY <1>12 DEF Dispatched
<1>13. ASSUME NEW t \in Sends, SinkFails(t) PROVE NoSilentGap'
  BY <1>13 DEF SinkFails, Return
<1>14. ASSUME NEW t \in Sends, Lagged(t) PROVE NoSilentGap'
  <2>1. Oldest \in Nat /\ Oldest <= Len(stream) /\ Len(stream) \in Nat
    BY StreamAssumption DEF Oldest
  <2>2. pos[t] \in Nat /\ skipped[t] \in Nat /\ pos[t] < Oldest
    BY <1>14 DEF Lagged, Lost
  <2> DEFINE n == Oldest - pos[t]
  <2>3. n \in Nat /\ pos[t] + n = Oldest
    BY <2>1, <2>2, Difference
  <2>4. /\ pos' = [pos EXCEPT ![t] = Oldest]
        /\ skipped' = [skipped EXCEPT ![t] = skipped[t] + n]
        /\ UNCHANGED <<attached, agentVars, send, from, passed, told, mixed>>
    BY <1>14 DEF Lagged
  <2> HIDE DEF n
  <2> SUFFICES ASSUME NEW u \in Sends
               PROVE  /\ pos'[u] = from'[u] + passed'[u] + skipped'[u]
                      /\ pos'[u] <= Len(stream')
    BY DEF NoSilentGap
  <2>5. from[u] \in Nat /\ passed[u] \in Nat /\ skipped[u] \in Nat
    OBVIOUS
  <2>6. pos[u] = from[u] + passed[u] + skipped[u] /\ pos[u] <= Len(stream)
    OBVIOUS
  <2>7. pos'[u] = IF u = t THEN Oldest ELSE pos[u]
    BY <2>4
  <2>8. skipped'[u] = IF u = t THEN skipped[u] + n ELSE skipped[u]
    BY <2>4
  <2>9. from' = from /\ passed' = passed /\ stream' = stream
    BY <2>4
  <2> HIDE DEF TypeOK, NoSilentGap, Threads, agentVars, readVars
  <2> QED  BY <2>1, <2>2, <2>3, <2>5, <2>6, <2>7, <2>8, <2>9
<1>15. ASSUME NEW t \in Sends, Receive(t) PROVE NoSilentGap'
  <2>1. UNCHANGED <<stream, from, skipped>>
    BY <1>15 DEF Receive
  <2>2. /\ pos' = [pos EXCEPT ![t] = @ + 1] /\ passed' = [passed EXCEPT ![t] = @ + 1]
        /\ pos[t] < Len(stream)
    BY <1>15 DEF Receive
  <2>3. Len(stream) \in Nat
    OBVIOUS
  <2> SUFFICES ASSUME NEW u \in Sends
               PROVE  /\ pos'[u] = from'[u] + passed'[u] + skipped'[u]
                      /\ pos'[u] <= Len(stream')
    BY DEF NoSilentGap
  <2>4. /\ from[u] \in Nat /\ passed[u] \in Nat /\ skipped[u] \in Nat /\ pos[u] <= Len(stream)
        /\ pos[u] = from[u] + passed[u] + skipped[u]
    OBVIOUS
  <2>5. /\ pos'[u] = IF u = t THEN pos[u] + 1 ELSE pos[u]
        /\ passed'[u] = IF u = t THEN passed[u] + 1 ELSE passed[u]
    BY <2>2
  <2> HIDE DEF TypeOK, NoSilentGap, Threads, agentVars, readVars
  <2> QED  BY <2>1, <2>2, <2>3, <2>4, <2>5
<1>16. ASSUME NEW t \in Sends, GivesUp(t) PROVE NoSilentGap'
  BY <1>16 DEF GivesUp, Return
<1>17. ASSUME UNCHANGED vars PROVE NoSilentGap'
  BY <1>17 DEF vars
<1>18. ASSUME AgentWorksOn \/ \E t \in Sends : ReceiveMore(t) PROVE NoSilentGap'
  BY <1>18, PastTheBound DEF NoSilentGap
<1> QED  BY <1>1, <1>2, <1>3, <1>4, <1>5, <1>6, <1>7, <1>8, <1>9, <1>10, <1>11, <1>12, <1>13, <1>14, <1>15, <1>16, <1>17, <1>18 DEF Next, SendStep

(* A step that leaves the agent alone, and takes no send back, ...            *)
LEMMA AgentKept ==
    ASSUME TypeOK, Agent, UNCHANGED <<queue, working, outcome>>,
           \A t \in Sends : send'[t] \in {"idle", "subscribed"} => send[t] \in {"idle", "subscribed"}
    PROVE  Agent'
<1>1. \A i \in 1 .. Len(queue) : queue[i] \in Sends
  BY DEF TypeOK
<1>2. working # "none" => working \in Sends
  BY DEF TypeOK
<1> QED  BY <1>1, <1>2 DEF Agent

(* ... and the end of the message that it works on.                          *)
LEMMA AgentAfterEnd ==
    ASSUME TypeOK, Agent, NEW kind, EndsWith(kind)
    PROVE  Agent'
<1>1. /\ working \in Sends /\ working' = "none"
      /\ outcome' = [outcome EXCEPT ![working] = TerminalStatus(kind)]
      /\ UNCHANGED <<queue, send>>
  BY DEF TypeOK, EndsWith, Emit
<1>2. \A i \in 1 .. Len(queue) : queue[i] \in Sends /\ queue[i] # working /\ queue[i] # "none"
  BY StreamAssumption DEF TypeOK, Agent
<1>3. \A i \in 1 .. Len(queue) : outcome'[queue[i]] = outcome[queue[i]]
  BY <1>1, <1>2 DEF TypeOK
<1> QED  BY <1>1, <1>2, <1>3 DEF Agent

(* A message is with the agent once. *)
LEMMA AgentInv == IInv /\ [Next]_vars => Agent'
<1> SUFFICES ASSUME TypeOK, Threads, Agent, [Next]_vars PROVE Agent'
  BY DEF IInv
<1> USE DEF agentVars, readVars
<1>1. ASSUME Attach \/ StreamCloses \/ AgentWorks \/ AgentIdles PROVE Agent'
  <2>1. UNCHANGED <<queue, working, outcome, send>>
    BY <1>1 DEF Attach, StreamCloses, AgentWorks, AgentIdles, Emit
  <2> QED  BY <2>1, AgentKept
<1>2. ASSUME NEW t \in Sends,
             NotAttached(t) \/ SendFails(t) \/ SinkFails(t) \/ GivesUp(t) \/ Receive(t)
      PROVE  Agent'
  <2>1. /\ UNCHANGED <<queue, working, outcome>>
        /\ send' = send \/ send' = [send EXCEPT ![t] = "ended"]
    BY <1>2 DEF NotAttached, SendFails, SinkFails, GivesUp, Receive, Return
  <2>2. \A u \in Sends : send'[u] = send[u] \/ send'[u] = "ended"
    BY <2>1 DEF TypeOK
  <2> QED  BY <2>1, <2>2, AgentKept
<1>3. ASSUME NEW t \in Sends, Subscribe(t) \/ Dispatched(t) \/ Lagged(t) PROVE Agent'
  <2>1. /\ UNCHANGED <<queue, working, outcome>>
        /\ \/ send[t] = "idle" /\ send' = [send EXCEPT ![t] = "subscribed"]
           \/ send' = [send EXCEPT ![t] = "receive"]
           \/ send' = send
    BY <1>3 DEF Subscribe, Dispatched, Lagged
  <2>2. \A u \in Sends : send'[u] \in {"idle", "subscribed"} => send[u] \in {"idle", "subscribed"}
    BY <2>1 DEF TypeOK
  <2> QED  BY <2>1, <2>2, AgentKept
<1>4. ASSUME UNCHANGED vars PROVE Agent'
  BY <1>4, AgentKept DEF vars
<1> USE DEF TypeOK, Threads, Agent
<1>5. ASSUME AgentBegins PROVE Agent'
  <2>1. /\ working = "none" /\ queue # <<>> /\ Len(queue) \in Nat
        /\ working' = Head(queue) /\ queue' = Tail(queue)
        /\ UNCHANGED <<outcome, send>>
    BY <1>5 DEF AgentBegins
  <2>2. Len(queue) >= 1 /\ Head(queue) = queue[1]
    BY <2>1
  <2>3. Len(Tail(queue)) = Len(queue) - 1
    BY <2>1
  <2>4. \A i \in 1 .. Len(Tail(queue)) : i + 1 \in 1 .. Len(queue) /\ Tail(queue)[i] = queue[i + 1]
    BY <2>1, <2>3
  <2>5. \A i \in 1 .. Len(queue) :
           /\ outcome[queue[i]] = "none" /\ send[queue[i]] \notin {"idle", "subscribed"}
           /\ \A j \in 1 .. Len(queue) : queue[i] = queue[j] => i = j
    OBVIOUS
  <2>6. 1 \in 1 .. Len(queue)
    BY <2>1, <2>2
  <2>7. working' # "none" =>
          outcome'[working'] = "none" /\ send'[working'] \notin {"idle", "subscribed"}
    BY <2>1, <2>2, <2>5, <2>6
  <2>8. ASSUME NEW i \in 1 .. Len(queue')
        PROVE  /\ outcome'[queue'[i]] = "none" /\ queue'[i] # working'
               /\ send'[queue'[i]] \notin {"idle", "subscribed"}
               /\ \A j \in 1 .. Len(queue') : queue'[i] = queue'[j] => i = j
    <3>1. i + 1 \in 1 .. Len(queue) /\ queue'[i] = queue[i + 1] /\ i \in Nat /\ i + 1 # 1
      BY <2>1, <2>3, <2>4
    <3>2. queue[i + 1] # queue[1]
      BY <3>1, <2>5, <2>6
    <3>3. ASSUME NEW j \in 1 .. Len(queue'), queue'[i] = queue'[j] PROVE i = j
      <4>1. j + 1 \in 1 .. Len(queue) /\ queue'[j] = queue[j + 1] /\ j \in Nat
        BY <2>1, <2>3, <2>4
      <4>2. i + 1 = j + 1
        BY <3>1, <3>3, <4>1, <2>5
      <4> QED  BY <3>1, <4>1, <4>2
    <3> QED  BY <3>1, <3>2, <3>3, <2>1, <2>2, <2>5
  <2> QED  BY <2>7, <2>8
<1>6. ASSUME CancelTurn PROVE Agent'
  BY <1>6, AgentAfterEnd DEF CancelTurn
<1>7. ASSUME AgentEnds PROVE Agent'
  BY <1>7, AgentAfterEnd DEF AgentEnds
<1>8. ASSUME NEW t \in Sends, SendToAgent(t) PROVE Agent'
  <2>1. /\ send[t] = "subscribed" /\ queue' = Append(queue, t)
        /\ send' = [send EXCEPT ![t] = "sent"]
        /\ UNCHANGED <<working, outcome>>
    BY <1>8 DEF SendToAgent
  <2>2. /\ Len(queue) \in Nat /\ Len(queue') = Len(queue) + 1 /\ queue'[Len(queue) + 1] = t
        /\ \A i \in 1 .. Len(queue) : queue'[i] = queue[i] /\ queue[i] \in Sends
    BY <2>1
  <2>3. working # t /\ \A i \in 1 .. Len(queue) : queue[i] # t
    <3> HIDE DEF TypeOK, Threads
    <3> QED  BY <2>1, StreamAssumption
  <2>4. outcome[t] = "none"
    <3> HIDE DEF TypeOK, Agent
    <3> QED  BY <2>1
  <2>5. working' # "none" =>
          outcome'[working'] = "none" /\ send'[working'] \notin {"idle", "subscribed"}
    BY <2>1, <2>3
  <2>6. ASSUME NEW i \in 1 .. Len(queue')
        PROVE  /\ outcome'[queue'[i]] = "none" /\ queue'[i] # working'
               /\ send'[queue'[i]] \notin {"idle", "subscribed"}
               /\ \A j \in 1 .. Len(queue') : queue'[i] = queue'[j] => i = j
    <3> DEFINE q == queue'[i]
    <3>1. q \in Sends /\ outcome[q] = "none" /\ q # working
      <4>1. i \in 1 .. Len(queue) \/ i = Len(queue) + 1
        BY <2>2
      <4>2. CASE i \in 1 .. Len(queue)
        BY <4>2, <2>1, <2>2
      <4>3. CASE i = Len(queue) + 1
        BY <4>3, <2>1, <2>2, <2>3, <2>4
      <4> QED  BY <4>1, <4>2, <4>3
    <3>2. send'[q] \notin {"idle", "subscribed"}
      BY <3>1, <2>1, <2>2
    <3>3. ASSUME NEW j \in 1 .. Len(queue'), q = queue'[j] PROVE i = j
      <4> HIDE DEF Agent, TypeOK
      <4>1. \/ i \in 1 .. Len(queue) /\ j \in 1 .. Len(queue)
            \/ i \in 1 .. Len(queue) /\ j = Len(queue) + 1
            \/ i = Len(queue) + 1 /\ j \in 1 .. Len(queue)
            \/ i = Len(queue) + 1 /\ j = Len(queue) + 1
        BY <2>2
      <4>2. CASE i \in 1 .. Len(queue) /\ j \in 1 .. Len(queue)
        <5>1. queue[i] = queue[j]
          BY <4>2, <3>3, <2>2
        <5>2. \A k, l \in 1 .. Len(queue) : queue[k] = queue[l] => k = l
          BY DEF Agent
        <5> HIDE DEF q
        <5> QED  BY <4>2, <5>1, <5>2
      <4>3. \A k \in 1 .. Len(queue) : queue'[k] # queue'[Len(queue) + 1]
        BY <2>2, <2>3
      <4> QED  BY <4>1, <4>2, <4>3, <3>3
    <3> QED  BY <3>1, <3>2, <3>3, <2>1
  <2> QED  BY <2>5, <2>6
<1>9. ASSUME AgentWorksOn \/ \E t \in Sends : ReceiveMore(t) PROVE Agent'
  BY <1>9, PastTheBound, AgentKept
<1> QED  BY <1>1, <1>2, <1>3, <1>4, <1>5, <1>6, <1>7, <1>8, <1>9 DEF Next, SendStep

(* Three kinds of step leave a send that is alone as it was: those that do    *)
(* not touch its reading nor the agent, ...                                   *)
LEMMA ApartKept ==
    ASSUME IInv, UNCHANGED <<stream, queue, working, idleDue, outcome, mixed>>,
           \A u \in Sends : u \in InFlight' =>
               /\ u \in InFlight /\ pos'[u] = pos[u]
               /\ send'[u] = "subscribed" => send[u] = "subscribed"
    PROVE  Apart'
<1> SUFFICES ASSUME NEW u \in InFlight' \ mixed' PROVE Alone(u)' /\ Ahead(u)'
  BY DEF Apart
<1>1. u \in Sends /\ u \in InFlight \ mixed /\ pos'[u] = pos[u]
  BY DEF InFlight
<1>2. Alone(u) /\ Ahead(u)
  BY <1>1 DEF IInv, Apart
<1>3. InFlight' \subseteq InFlight
  BY DEF InFlight
<1>4. Alone(u)'
  BY <1>1, <1>2, <1>3 DEF Alone, Quiet
<1>5. Ahead(u)'
  BY <1>1, <1>2 DEF Ahead, NothingAhead, EndAhead
<1> QED  BY <1>4, <1>5

(* ... the end of its message, which finds nothing queued behind it, ...      *)
LEMMA ApartAfterEnd ==
    ASSUME IInv, NEW kind \in Kinds, EndsWith(kind), TerminalStatus(kind) # "none"
    PROVE  Apart'
<1> SUFFICES ASSUME NEW u \in InFlight' \ mixed' PROVE Alone(u)' /\ Ahead(u)'
  BY DEF Apart
<1>1. /\ working # "none" /\ stream' = Append(stream, kind)
      /\ outcome' = [outcome EXCEPT ![working] = TerminalStatus(kind)]
      /\ working' = "none" /\ idleDue' = TRUE
      /\ UNCHANGED <<queue, send, mixed, pos>>
  BY DEF EndsWith, Emit, readVars
<1>2. u \in Sends /\ u \in InFlight \ mixed
  BY <1>1 DEF InFlight
<1>3. Alone(u) /\ InFlight' = InFlight
  BY <1>1, <1>2 DEF IInv, Apart, InFlight
<1>4. working = u /\ send[u] # "subscribed"
  BY <1>1, <1>3 DEF Alone, Quiet
<1>5. Len(queue) = 0
  <2>1. \A i \in 1 .. Len(queue) : queue[i] = u /\ queue[i] # working
    BY <1>3 DEF IInv, Alone, Agent
  <2>2. Len(queue) \in Nat
    BY DEF IInv, TypeOK
  <2>3. ~ 1 \in 1 .. Len(queue)
    BY <2>1, <1>4
  <2> QED  BY <2>2, <2>3
<1>6. queue = <<>>
  BY <1>5 DEF IInv, TypeOK
<1>7. Alone(u)'
  BY <1>1, <1>3, <1>4 DEF Alone
<1>8. outcome'[u] = TerminalStatus(kind)
  BY <1>1, <1>2, <1>4 DEF IInv, TypeOK
<1>9. /\ Len(stream) \in Nat /\ Len(stream') = Len(stream) + 1 /\ stream'[Len(stream) + 1] = kind
      /\ \A j \in 1 .. Len(stream) : stream'[j] = stream[j]
  BY <1>1 DEF IInv, TypeOK
<1>10. pos[u] <= Len(stream) /\ pos[u] \in Nat
  BY <1>2 DEF IInv, NoSilentGap, TypeOK
<1>11. outcome[u] = "none" /\ NothingAhead(u)
  BY <1>1, <1>2, <1>4 DEF IInv, Agent, Apart, Ahead
<1>12. EndAhead(u)'
  <2>1. \A j \in 1 .. Len(stream') : pos[u] < j /\ j < Len(stream') => stream'[j] = "progress"
    BY <1>9, <1>10, <1>11 DEF NothingAhead
  <2>2. /\ Len(stream') \in 1 .. Len(stream') /\ pos'[u] < Len(stream')
        /\ Len(stream') <= Len(stream') + 1
        /\ TerminalStatus(stream'[Len(stream')]) = outcome'[u]
    BY <1>1, <1>8, <1>9, <1>10
  <2> QED  BY <2>1, <2>2, <1>1, <1>6 DEF EndAhead
<1> QED  BY <1>7, <1>8, <1>12 DEF Ahead

(* A send that is alone has its own end ahead of it, and within the ring.     *)
LEMMA ApartInv == IInv /\ [Next]_vars => Apart'
<1> SUFFICES ASSUME IInv, [Next]_vars PROVE Apart'
  OBVIOUS
<1>1. ASSUME Attach PROVE Apart'
  BY <1>1, ApartKept DEF Attach, agentVars, readVars, InFlight
<1>2. ASSUME StreamCloses PROVE Apart'
  BY <1>2, ApartKept DEF StreamCloses, readVars, InFlight
<1>3. ASSUME CancelTurn PROVE Apart'
  <2>1. EndsWith("abort") /\ "abort" \in Kinds /\ TerminalStatus("abort") # "none"
    BY <1>3 DEF CancelTurn, Kinds, TerminalStatus
  <2> QED  BY <2>1, ApartAfterEnd
<1>4. ASSUME AgentEnds PROVE Apart'
  <2>1. PICK kind \in {"assistant.turn_end", "session.error"} : EndsWith(kind)
    BY <1>4 DEF AgentEnds
  <2>2. kind \in Kinds /\ TerminalStatus(kind) # "none"
    BY <2>1 DEF Kinds, TerminalStatus
  <2> QED  BY <2>1, <2>2, ApartAfterEnd
<1>5. ASSUME AgentBegins PROVE Apart'
  <2> SUFFICES ASSUME NEW u \in InFlight' \ mixed' PROVE Alone(u)' /\ Ahead(u)'
    BY DEF Apart
  <2>1. /\ queue # <<>> /\ working' = Head(queue) /\ queue' = Tail(queue)
        /\ UNCHANGED <<stream, idleDue, outcome, send, mixed, pos>>
    BY <1>5 DEF AgentBegins, readVars
  <2>2. u \in Sends /\ u \in InFlight \ mixed /\ InFlight' = InFlight
    BY <2>1 DEF InFlight
  <2>3. Alone(u) /\ Ahead(u)
    BY <2>2 DEF IInv, Apart
  <2>4. /\ Len(queue) \in Nat \ {0} /\ Head(queue) = queue[1] /\ Len(Tail(queue)) = Len(queue) - 1
        /\ \A i \in 1 .. Len(Tail(queue)) : Tail(queue)[i] = queue[i + 1] /\ i + 1 \in 1 .. Len(queue)
    BY <2>1 DEF IInv, TypeOK
  <2>5. 1 \in 1 .. Len(queue) /\ \A i \in 1 .. Len(queue) : queue[i] = u
    BY <2>3, <2>4 DEF Alone
  <2>6. working' = u /\ \A i \in 1 .. Len(queue') : queue'[i] = u
    BY <2>1, <2>4, <2>5
  <2>7. send[u] # "subscribed"
    BY <2>1, <2>3 DEF Alone, Quiet
  <2>8. Alone(u)'
    BY <2>1, <2>2, <2>3, <2>6, <2>7 DEF Alone
  <2>9. outcome[u] = "none"
    BY <2>5 DEF IInv, Agent
  <2>10. Ahead(u)'
    BY <2>1, <2>3, <2>9 DEF Ahead, NothingAhead
  <2> QED  BY <2>8, <2>10
<1>6. ASSUME AgentWorks PROVE Apart'
  <2> SUFFICES ASSUME NEW u \in InFlight' \ mixed' PROVE Alone(u)' /\ Ahead(u)'
    BY DEF Apart
  <2>1. /\ working # "none" /\ stream' = Append(stream, "progress")
        /\ UNCHANGED <<queue, working, idleDue, outcome, send, mixed, pos>>
    BY <1>6 DEF AgentWorks, Emit, readVars
  <2>2. u \in Sends /\ u \in InFlight \ mixed /\ InFlight' = InFlight
    BY <2>1 DEF InFlight
  <2>3. Alone(u) /\ Ahead(u)
    BY <2>2 DEF IInv, Apart
  <2>4. working = u /\ send[u] # "subscribed"
    BY <2>1, <2>3 DEF Alone, Quiet
  <2>5. Alone(u)'
    BY <2>1, <2>2, <2>3, <2>4 DEF Alone
  <2>6. outcome[u] = "none"
    BY <2>1, <2>4 DEF IInv, Agent
  <2>7. /\ Len(stream) \in Nat /\ Len(stream') = Len(stream) + 1
        /\ stream'[Len(stream) + 1] = "progress"
        /\ \A j \in 1 .. Len(stream) : stream'[j] = stream[j]
    BY <2>1 DEF IInv, TypeOK
  <2>8. NothingAhead(u)'
    BY <2>1, <2>3, <2>6, <2>7 DEF Ahead, NothingAhead
  <2> QED  BY <2>1, <2>5, <2>6, <2>8 DEF Ahead
<1>7. ASSUME AgentIdles PROVE Apart'
  <2> SUFFICES ASSUME NEW u \in InFlight' \ mixed' PROVE Alone(u)' /\ Ahead(u)'
    BY DEF Apart
  <2>1. /\ idleDue /\ stream' = Append(stream, "session.idle") /\ idleDue' = FALSE
        /\ UNCHANGED <<queue, working, outcome, send, mixed, pos>>
    BY <1>7 DEF AgentIdles, Emit, readVars
  <2>2. u \in Sends /\ u \in InFlight \ mixed /\ InFlight' = InFlight
    BY <2>1 DEF InFlight
  <2>3. Alone(u) /\ Ahead(u)
    BY <2>2 DEF IInv, Apart
  <2>4. outcome[u] # "none" /\ EndAhead(u)
    BY <2>1, <2>3 DEF Ahead, NothingAhead
  <2>5. send[u] # "subscribed"
    BY <2>1, <2>3 DEF Alone, Quiet
  <2>6. Alone(u)'
    BY <2>1, <2>2, <2>3, <2>5 DEF Alone
  <2>7. /\ Len(stream) \in Nat /\ Len(stream') = Len(stream) + 1
        /\ \A j \in 1 .. Len(stream) : stream'[j] = stream[j]
    BY <2>1 DEF IInv, TypeOK
  <2>8. EndAhead(u)'
    <3>1. PICK k \in 1 .. Len(stream) :
             /\ pos[u] < k /\ k = Len(stream) /\ TerminalStatus(stream[k]) = outcome[u]
             /\ \A j \in 1 .. Len(stream) : pos[u] < j /\ j < k => stream[j] = "progress"
      BY <2>1, <2>4 DEF EndAhead
    <3>2. /\ k \in 1 .. Len(stream') /\ pos'[u] < k /\ Len(stream') <= k + 1
          /\ TerminalStatus(stream'[k]) = outcome'[u]
          /\ \A j \in 1 .. Len(stream') : pos'[u] < j /\ j < k => stream'[j] = "progress"
      BY <3>1, <2>1, <2>7
    <3>3. working' = "none" /\ queue' = <<>> /\ ~idleDue'
      BY <2>1, <2>4 DEF EndAhead
    <3> QED  BY <3>2, <3>3 DEF EndAhead
  <2> QED  BY <2>1, <2>4, <2>6, <2>8 DEF Ahead
<1>8. ASSUME NEW t \in Sends, NotAttached(t) PROVE Apart'
  BY <1>8, ApartKept DEF NotAttached, Return, agentVars, readVars, InFlight, IInv, TypeOK
<1>9. ASSUME NEW t \in Sends, Subscribe(t) PROVE Apart'
  <2> SUFFICES ASSUME NEW u \in InFlight' \ mixed' PROVE Alone(u)' /\ Ahead(u)'
    BY DEF Apart
  <2>1. /\ send[t] = "idle" /\ send' = [send EXCEPT ![t] = "subscribed"]
        /\ pos' = [pos EXCEPT ![t] = Len(stream)]
        /\ mixed' = IF Quiet /\ InFlight = {} THEN mixed ELSE mixed \cup {t} \cup InFlight
        /\ UNCHANGED <<stream, queue, working, idleDue, outcome>>
    BY <1>9 DEF Subscribe, agentVars
  <2>2. InFlight' = InFlight \cup {t}
    BY <2>1 DEF InFlight, IInv, TypeOK
  <2>3. u = t /\ Quiet /\ InFlight = {}
    BY <2>1, <2>2
  <2>4. pos'[t] = Len(stream) /\ send'[t] = "subscribed" /\ outcome[t] = "none"
    BY <2>1 DEF IInv, TypeOK, Threads
  <2>5. Alone(t)'
    BY <2>1, <2>2, <2>3, <2>4 DEF Alone, Quiet
  <2>6. \A k \in 1 .. Len(stream) : ~(Len(stream) < k)
    BY DEF IInv, TypeOK
  <2>7. Ahead(t)'
    BY <2>1, <2>3, <2>4, <2>6 DEF Ahead, NothingAhead, Quiet
  <2> QED  BY <2>3, <2>5, <2>7
<1>10. ASSUME NEW t \in Sends, SendToAgent(t) PROVE Apart'
  <2> SUFFICES ASSUME NEW u \in InFlight' \ mixed' PROVE Alone(u)' /\ Ahead(u)'
    BY DEF Apart
  <2>1. /\ send[t] = "subscribed" /\ send' = [send EXCEPT ![t] = "sent"]
        /\ queue' = Append(queue, t)
        /\ UNCHANGED <<stream, working, idleDue, outcome, mixed, pos>>
    BY <1>10 DEF SendToAgent, readVars
  <2>2. InFlight' = InFlight /\ t \in InFlight
    BY <2>1 DEF InFlight, IInv, TypeOK
  <2>3. u \in InFlight \ mixed /\ Alone(u) /\ Ahead(u)
    BY <2>1, <2>2 DEF IInv, Apart
  <2>4. u = t /\ queue = <<>> /\ working = "none"
    BY <2>1, <2>2, <2>3 DEF Alone, Quiet
  <2>5. Len(queue') = 1 /\ queue'[1] = t
    BY <2>1, <2>4
  <2>6. Alone(u)'
    BY <2>1, <2>2, <2>3, <2>4, <2>5 DEF Alone, IInv, TypeOK
  <2>7. outcome[u] = "none"
    BY <2>1, <2>4 DEF IInv, Threads
  <2>8. Ahead(u)'
    BY <2>1, <2>3, <2>7 DEF Ahead, NothingAhead
  <2> QED  BY <2>6, <2>8
<1>11. ASSUME NEW t \in Sends, SendFails(t) PROVE Apart'
  BY <1>11, ApartKept DEF SendFails, Return, agentVars, readVars, InFlight, IInv, TypeOK
<1>12. ASSUME NEW t \in Sends, Dispatched(t) PROVE Apart'
  BY <1>12, ApartKept DEF Dispatched, agentVars, readVars, InFlight, IInv, TypeOK
<1>13. ASSUME NEW t \in Sends, SinkFails(t) PROVE Apart'
  BY <1>13, ApartKept DEF SinkFails, Return, agentVars, readVars, InFlight, IInv, TypeOK
<1>14. ASSUME NEW t \in Sends, Lagged(t) PROVE Apart'
  <2> SUFFICES ASSUME NEW u \in InFlight' \ mixed' PROVE Alone(u)' /\ Ahead(u)'
    BY DEF Apart
  <2>1. /\ send[t] = "receive" /\ pos[t] < Oldest /\ pos' = [pos EXCEPT ![t] = Oldest]
        /\ UNCHANGED <<stream, queue, working, idleDue, outcome, send, mixed>>
    BY <1>14 DEF Lagged, Lost, agentVars
  <2>2. InFlight' = InFlight /\ t \in InFlight
    BY <2>1 DEF InFlight, IInv, TypeOK
  <2>3. u \in InFlight \ mixed /\ Alone(u) /\ Ahead(u)
    BY <2>1, <2>2 DEF IInv, Apart
  <2>4. u = t
    BY <2>2, <2>3 DEF Alone
  <2>5. Alone(u)'
    BY <2>1, <2>2, <2>3, <2>4 DEF Alone
  <2>6. pos'[t] = Oldest /\ pos[t] \in Nat
    BY <2>1 DEF IInv, TypeOK
  <2>7. Len(stream) \in Nat /\ Oldest \in Nat /\ (Oldest = 0 \/ Oldest + 2 <= Len(stream))
    BY StreamAssumption DEF Oldest, IInv, TypeOK
  <2>8. NothingAhead(u) => NothingAhead(u)'
    BY <2>1, <2>4, <2>6, <2>7 DEF NothingAhead
  <2>9. EndAhead(u) => EndAhead(u)'
    <3> SUFFICES ASSUME EndAhead(u) PROVE EndAhead(u)'
      OBVIOUS
    <3>1. PICK k \in 1 .. Len(stream) :
             /\ pos[u] < k /\ Len(stream) <= k + 1 /\ TerminalStatus(stream[k]) = outcome[u]
             /\ idleDue => k = Len(stream)
             /\ \A j \in 1 .. Len(stream) : pos[u] < j /\ j < k => stream[j] = "progress"
      BY DEF EndAhead
    <3>2. Oldest < k /\ \A j \in 1 .. Len(stream) : Oldest < j => pos[u] < j
      BY <3>1, <2>1, <2>4, <2>6, <2>7
    <3>3. working = "none" /\ queue = <<>>
      BY DEF EndAhead
    <3> QED  BY <3>1, <3>2, <3>3, <2>1, <2>4, <2>6 DEF EndAhead
  <2> QED  BY <2>1, <2>3, <2>5, <2>8, <2>9 DEF Ahead
<1>15. ASSUME NEW t \in Sends, Receive(t) PROVE Apart'
  <2> SUFFICES ASSUME NEW u \in InFlight' \ mixed' PROVE Alone(u)' /\ Ahead(u)'
    BY DEF Apart
  <2> DEFINE status == TerminalStatus(stream[pos[t] + 1])
  <2>1. /\ send[t] = "receive" /\ pos[t] < Len(stream) /\ pos' = [pos EXCEPT ![t] = @ + 1]
        /\ UNCHANGED <<stream, queue, working, idleDue, outcome, mixed>>
        /\ IF status = "none" THEN UNCHANGED send ELSE send' = [send EXCEPT ![t] = "ended"]
    BY <1>15 DEF Receive, Return, agentVars
  <2>2. InFlight' \subseteq InFlight /\ t \in InFlight
    BY <2>1 DEF InFlight, IInv, TypeOK
  <2>3. u \in InFlight \ mixed /\ Alone(u) /\ Ahead(u)
    BY <2>1, <2>2 DEF IInv, Apart
  <2>4. u = t
    BY <2>2, <2>3 DEF Alone
  <2>5. status = "none" /\ send' = send
    BY <2>1, <2>4 DEF InFlight, IInv, TypeOK
  <2>6. Alone(u)'
    BY <2>1, <2>2, <2>3, <2>4, <2>5 DEF Alone
  <2>7. pos'[t] = pos[t] + 1 /\ pos[t] \in Nat /\ Len(stream) \in Nat
    BY <2>1 DEF IInv, TypeOK
  <2>8. NothingAhead(u) => NothingAhead(u)'
    BY <2>1, <2>4, <2>7 DEF NothingAhead
  <2>9. outcome[u] # "none" /\ EndAhead(u) => EndAhead(u)'
    <3> SUFFICES ASSUME EndAhead(u), outcome[u] # "none" PROVE EndAhead(u)'
      OBVIOUS
    <3>1. PICK k \in 1 .. Len(stream) :
             /\ pos[u] < k /\ Len(stream) <= k + 1 /\ TerminalStatus(stream[k]) = outcome[u]
             /\ idleDue => k = Len(stream)
             /\ \A j \in 1 .. Len(stream) : pos[u] < j /\ j < k => stream[j] = "progress"
      BY DEF EndAhead
    <3>2. pos[u] + 1 # k
      BY <3>1, <2>4, <2>5
    <3>3. pos[u] + 1 < k /\ \A j \in 1 .. Len(stream) : pos[u] + 1 < j => pos[u] < j
      BY <3>1, <3>2, <2>4, <2>7
    <3>4. working = "none" /\ queue = <<>>
      BY DEF EndAhead
    <3> QED  BY <3>1, <3>3, <3>4, <2>1, <2>4, <2>7 DEF EndAhead
  <2> QED  BY <2>1, <2>3, <2>6, <2>8, <2>9 DEF Ahead
<1>16. ASSUME NEW t \in Sends, GivesUp(t) PROVE Apart'
  BY <1>16, ApartKept DEF GivesUp, Return, agentVars, readVars, InFlight, IInv, TypeOK
<1>17. ASSUME UNCHANGED vars PROVE Apart'
  BY <1>17, ApartKept DEF vars, agentVars, readVars, InFlight
<1>18. ASSUME AgentWorksOn \/ \E t \in Sends : ReceiveMore(t) PROVE Apart'
  BY <1>18, PastTheBound, ApartKept DEF agentVars, InFlight
<1> QED  BY <1>1, <1>2, <1>3, <1>4, <1>5, <1>6, <1>7, <1>8, <1>9, <1>10, <1>11, <1>12, <1>13,
            <1>14, <1>15, <1>16, <1>17, <1>18 DEF Next, SendStep

LEMMA Invariance == Spec => []IInv
<1>1. IInv /\ [Next]_vars => IInv'
  BY TypeInv, ThreadsInv, GapInv, AgentInv, ApartInv DEF IInv
<1> QED  BY InitInv, <1>1, PTL DEF Spec

\* The variables of the adapter, of the agent and of the stream keep their
\* types; a position in the stream is never negative.
THEOREM TypeCorrect == Spec => []TypeOK
<1>1. IInv => TypeOK
  BY DEF IInv
<1> QED  BY <1>1, Invariance, PTL

\* What a send has passed on and what it has reported as lost make up all that
\* was emitted since it subscribed, however small the ring and however late
\* the reader.
THEOREM NoGapUnnamed == Spec => []NoSilentGap
<1>1. IInv => NoSilentGap
  BY DEF IInv
<1> QED  BY <1>1, Invariance, PTL
-----------------------------------------------------------------------------
(* The refinement of BackendContract.                                      *)

\* A step that returns nothing, and mixes only sends that have not returned.
LEMMA ClaimKept ==
    ASSUME UNCHANGED told, \A t \in Sends : told[t] # "none" => (t \in mixed' <=> t \in mixed)
    PROVE  Claim' = Claim
BY DEF Claim

\* A return tells the outcome, or is one that nothing is claimed for.
LEMMA ReturnTells ==
    ASSUME TypeOK, NEW t \in Sends, NEW v \in Verdicts \cup {"error"},
           told[t] = "none", told' = [told EXCEPT ![t] = v], UNCHANGED <<mixed, outcome>>,
           v = "error" \/ t \in mixed \/ v = outcome[t]
    PROVE  Promise!ContractNext
<1> DEFINE said == IF t \in mixed \/ v = "error" THEN "unsure" ELSE v
<1>1. v # "none" /\ said \in Verdicts \cup {"unsure"}
  BY DEF Verdicts
<1>2. Claim[t] = "none"
  BY DEF Claim
<1>3. Claim' = [Claim EXCEPT ![t] = said]
  <2>1. \A u \in Sends : told'[u] = IF u = t THEN v ELSE told[u]
    BY DEF TypeOK
  <2>2. \A u \in Sends : Claim'[u] = IF u = t THEN said ELSE Claim[u]
    BY <2>1, <1>1 DEF Claim
  <2> QED  BY <2>2 DEF Claim
<1>4. said = "unsure" \/ said = outcome[t]
  OBVIOUS
<1>5. Promise!Tell(t, said)
  BY <1>2, <1>3, <1>4 DEF Promise!Tell
<1> QED  BY <1>1, <1>5 DEF Promise!ContractNext

\* The end of a message settles it.
LEMMA EndSettles ==
    ASSUME IInv, NEW kind \in Kinds, EndsWith(kind), TerminalStatus(kind) # "none"
    PROVE  Promise!ContractNext
<1>1. /\ working # "none" /\ UNCHANGED <<told, mixed>>
      /\ outcome' = [outcome EXCEPT ![working] = TerminalStatus(kind)]
  BY DEF EndsWith, Emit
<1>2. working \in Sends /\ outcome[working] = "none"
  BY <1>1 DEF IInv, TypeOK, Agent
<1>3. TerminalStatus(kind) \in Verdicts
  BY StatusType
<1>4. Claim' = Claim
  BY <1>1, ClaimKept
<1>5. Promise!Settle(working, TerminalStatus(kind))
  BY <1>1, <1>2, <1>4 DEF Promise!Settle
<1> QED  BY <1>2, <1>3, <1>5 DEF Promise!ContractNext

\* A send that is alone returns at the end of its own message.
LEMMA ReceivesItsEnd ==
    ASSUME IInv, NEW t \in Sends \ mixed, Receive(t), TerminalStatus(stream[pos[t] + 1]) # "none"
    PROVE  TerminalStatus(stream[pos[t] + 1]) = outcome[t]
<1>1. send[t] = "receive" /\ pos[t] < Len(stream)
  BY DEF Receive
<1>2. pos[t] \in Nat /\ Len(stream) \in Nat
  BY DEF IInv, TypeOK
<1>3. pos[t] + 1 \in 1 .. Len(stream) /\ pos[t] < pos[t] + 1
  BY <1>1, <1>2
<1>4. Ahead(t)
  BY <1>1 DEF IInv, Apart, InFlight
<1>5. stream[pos[t] + 1] # "progress"
  BY DEF TerminalStatus
<1>6. outcome[t] # "none" /\ EndAhead(t)
  BY <1>3, <1>4, <1>5 DEF Ahead, NothingAhead
<1>7. PICK k \in 1 .. Len(stream) :
         /\ pos[t] < k /\ TerminalStatus(stream[k]) = outcome[t]
         /\ \A j \in 1 .. Len(stream) : pos[t] < j /\ j < k => stream[j] = "progress"
  BY <1>6 DEF EndAhead
<1>8. ~(pos[t] + 1 < k)
  BY <1>3, <1>5, <1>7
<1>9. k = pos[t] + 1
  BY <1>2, <1>7, <1>8
<1> QED  BY <1>7, <1>9

LEMMA ContractStep ==
    ASSUME IInv, [Next]_vars
    PROVE  [Promise!ContractNext]_Promise!contractVars
<1> DEFINE Goal == Promise!ContractNext \/ UNCHANGED <<outcome, Claim>>
<1>1. ASSUME UNCHANGED <<outcome, told, mixed>> PROVE Goal
  BY <1>1, ClaimKept
<1>2. ASSUME CancelTurn \/ AgentEnds PROVE Goal
  <2>1. PICK kind \in {"abort", "assistant.turn_end", "session.error"} : EndsWith(kind)
    BY <1>2 DEF CancelTurn, AgentEnds
  <2>2. kind \in Kinds /\ TerminalStatus(kind) # "none"
    BY DEF Kinds, TerminalStatus
  <2> QED  BY <2>1, <2>2, EndSettles
<1>3. ASSUME NEW t \in Sends, Subscribe(t) PROVE Goal
  <2>1. /\ send[t] = "idle" /\ UNCHANGED <<outcome, told>>
        /\ mixed' = mixed \/ mixed' = mixed \cup {t} \cup InFlight
    BY <1>3 DEF Subscribe, agentVars
  <2>2. \A u \in {t} \cup InFlight : told[u] = "none"
    BY <2>1 DEF IInv, Threads, InFlight
  <2> QED  BY <2>1, <2>2, ClaimKept
<1>4. ASSUME NEW t \in Sends, NotAttached(t) \/ SendFails(t) \/ SinkFails(t) \/ GivesUp(t)
      PROVE  Goal
  <2>1. /\ send[t] # "ended" /\ told' = [told EXCEPT ![t] = "error"]
        /\ UNCHANGED <<mixed, outcome>>
    BY <1>4 DEF NotAttached, SendFails, SinkFails, GivesUp, Return, agentVars
  <2>2. told[t] = "none"
    BY <2>1 DEF IInv, Threads
  <2> QED  BY <2>1, <2>2, ReturnTells DEF IInv
<1>5. ASSUME NEW t \in Sends, Receive(t) PROVE Goal
  <2> DEFINE status == TerminalStatus(stream[pos[t] + 1])
  <2>1. /\ send[t] = "receive" /\ pos[t] < Len(stream) /\ UNCHANGED <<mixed, outcome>>
        /\ IF status = "none" THEN UNCHANGED told ELSE told' = [told EXCEPT ![t] = status]
    BY <1>5 DEF Receive, Return, agentVars
  <2>2. CASE status = "none"
    BY <2>1, <2>2, ClaimKept
  <2>3. CASE status # "none"
    <3>1. told[t] = "none"
      BY <2>1 DEF IInv, Threads
    <3>2. stream[pos[t] + 1] \in Kinds
      <4>1. pos[t] \in Nat /\ Len(stream) \in Nat /\ stream \in Seq(Kinds)
        BY DEF IInv, TypeOK, Kinds
      <4>2. pos[t] + 1 \in 1 .. Len(stream)
        BY <4>1, <2>1
      <4> QED  BY <4>1, <4>2
    <3>3. status \in Verdicts
      BY <2>3, <3>2, StatusType
    <3>4. t \in mixed \/ status = outcome[t]
      BY <1>5, <2>3, ReceivesItsEnd
    <3> QED  BY <2>1, <2>3, <3>1, <3>3, <3>4, ReturnTells DEF IInv
  <2> QED  BY <2>2, <2>3
<1>6. ASSUME Attach \/ StreamCloses \/ AgentBegins \/ AgentWorks \/ AgentIdles \/ UNCHANGED vars
      PROVE  Goal
  BY <1>1, <1>6 DEF Attach, StreamCloses, AgentBegins, AgentWorks, AgentIdles, Emit, vars, agentVars
<1>7. ASSUME NEW t \in Sends, SendToAgent(t) \/ Dispatched(t) \/ Lagged(t) PROVE Goal
  BY <1>1, <1>7 DEF SendToAgent, Dispatched, Lagged, agentVars
<1>8. ASSUME AgentWorksOn \/ \E t \in Sends : ReceiveMore(t) PROVE Goal
  BY <1>1, <1>8, PastTheBound DEF agentVars
<1>9. Goal
  BY <1>2, <1>3, <1>4, <1>5, <1>6, <1>7, <1>8 DEF Next, SendStep
<1> QED  BY <1>9 DEF Promise!contractVars

\* The adapter implements what the broker relies on: a send that overlaps no
\* other and returns a verdict returns what the agent did with its message,
\* whatever the ring has lost of the events in between.
THEOREM ContractKept == Spec => KeepsBackendContract
<1>1. Init => Promise!ContractInit
  BY DEF Init, Promise!ContractInit, Claim
<1>2. IInv /\ [Next]_vars => [Promise!ContractNext]_Promise!contractVars
  BY ContractStep
<1> QED  BY <1>1, <1>2, Invariance, PTL DEF Spec, KeepsBackendContract, Promise!ContractSpec
=============================================================================
