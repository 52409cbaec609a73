-------------------------- MODULE EventLogProofs --------------------------
(***************************************************************************)
(* The three components that read a session's events, for every set of      *)
(* actors, every page size, window and length of the log: agents that page  *)
(* through it (EventReads), the compact result of a turn (LatestOutput),    *)
(* and the mirror of a remote session's requests (RemoteRequests).  First   *)
(* what the queries over the log return.                                    *)
(***************************************************************************)
EXTENDS EventReads, LatestOutput, RemoteRequests,
        FiniteSetTheorems, WellFoundedInduction, TLAPS

(* What matches are events of the log, past the cursor, and finitely many.  *)
LEMMA MatchingIsFinite ==
    ASSUME NEW S, NEW l \in Seq(S), NEW target, NEW c \in Nat
    PROVE  /\ Matching(l, target, c) \subseteq 1 .. Len(l)
           /\ IsFiniteSet(Matching(l, target, c))
           /\ \A n \in Matching(l, target, c) : c < n
<1>1. Matching(l, target, c) \subseteq 1 .. Len(l)
  BY DEF Matching
<1>2. IsFiniteSet(1 .. Len(l))
  BY FS_Interval
<1> QED  BY <1>1, <1>2, FS_Subset DEF Matching

(* A page is a prefix of what matches: whatever precedes one of its events  *)
(* is in it.  LIMIT cuts an ordered result.                                 *)
LEMMA PageIsPrefix ==
    ASSUME NEW S, NEW l \in Seq(S), NEW target, NEW c \in Nat, NEW limit \in Nat,
           NEW n \in Page(l, target, c, limit),
           NEW m \in Matching(l, target, c), m < n
    PROVE  m \in Page(l, target, c, limit)
<1> DEFINE M == Matching(l, target, c)
           Before(k) == {i \in M : i < k}
<1>1. M \subseteq 1 .. Len(l) /\ n \in M /\ IsFiniteSet(M)
  BY MatchingIsFinite DEF Page
<1>2. IsFiniteSet(Before(n)) /\ Before(m) \subseteq Before(n)
  BY <1>1, FS_Subset
<1>3. Cardinality(Before(m)) <= Cardinality(Before(n))
  BY <1>2, FS_Subset
<1>4. Cardinality(Before(n)) \in Nat /\ Cardinality(Before(m)) \in Nat
  BY <1>2, FS_Subset, FS_CardinalityType
<1>5. Cardinality(Before(n)) < limit
  BY DEF Page
<1> QED  BY <1>3, <1>4, <1>5 DEF Page

(* Appending leaves what matches among the earlier events as it was.        *)
LEMMA AppendKeepsMatching ==
    ASSUME NEW S, NEW l \in Seq(S), NEW e \in S, NEW target, NEW c \in Nat,
           NEW n \in 1 .. Len(l)
    PROVE  /\ Append(l, e)[n] = l[n]
           /\ n \in Matching(Append(l, e), target, c) <=> n \in Matching(l, target, c)
<1>1. /\ DOMAIN l = 1 .. Len(l)
      /\ DOMAIN Append(l, e) = 1 .. Len(l) + 1
      /\ Append(l, e)[n] = l[n]
      /\ n \in 1 .. Len(l) + 1
  OBVIOUS
<1> QED  BY <1>1 DEF Matching

(* A window that is as large as what matches shows all of it.               *)
LEMMA RecentOfFew ==
    ASSUME NEW S, NEW l \in Seq(S), NEW target, NEW limit \in Nat,
           Cardinality(Matching(l, target, 0)) <= limit
    PROVE  Recent(l, target, limit) = Matching(l, target, 0)
<1> DEFINE M == Matching(l, target, 0)
           After(n) == {m \in M : m > n}
<1>1. IsFiniteSet(M) /\ M \subseteq Nat
  BY MatchingIsFinite
<1>2. ASSUME NEW n \in M PROVE Cardinality(After(n)) < limit
  <2>1. IsFiniteSet(M \ {n}) /\ Cardinality(M \ {n}) = Cardinality(M) - 1
    BY <1>1, FS_RemoveElement
  <2>2. After(n) \subseteq M \ {n}
    BY <1>1
  <2>3. /\ Cardinality(After(n)) <= Cardinality(M \ {n})
        /\ Cardinality(After(n)) \in Nat /\ Cardinality(M) \in Nat
    BY <1>1, <2>1, <2>2, FS_Subset, FS_CardinalityType
  <2> QED  BY <2>1, <2>3
<1> QED  BY <1>2 DEF Recent

(* A non-empty set of positions has a last one.                             *)
LEMMA LastExists ==
    ASSUME NEW k \in Nat, NEW P \in SUBSET (1 .. k), P # {}
    PROVE  \E n \in P : \A m \in P : m <= n
<1> DEFINE Q == {q \in 0 .. k : k - q \in P}
<1>1. Q \subseteq Nat
  OBVIOUS
<1>2. Q # {}
  <2>1. PICK n \in P : TRUE
    OBVIOUS
  <2>2. k - n \in 0 .. k /\ k - (k - n) = n
    BY <2>1
  <2>3. k - n \in Q
    BY <2>1, <2>2
  <2> QED  BY <2>3
<1>3. \E q \in Q : \A r \in Q : <<r, q>> \notin OpToRel(<, Nat)
  <2> HIDE DEF Q
  <2> QED  BY <1>1, <1>2, NatLessThanWellFounded, WFMin, Zenon
<1>4. PICK q \in Q : \A r \in Q : <<r, q>> \notin {ss \in Nat \X Nat : ss[1] < ss[2]}
  BY <1>3 DEF OpToRel
<1>5. ASSUME NEW m \in P PROVE m <= k - q
  <2>0. q \in Nat
    BY <1>4
  <2>1. m \in Nat /\ k - m \in 0 .. k /\ k - (k - m) = m
    OBVIOUS
  <2>2. k - m \in Q
    BY <2>1
  <2>3. <<k - m, q>> \notin {ss \in Nat \X Nat : ss[1] < ss[2]}
    BY <1>4, <2>2
  <2>4. ~(k - m < q)
    BY <2>0, <2>1, <2>3
  <2> QED  BY <2>0, <2>1, <2>4
<1>6. k - q \in P
  BY <1>4
<1> QED  BY <1>5, <1>6
-----------------------------------------------------------------------------
(* EventReads.                                                              *)

(* What a poll finds is past the cursor, and of the events it asked for.    *)
LEMMA FoundIsWanted ==
    ASSUME TypeOK, NEW r \in Readers, start[r] <= cursor[r]
    PROVE  /\ Found(r) \subseteq Wanted(r)
           /\ \A n \in Found(r) : n \in 1 .. Len(log) /\ cursor[r] < n
<1>1. cursor[r] \in Nat /\ start[r] \in Nat /\ DOMAIN log = 1 .. Len(log)
  BY DEF TypeOK
<1> QED  BY <1>1 DEF Found, Wanted, ReadEvents, Page, Matching

(* The inductive invariant: the types, an agent that has not begun was given *)
(* nothing, a running call has returned nothing, the cursor is past the      *)
(* first one, and no gap up to the cursor.                                   *)
StartInv ==
    \A r \in Readers : /\ start[r] <= cursor[r]
                       /\ call[r] = "new" => got[r] = {}
                       /\ call[r] = "polling" => reply[r] = {}

PagingInv ==
    /\ TypeOK
    /\ StartInv
    /\ GapFree

LEMMA PagingInit == Init => PagingInv
<1> SUFFICES ASSUME Init PROVE PagingInv
  OBVIOUS
<1> USE ReadersAssumption DEF Init
<1>1. TypeOK
  BY DEF TypeOK
<1>2. GapFree
  BY DEF GapFree, Wanted, Matching
<1> QED  BY <1>1, <1>2 DEF PagingInv, StartInv, Init

LEMMA PagingStep == PagingInv /\ [Next]_vars => PagingInv'
<1> SUFFICES ASSUME PagingInv, [Next]_vars PROVE PagingInv'
  OBVIOUS
<1> USE ReadersAssumption DEF PagingInv, StartInv
<1>1. CASE AppendEvent
  <2>1. PICK e \in Events : log' = Append(log, e)
    BY <1>1 DEF AppendEvent
  <2>2. TypeOK'
    BY <1>1, <2>1 DEF AppendEvent, TypeOK
  <2>3. ASSUME NEW r \in Readers
        PROVE  got[r] = {n \in Wanted(r)' : n <= cursor[r]}
    <3>1. /\ log \in Seq(Events) /\ cursor[r] \in 0 .. Len(log) /\ start[r] \in Nat
          /\ start[r]' = start[r]
      BY <1>1 DEF TypeOK, AppendEvent
    <3>2. ASSUME NEW n \in 1 .. Len(log)
          PROVE  n \in Wanted(r)' <=> n \in Wanted(r)
      BY <2>1, <3>1, AppendKeepsMatching DEF Wanted
    <3>3. \A n \in Wanted(r)' : n <= cursor[r] => n \in 1 .. Len(log)
      <4>1. log' \in Seq(Events) /\ DOMAIN log' = 1 .. Len(log) + 1
        BY <2>1, <3>1
      <4> QED  BY <3>1, <4>1 DEF Wanted, Matching
    <3>4. \A n \in Wanted(r) : n \in 1 .. Len(log)
      BY <3>1 DEF Wanted, Matching
    <3> QED  BY <3>2, <3>3, <3>4 DEF GapFree
  <2> QED  BY <1>1, <2>2, <2>3 DEF AppendEvent, GapFree
<1>2. ASSUME NEW r \in Readers, StartReading(r) PROVE PagingInv'
  <2>0. call[r] = "new"
    BY <1>2 DEF StartReading
  <2>1. PICK c \in 0 .. Len(log) :
            cursor' = [cursor EXCEPT ![r] = c] /\ start' = [start EXCEPT ![r] = c]
    BY <1>2 DEF StartReading
  <2>2. TypeOK'
    BY <1>2, <2>1 DEF StartReading, TypeOK
  <2>3. StartInv'
    BY <1>2, <2>1 DEF StartReading, TypeOK
  <2>4. ASSUME NEW q \in Readers
        PROVE  got'[q] = {n \in Wanted(q)' : n <= cursor'[q]}
    <3>1. CASE q = r
      <4>1. \A n \in Wanted(r)' : n > c /\ n \in Nat
        BY <1>2, <2>1 DEF StartReading, Wanted, Matching, TypeOK
      <4>2. got'[r] = {} /\ cursor'[r] = c
        BY <1>2, <2>0, <2>1 DEF StartReading, TypeOK
      <4> QED  BY <3>1, <4>1, <4>2
    <3>2. CASE q # r
      <4>1. /\ start'[q] = start[q] /\ cursor'[q] = cursor[q]
            /\ got' = got /\ log' = log
        BY <1>2, <2>1, <3>2 DEF StartReading, TypeOK
      <4> QED  BY <4>1 DEF GapFree, Wanted
    <3> QED  BY <3>1, <3>2
  <2> QED  BY <2>2, <2>3, <2>4 DEF GapFree
<1>3. ASSUME NEW r \in Readers, CallReadEvents(r) PROVE PagingInv'
  BY <1>3 DEF CallReadEvents, TypeOK, GapFree, Wanted
<1>4. ASSUME NEW r \in Readers, AnswerEvents(r) PROVE PagingInv'
  <2>1. PICK last \in Found(r) :
            /\ \A n \in Found(r) : n <= last
            /\ cursor' = [cursor EXCEPT ![r] = last]
    BY <1>4 DEF AnswerEvents
  <2>2. /\ Found(r) \subseteq Wanted(r)
        /\ \A n \in Found(r) : n \in 1 .. Len(log) /\ cursor[r] < n
    BY FoundIsWanted
  <2>3. TypeOK'
    BY <1>4, <2>1, <2>2 DEF AnswerEvents, TypeOK
  <2>4. StartInv'
    BY <1>4, <2>1, <2>2 DEF AnswerEvents, TypeOK
  <2>5. ASSUME NEW n \in Wanted(r), n <= last PROVE n \in got[r] \cup Found(r)
    <3>1. CASE n <= cursor[r]
      BY <3>1 DEF GapFree
    <3>2. CASE ~(n <= cursor[r])
      <4>1. /\ log \in Seq(Events) /\ cursor[r] \in Nat /\ n \in Nat /\ last \in Nat
            /\ Limit \in Nat
        BY <2>2 DEF TypeOK, Wanted, Matching
      <4>2. n \in Matching(log, Target[r], cursor[r]) /\ Passes(log[n], Types[r])
        BY <3>2, <4>1 DEF Wanted, Matching
      <4>3. last \in Page(log, Target[r], cursor[r], Limit)
        BY DEF Found, ReadEvents
      <4>4. n \in Page(log, Target[r], cursor[r], Limit)
        BY <4>1, <4>2, <4>3, <2>5, PageIsPrefix
      <4> QED  BY <4>2, <4>4 DEF Found, ReadEvents
    <3> QED  BY <3>1, <3>2
  <2>6. GapFree'
    <3>1. \A q \in Readers : Wanted(q)' = Wanted(q)
      BY <1>4 DEF AnswerEvents, Wanted
    <3>2. got[r] \cup Found(r) = {n \in Wanted(r) : n <= last}
      BY <2>1, <2>2, <2>5 DEF GapFree, TypeOK
    <3> QED  BY <1>4, <2>1, <3>1, <3>2 DEF AnswerEvents, GapFree, TypeOK
  <2> QED  BY <2>3, <2>4, <2>6
<1>5. ASSUME NEW r \in Readers, AnswerNone(r) PROVE PagingInv'
  BY <1>5 DEF AnswerNone, TypeOK, GapFree, Wanted
<1>6. CASE UNCHANGED vars
  BY <1>6 DEF vars, TypeOK, GapFree, Wanted
<1> QED  BY <1>1, <1>2, <1>3, <1>4, <1>5, <1>6 DEF Next, Reader

(* What an agent was given are events of the log, and its cursor is the seq  *)
(* of one or 0.                                                              *)
THEOREM TypeCorrect == Spec => []TypeOK
<1>1. Spec => []PagingInv
  BY PagingInit, PagingStep, PTL DEF Spec
<1>2. PagingInv => TypeOK
  BY DEF PagingInv
<1> QED  BY <1>1, <1>2, PTL

(* What holds of every agent in every state of every instance: paging with   *)
(* next_cursor loses no wanted event and adds no other.                      *)
THEOREM PagingIsGapFree == Spec => []GapFree
<1>1. Spec => []PagingInv
  BY PagingInit, PagingStep, PTL DEF Spec
<1>2. PagingInv => GapFree
  BY DEF PagingInv
<1> QED  BY <1>1, <1>2, PTL

(* Each reply's events follow all that its agent was given before.           *)
THEOREM RepliesAreInOrder == Spec => DeliveredInOrder
<1> DEFINE InOrder == \A r \in Readers : call[r] = "polling" /\ call'[r] = "idle" =>
                        \A n \in reply'[r], m \in got[r] : m < n
<1>1. Spec => []PagingInv
  BY PagingInit, PagingStep, PTL DEF Spec
<1>2. PagingInv /\ [Next]_vars => [InOrder]_vars
  <2> SUFFICES ASSUME PagingInv, Next,
                      NEW r \in Readers, call[r] = "polling", call'[r] = "idle",
                      NEW n \in reply'[r], NEW m \in got[r]
               PROVE  m < n
    BY DEF vars
  <2> USE DEF PagingInv, StartInv
  <2>1. CASE AnswerEvents(r)
    <3>1. n \in Found(r) /\ cursor[r] < n /\ n \in Nat
      BY <2>1, FoundIsWanted DEF AnswerEvents, TypeOK
    <3>2. m <= cursor[r] /\ m \in Nat /\ cursor[r] \in Nat
      BY DEF GapFree, TypeOK
    <3> QED  BY <3>1, <3>2
  <2>2. CASE AnswerNone(r)
    BY <2>2 DEF AnswerNone
  <2>3. AnswerEvents(r) \/ AnswerNone(r)
    BY DEF Next, Reader, AppendEvent, StartReading, CallReadEvents, AnswerEvents,
           AnswerNone, TypeOK
  <2> QED  BY <2>1, <2>2, <2>3
<1> QED  BY <1>1, <1>2, PTL DEF Spec, DeliveredInOrder
-----------------------------------------------------------------------------
(* LatestOutput.  The inductive invariant, in parts: the types; a turn whose *)
(* task has begun has a row, and only its finished task completes or fails   *)
(* it; what a call holds; and the two properties, said of one call.          *)
TellEvents == [resource : Turns, parent : {"session"}, text : BOOLEAN,
               type : Streams \cup Ends \cup {"turn.cancelled"}]

OutputRecords == [pc : {"idle", "select", "extract"}, asked : Turns \cup {NoTurn},
                  from : Nat, turn : Turns \cup {NoTurn},
                  status : TurnStatus \cup {"none"}, result : Nat]

RowFollowsTask(t) ==
    /\ task[t] # "none" => row[t] # "absent"
    /\ row[t] \in {"completed", "failed"} => task[t] = "done"

HoldsOutput(c) ==
    /\ output[c].asked # NoTurn => row[output[c].asked] # "absent"
    /\ output[c].pc = "select" => output[c].turn = NoTurn
    /\ output[c].pc # "idle" => output[c].result = 0
    /\ output[c].turn # NoTurn /\ output[c].status \in {"completed", "failed"}
         => task[output[c].turn] = "done"

FreshFor(c) ==
    \A i \in DOMAIN Sources : \A n \in Texts(EventsOf(c), i) :
        \/ n > output[c].from
        \/ Cardinality({m \in EventsOf(c) : m > n}) >= Window
        \/ \E j \in 1 .. i : /\ output[c].result \in Texts(EventsOf(c), j)
                             /\ j = i => n <= output[c].result

FinalFor(c) ==
    /\ output[c].status \in {"completed", "failed"}
    /\ Cardinality(EventsOf(c)) <= Window
    => Results(Recent(turnLog, output[c].turn, Window)) = {output[c].result} \ {0}

OutputInv ==
    /\ OutputTypeOK
    /\ output \in [Askers -> OutputRecords]
    /\ \A t \in Turns : RowFollowsTask(t)
    /\ \A c \in Askers : HoldsOutput(c)
    /\ \A c \in Replies : FreshFor(c) /\ FinalFor(c)

(* There are three places where a result is looked for.                     *)
LEMMA SourcesAreThree == DOMAIN Sources = 1 .. 3
BY DEF Sources

(* A turn's own events are its events: the session is the parent of all.     *)
LEMMA EventsOfATurn ==
    ASSUME OutputTypeOK, NEW t \in Turns
    PROVE  /\ turnLog \in Seq(TellEvents) /\ DOMAIN turnLog = 1 .. Len(turnLog)
           /\ Len(turnLog) \in Nat
           /\ Matching(turnLog, t, 0) = {n \in 1 .. Len(turnLog) : turnLog[n].resource = t}
           /\ IsFiniteSet(Matching(turnLog, t, 0))
<1>1. turnLog \in Seq(TellEvents)
  BY DEF OutputTypeOK, TellEvents
<1>2. DOMAIN turnLog = 1 .. Len(turnLog) /\ Len(turnLog) \in Nat
  BY <1>1
<1>3. \A n \in 1 .. Len(turnLog) : turnLog[n].parent = "session"
  <2>1. \A n \in 1 .. Len(turnLog) : turnLog[n] \in TellEvents
    BY <1>1
  <2>2. \A e \in TellEvents : e.parent = "session"
    BY DEF TellEvents
  <2> QED  BY <2>1, <2>2
<1>4. t # "session"
  BY OutputAssumption
<1>5. IsFiniteSet(Matching(turnLog, t, 0))
  BY <1>1, MatchingIsFinite
<1> QED  BY <1>1, <1>2, <1>3, <1>4, <1>5 DEF Matching

(* What an append does to the log and to the events of a turn.               *)
LEMMA TellAppends ==
    ASSUME OutputTypeOK, NEW t \in Turns, NEW text \in BOOLEAN,
           NEW type \in Streams \cup Ends \cup {"turn.cancelled"},
           Tell(t, type, text), NEW u \in Turns
    PROVE  /\ turnLog' \in Seq(TellEvents) /\ Len(turnLog') = Len(turnLog) + 1
           /\ \A n \in 1 .. Len(turnLog) : turnLog'[n] = turnLog[n]
           /\ turnLog'[Len(turnLog) + 1].text = text
           /\ Matching(turnLog, u, 0)' =
                Matching(turnLog, u, 0) \cup (IF u = t THEN {Len(turnLog) + 1} ELSE {})
           /\ IsFiniteSet(Matching(turnLog, u, 0)')
<1> DEFINE e == [resource |-> t, parent |-> "session", type |-> type, text |-> text]
<1>1. turnLog \in Seq(TellEvents) /\ Len(turnLog) \in Nat
  BY EventsOfATurn
<1>2. e \in TellEvents
  BY DEF TellEvents
<1>3. turnLog' = Append(turnLog, e)
  BY DEF Tell
<1>4. /\ turnLog' \in Seq(TellEvents) /\ Len(turnLog') = Len(turnLog) + 1
      /\ DOMAIN turnLog' = 1 .. Len(turnLog) + 1
      /\ \A n \in 1 .. Len(turnLog) : turnLog'[n] = turnLog[n]
      /\ turnLog'[Len(turnLog) + 1] = e
  <2> HIDE DEF e
  <2> QED  BY <1>1, <1>2, <1>3
<1>5. t # "session" /\ u # "session"
  BY OutputAssumption
<1>6. \A n \in 1 .. Len(turnLog) + 1 : turnLog'[n].parent = "session"
  <2>1. \A n \in 1 .. Len(turnLog) + 1 : turnLog'[n] \in TellEvents
    BY <1>1, <1>4
  <2>2. \A d \in TellEvents : d.parent = "session"
    BY DEF TellEvents
  <2> QED  BY <2>1, <2>2
<1>7. Matching(turnLog, u, 0)' = {n \in 1 .. Len(turnLog) + 1 : turnLog'[n].resource = u}
  BY <1>4, <1>5, <1>6 DEF Matching
<1>8. Matching(turnLog, u, 0) = {n \in 1 .. Len(turnLog) : turnLog[n].resource = u}
  BY EventsOfATurn
<1>9. \A n \in 1 .. Len(turnLog) + 1 : n \in 1 .. Len(turnLog) \/ n = Len(turnLog) + 1
  BY <1>1
<1>10. turnLog'[Len(turnLog) + 1].resource = t
  BY <1>4
<1>11. Len(turnLog) + 1 \in 1 .. Len(turnLog) + 1
  BY <1>1
<1>12. 1 .. Len(turnLog) \subseteq 1 .. Len(turnLog) + 1
  BY <1>1
<1>13. ASSUME NEW n
       PROVE  n \in Matching(turnLog, u, 0)' <=>
                n \in Matching(turnLog, u, 0) \/ (u = t /\ n = Len(turnLog) + 1)
  BY <1>4, <1>7, <1>8, <1>9, <1>10, <1>11, <1>12
<1>14. IsFiniteSet(Matching(turnLog, u, 0)')
  BY <1>4, MatchingIsFinite
<1> QED  BY <1>4, <1>13, <1>14

(* A result is the only one, and an event that has a text where it counts.   *)
LEMMA OneResult ==
    ASSUME NEW k \in Nat, NEW events \in SUBSET (1 .. k),
           NEW m \in Results(events), NEW n \in Results(events)
    PROVE  m = n
<1>1. PICK i \in 1 .. 3 : /\ m \in Texts(events, i)
                          /\ \A q \in Texts(events, i) : q <= m
                          /\ \A j \in 1 .. i - 1 : Texts(events, j) = {}
  BY SourcesAreThree DEF Results
<1>2. PICK j \in 1 .. 3 : /\ n \in Texts(events, j)
                          /\ \A q \in Texts(events, j) : q <= n
                          /\ \A h \in 1 .. j - 1 : Texts(events, h) = {}
  BY SourcesAreThree DEF Results
<1>3. ~(j \in 1 .. i - 1) /\ ~(i \in 1 .. j - 1)
  BY <1>1, <1>2
<1>4. i = j
  BY <1>3
<1>5. m \in Nat /\ n \in Nat
  BY DEF Results
<1>6. m <= n /\ n <= m
  BY <1>1, <1>2, <1>4
<1> QED  BY <1>5, <1>6

(* If a text is among the events, there is a result.                         *)
LEMMA SomeResult ==
    ASSUME NEW k \in Nat, NEW events \in SUBSET (1 .. k), NEW i \in 1 .. 3,
           Texts(events, i) # {}
    PROVE  Results(events) # {}
<1>1. PICK j \in 1 .. 3 : Texts(events, j) # {} /\ \A h \in 1 .. j - 1 : Texts(events, h) = {}
  <2>1. CASE Texts(events, 1) # {}
    BY <2>1
  <2>2. CASE Texts(events, 1) = {} /\ Texts(events, 2) # {}
    <3>1. \A h \in 1 .. 2 - 1 : h = 1
      OBVIOUS
    <3> QED  BY <2>2, <3>1
  <2>3. CASE Texts(events, 1) = {} /\ Texts(events, 2) = {}
    <3>1. i = 3
      BY <2>3
    <3>2. \A h \in 1 .. 3 - 1 : h = 1 \/ h = 2
      OBVIOUS
    <3> QED  BY <2>3, <3>1, <3>2
  <2> QED  BY <2>1, <2>2, <2>3
<1>2. Texts(events, j) \in SUBSET (1 .. k)
  BY DEF Texts
<1>3. PICK n \in Texts(events, j) : \A m \in Texts(events, j) : m <= n
  BY <1>1, <1>2, LastExists
<1>4. n \in events
  BY <1>3 DEF Texts
<1> QED  BY <1>1, <1>3, <1>4, SourcesAreThree DEF Results
(* Where neither the log nor the call changes, what was said of it stays.    *)
LEMMA SameLogKeepsReplies ==
    ASSUME OutputInv, turnLog' = turnLog, NEW c \in Askers, c \in Replies,
           output'[c] = output[c]
    PROVE  FreshFor(c)' /\ FinalFor(c)'
<1>1. FreshFor(c) /\ FinalFor(c)
  BY DEF OutputInv
<1>2. EventsOf(c)' = EventsOf(c)
  BY DEF EventsOf, Matching
<1>3. \A events, i : Texts(events, i)' = Texts(events, i)
  BY DEF Texts
<1>4. Results(Recent(turnLog, output[c].turn, Window))'
        = Results(Recent(turnLog, output[c].turn, Window))
  BY <1>3 DEF Recent, Matching, Results, Texts
<1> QED  BY <1>1, <1>2, <1>4 DEF FreshFor, FinalFor, Texts

(* Appending an event leaves a reply fresh: what is new is later than the    *)
(* call, what was there keeps its text, and no event stops being later.      *)
LEMMA TellKeepsFresh ==
    ASSUME OutputInv, NEW t \in Turns, NEW text \in BOOLEAN,
           NEW type \in Streams \cup Ends \cup {"turn.cancelled"},
           Tell(t, type, text), output' = output, NEW c \in Replies
    PROVE  FreshFor(c)'
<1> DEFINE u == output[c].turn
           N == Len(turnLog) + 1
<1>1. OutputTypeOK /\ FreshFor(c) /\ c \in Askers
  BY DEF OutputInv, Replies
<1>2. u \in Turns /\ output[c].from \in 0 .. Len(turnLog)
  BY <1>1 DEF OutputTypeOK, Replies
<1>3. /\ \A n \in 1 .. Len(turnLog) : turnLog'[n] = turnLog[n]
      /\ EventsOf(c)' = EventsOf(c) \cup (IF u = t THEN {N} ELSE {})
      /\ IsFiniteSet(EventsOf(c)')
  BY <1>1, <1>2, TellAppends DEF EventsOf
<1>4. /\ EventsOf(c) \subseteq 1 .. Len(turnLog) /\ IsFiniteSet(EventsOf(c))
      /\ Len(turnLog) \in Nat
  BY <1>1, <1>2, EventsOfATurn DEF EventsOf
<1>5. \A i : Texts(EventsOf(c), i) \subseteq Texts(EventsOf(c), i)'
  BY <1>3, <1>4 DEF Texts
<1> SUFFICES ASSUME NEW i \in DOMAIN Sources, NEW n \in Texts(EventsOf(c), i)'
             PROVE  \/ n > output[c].from
                    \/ Cardinality({m \in EventsOf(c)' : m > n}) >= Window
                    \/ \E j \in 1 .. i : /\ output[c].result \in Texts(EventsOf(c), j)'
                                         /\ j = i => n <= output[c].result
  BY DEF FreshFor
<1>6. n \in EventsOf(c)'
  BY DEF Texts
<1>7. CASE n = N
  BY <1>2, <1>4, <1>7
<1>8. CASE n # N
  <2>1. n \in EventsOf(c) /\ n \in 1 .. Len(turnLog)
    BY <1>3, <1>4, <1>6, <1>8
  <2>2. n \in Texts(EventsOf(c), i)
    BY <1>3, <2>1 DEF Texts
  <2>3. CASE Cardinality({m \in EventsOf(c) : m > n}) >= Window
    <3> DEFINE Before == {m \in EventsOf(c) : m > n}
               After == {m \in EventsOf(c)' : m > n}
    <3>1. IsFiniteSet(After) /\ Before \subseteq After
      BY <1>3, FS_Subset
    <3>2. /\ Cardinality(Before) <= Cardinality(After) /\ IsFiniteSet(Before)
          /\ Cardinality(Before) \in Nat /\ Cardinality(After) \in Nat
      BY <3>1, FS_Subset, FS_CardinalityType
    <3>3. Window \in Nat
      BY OutputAssumption
    <3> HIDE DEF Before, After
    <3>4. Cardinality(Before) >= Window
      BY <2>3 DEF Before
    <3>5. Cardinality(After) >= Window
      BY <3>2, <3>3, <3>4
    <3> QED  BY <3>5 DEF After
  <2>4. CASE \E j \in 1 .. i : /\ output[c].result \in Texts(EventsOf(c), j)
                               /\ j = i => n <= output[c].result
    BY <1>5, <2>4
  <2> QED  BY <1>1, <2>2, <2>3, <2>4 DEF FreshFor
<1> QED  BY <1>7, <1>8

(* Appending an event without a text to a turn, or any event to another      *)
(* turn, leaves the result of a turn that fits in the window as it was.      *)
LEMMA TellKeepsResults ==
    ASSUME OutputTypeOK, NEW t \in Turns, NEW text \in BOOLEAN,
           NEW type \in Streams \cup Ends \cup {"turn.cancelled"},
           Tell(t, type, text), NEW u \in Turns, u = t => ~text,
           Cardinality(Matching(turnLog, u, 0)') <= Window
    PROVE  /\ Cardinality(Matching(turnLog, u, 0)) <= Window
           /\ Results(Recent(turnLog, u, Window))' = Results(Recent(turnLog, u, Window))
<1> DEFINE N == Len(turnLog) + 1
           E == Matching(turnLog, u, 0)
<1>1. /\ turnLog' \in Seq(TellEvents)
      /\ \A n \in 1 .. Len(turnLog) : turnLog'[n] = turnLog[n]
      /\ turnLog'[N].text = text
      /\ E' = E \cup (IF u = t THEN {N} ELSE {}) /\ IsFiniteSet(E')
  BY TellAppends
<1>2. /\ E \subseteq 1 .. Len(turnLog) /\ IsFiniteSet(E) /\ turnLog \in Seq(TellEvents)
      /\ Len(turnLog) \in Nat /\ Window \in Nat
  BY EventsOfATurn, OutputAssumption
<1>3. Cardinality(E) <= Window
  <2>1. E \subseteq E' /\ IsFiniteSet(E')
    BY <1>1
  <2>2. /\ Cardinality(E) <= Cardinality(E')
        /\ Cardinality(E) \in Nat /\ Cardinality(E') \in Nat
    BY <2>1, FS_Subset, FS_CardinalityType
  <2>3. Cardinality(E') <= Window
    OBVIOUS
  <2> HIDE DEF E
  <2> QED  BY <1>2, <2>2, <2>3
<1>4. Recent(turnLog, u, Window) = E
  BY <1>2, <1>3, RecentOfFew
<1>5. Recent(turnLog, u, Window)' = E'
  BY <1>1, <1>2, RecentOfFew
<1>6. \A i : Texts(E, i)' = Texts(E, i)
  BY <1>1, <1>2 DEF Texts
<1>7. \A n \in E' : (\E i : n \in Texts(E, i)') => n \in E
  BY <1>1, <1>6 DEF Texts
<1>8. Results(E)' = Results(E)
  <2>1. E \subseteq E'
    BY <1>1
  <2>2. \A i, n : n \in Texts(E, i) => n \in E
    BY DEF Texts
  <2> HIDE DEF E
  <2> QED  BY <1>6, <1>7, <2>1, <2>2 DEF Results
<1> QED  BY <1>3, <1>4, <1>5, <1>8
(* No append changes a reply that shows a finished turn: the turn's task has *)
(* logged its last event, and a cancellation's event has no text.            *)
LEMMA TellKeepsReplies ==
    ASSUME OutputInv, NEW t \in Turns, NEW text \in BOOLEAN,
           NEW type \in Streams \cup Ends \cup {"turn.cancelled"},
           Tell(t, type, text), output' = output, task[t] = "done" => ~text
    PROVE  \A c \in Replies' : FreshFor(c)' /\ FinalFor(c)'
<1>1. Replies' = Replies
  BY DEF Replies
<1>2. ASSUME NEW c \in Replies PROVE FinalFor(c)'
  <2>1. OutputTypeOK /\ FinalFor(c) /\ HoldsOutput(c) /\ c \in Askers
    BY DEF OutputInv, Replies
  <2>2. output[c].turn \in Turns /\ output[c].turn # NoTurn
    BY <2>1 DEF OutputTypeOK, Replies
  <2> SUFFICES ASSUME output[c].status \in {"completed", "failed"},
                      Cardinality(Matching(turnLog, output[c].turn, 0)') <= Window
               PROVE  Results(Recent(turnLog, output[c].turn, Window))'
                        = {output[c].result} \ {0}
    BY DEF FinalFor, EventsOf
  <2>3. task[output[c].turn] = "done"
    BY <2>1, <2>2 DEF HoldsOutput
  <2>4. output[c].turn = t => ~text
    BY <2>3
  <2>5. /\ Cardinality(EventsOf(c)) <= Window
        /\ Results(Recent(turnLog, output[c].turn, Window))'
             = Results(Recent(turnLog, output[c].turn, Window))
    BY <2>1, <2>2, <2>4, TellKeepsResults DEF EventsOf
  <2> QED  BY <2>1, <2>5 DEF FinalFor
<1> QED  BY <1>1, <1>2, TellKeepsFresh

(* A step that only changes rows and tasks changes no reply.                 *)
LEMMA QuietKeepsReplies ==
    ASSUME OutputInv, turnLog' = turnLog, output' = output
    PROVE  \A c \in Replies' : FreshFor(c)' /\ FinalFor(c)'
<1>1. Replies' = Replies /\ \A c \in Replies : c \in Askers
  BY DEF Replies
<1> QED  BY <1>1, SameLogKeepsReplies

(* The stamp of a row is a number like the others.                           *)
LEMMA SetTurnTypes ==
    ASSUME OutputTypeOK, NEW t \in Turns, NEW status \in TurnStatus, SetTurn(t, status)
    PROVE  /\ row' = [row EXCEPT ![t] = status]
           /\ row' \in [Turns -> TurnStatus \cup {"absent"}]
           /\ at' \in [Turns -> Nat]
<1>1. row \in [Turns -> TurnStatus \cup {"absent"}] /\ at \in [Turns -> Nat]
  BY DEF OutputTypeOK
<1>2. row' = [row EXCEPT ![t] = status]
  BY DEF SetTurn
<1>3. PICK s \in Turns : at' = [at EXCEPT ![t] = at[s] + 1]
  BY DEF SetTurn
<1>4. at[s] + 1 \in Nat
  BY <1>1, <1>3
<1> QED  BY <1>1, <1>2, <1>3, <1>4

(* What the calls hold is kept when they do not move, rows stay and finished *)
(* tasks stay finished.                                                      *)
LEMMA WritersKeepHoldings ==
    ASSUME OutputInv, output' = output,
           \A t \in Turns : row[t] # "absent" => row'[t] # "absent",
           \A t \in Turns : task[t] = "done" => task'[t] = "done"
    PROVE  /\ output' \in [Askers -> OutputRecords]
           /\ \A c \in Askers : HoldsOutput(c)'
<1>1. ASSUME NEW c \in Askers PROVE HoldsOutput(c)'
  <2>1. output[c].asked \in Turns \cup {NoTurn} /\ output[c].turn \in Turns \cup {NoTurn}
    BY DEF OutputInv, OutputTypeOK
  <2>2. HoldsOutput(c)
    BY DEF OutputInv
  <2> QED  BY <2>1, <2>2 DEF HoldsOutput
<1> QED  BY <1>1 DEF OutputInv

(* The types of the log, and of what the calls hold of it, after an append.  *)
LEMMA TellTypes ==
    ASSUME OutputTypeOK, NEW t \in Turns, NEW text \in BOOLEAN,
           NEW type \in Streams \cup Ends \cup {"turn.cancelled"},
           Tell(t, type, text), output' = output,
           row' \in [Turns -> TurnStatus \cup {"absent"}], at' \in [Turns -> Nat],
           task' \in [Turns -> {"none", "running", "done"} \cup Outcomes],
           cancel' \in [Turns -> {"none", "stored", "recorded"}]
    PROVE  OutputTypeOK'
<1>1. turnLog' \in Seq(TellEvents) /\ Len(turnLog') = Len(turnLog) + 1 /\ Len(turnLog) \in Nat
  BY TellAppends, EventsOfATurn
<1>2. 0 .. Len(turnLog) \subseteq 0 .. Len(turnLog')
  BY <1>1
<1> QED  BY <1>1, <1>2 DEF OutputTypeOK, TellEvents

(* The same when nothing is appended.                                        *)
LEMMA QuietTypes ==
    ASSUME OutputTypeOK, turnLog' = turnLog, output' = output,
           row' \in [Turns -> TurnStatus \cup {"absent"}], at' \in [Turns -> Nat],
           task' \in [Turns -> {"none", "running", "done"} \cup Outcomes],
           cancel' \in [Turns -> {"none", "stored", "recorded"}]
    PROVE  OutputTypeOK'
BY DEF OutputTypeOK

(* The steps of the writers.                                                 *)
LEMMA WritersStep ==
    ASSUME OutputInv, NEW t \in Turns,
           \/ Send(t) \/ Stream(t) \/ RecordOutcome(t) \/ StoreOutcome(t)
           \/ StoreCancelled(t) \/ RecordCancelled(t)
    PROVE  OutputInv'
<1>1. /\ OutputTypeOK /\ \A u \in Turns : RowFollowsTask(u)
      /\ row \in [Turns -> TurnStatus \cup {"absent"}] /\ at \in [Turns -> Nat]
      /\ task \in [Turns -> {"none", "running", "done"} \cup Outcomes]
      /\ cancel \in [Turns -> {"none", "stored", "recorded"}]
  BY DEF OutputInv, OutputTypeOK
<1>2. "done" \notin Outcomes /\ "none" \notin Outcomes /\ Outcomes \subseteq TurnStatus
  BY OutputAssumption DEF Terminal, TurnStatus
<1>3. "message.delta" \in Streams /\ Streamed \subseteq Streams
  BY OutputAssumption DEF Streams
<1>4. ASSUME Send(t) PROVE OutputInv'
  <2>1. /\ SetTurn(t, "running") /\ Tell(t, "message.delta", FALSE) /\ row[t] = "absent"
        /\ task' = [task EXCEPT ![t] = "running"] /\ cancel' = cancel /\ output' = output
    BY <1>4 DEF Send
  <2>2. /\ row' = [row EXCEPT ![t] = "running"]
        /\ row' \in [Turns -> TurnStatus \cup {"absent"}] /\ at' \in [Turns -> Nat]
    BY <1>1, <2>1, SetTurnTypes DEF TurnStatus
  <2>3. OutputTypeOK'
    BY <1>1, <1>3, <2>1, <2>2, TellTypes
  <2>4. \A u \in Turns : RowFollowsTask(u)'
    BY <1>1, <2>1, <2>2 DEF RowFollowsTask
  <2>5. task[t] # "done"
    BY <1>1, <2>1 DEF RowFollowsTask
  <2>6. /\ output' \in [Askers -> OutputRecords]
        /\ \A c \in Askers : HoldsOutput(c)'
    BY <1>1, <2>1, <2>2, <2>5, WritersKeepHoldings
  <2>7. \A c \in Replies' : FreshFor(c)' /\ FinalFor(c)'
    BY <1>3, <2>1, TellKeepsReplies
  <2> QED  BY <2>3, <2>4, <2>6, <2>7 DEF OutputInv
<1>5. ASSUME Stream(t) PROVE OutputInv'
  <2>1. PICK type \in Streamed, text \in BOOLEAN : Tell(t, type, text)
    BY <1>5 DEF Stream
  <2>2. /\ task[t] = "running" /\ row' = row /\ at' = at /\ task' = task
        /\ cancel' = cancel /\ output' = output
    BY <1>5 DEF Stream
  <2>3. OutputTypeOK'
    BY <1>1, <1>3, <2>1, <2>2, TellTypes
  <2>4. \A u \in Turns : RowFollowsTask(u)'
    BY <1>1, <2>2 DEF RowFollowsTask
  <2>5. /\ output' \in [Askers -> OutputRecords]
        /\ \A c \in Askers : HoldsOutput(c)'
    BY <2>2, WritersKeepHoldings
  <2>6. \A c \in Replies' : FreshFor(c)' /\ FinalFor(c)'
    BY <1>3, <2>1, <2>2, TellKeepsReplies
  <2> QED  BY <2>3, <2>4, <2>5, <2>6 DEF OutputInv
<1>6. ASSUME RecordOutcome(t) PROVE OutputInv'
  <2>1. PICK o \in Outcomes, text \in BOOLEAN :
            Tell(t, EndOf[o], text) /\ task' = [task EXCEPT ![t] = o]
    BY <1>6 DEF RecordOutcome
  <2>2. /\ task[t] = "running" /\ row' = row /\ at' = at
        /\ cancel' = cancel /\ output' = output
    BY <1>6 DEF RecordOutcome
  <2>3. EndOf[o] \in Streams \cup Ends \cup {"turn.cancelled"}
    BY DEF Ends
  <2>4. task' \in [Turns -> {"none", "running", "done"} \cup Outcomes]
    BY <1>1, <2>1
  <2>5. OutputTypeOK'
    BY <1>1, <2>1, <2>2, <2>3, <2>4, TellTypes
  <2>6. \A u \in Turns : RowFollowsTask(u)'
    BY <1>1, <2>1, <2>2 DEF RowFollowsTask
  <2>7. /\ output' \in [Askers -> OutputRecords]
        /\ \A c \in Askers : HoldsOutput(c)'
    BY <1>1, <2>1, <2>2, WritersKeepHoldings
  <2>8. \A c \in Replies' : FreshFor(c)' /\ FinalFor(c)'
    BY <2>1, <2>2, <2>3, TellKeepsReplies
  <2> QED  BY <2>5, <2>6, <2>7, <2>8 DEF OutputInv
<1>7. ASSUME StoreOutcome(t) PROVE OutputInv'
  <2>1. /\ task[t] \in Outcomes /\ SetTurn(t, task[t])
        /\ task' = [task EXCEPT ![t] = "done"] /\ cancel' = cancel
        /\ turnLog' = turnLog /\ output' = output
    BY <1>7 DEF StoreOutcome
  <2>2. /\ row' = [row EXCEPT ![t] = task[t]]
        /\ row' \in [Turns -> TurnStatus \cup {"absent"}] /\ at' \in [Turns -> Nat]
    BY <1>1, <1>2, <2>1, SetTurnTypes
  <2>3. OutputTypeOK'
    BY <1>1, <2>1, <2>2, QuietTypes
  <2>4. "absent" \notin Outcomes
    BY OutputAssumption DEF Terminal
  <2>5. \A u \in Turns : RowFollowsTask(u)'
    BY <1>1, <2>1, <2>2, <2>4 DEF RowFollowsTask
  <2>6. /\ output' \in [Askers -> OutputRecords]
        /\ \A c \in Askers : HoldsOutput(c)'
    BY <1>1, <2>1, <2>2, <2>4, WritersKeepHoldings
  <2>7. \A c \in Replies' : FreshFor(c)' /\ FinalFor(c)'
    BY <2>1, QuietKeepsReplies
  <2> QED  BY <2>3, <2>5, <2>6, <2>7 DEF OutputInv
<1>8. ASSUME StoreCancelled(t) PROVE OutputInv'
  <2>1. /\ row[t] # "absent" /\ SetTurn(t, "cancelled")
        /\ cancel' = [cancel EXCEPT ![t] = "stored"] /\ task' = task
        /\ turnLog' = turnLog /\ output' = output
    BY <1>8 DEF StoreCancelled
  <2>2. /\ row' = [row EXCEPT ![t] = "cancelled"]
        /\ row' \in [Turns -> TurnStatus \cup {"absent"}] /\ at' \in [Turns -> Nat]
    BY <1>1, <2>1, SetTurnTypes DEF TurnStatus, Terminal
  <2>3. OutputTypeOK'
    BY <1>1, <2>1, <2>2, QuietTypes
  <2>4. \A u \in Turns : RowFollowsTask(u)'
    BY <1>1, <2>1, <2>2 DEF RowFollowsTask
  <2>5. /\ output' \in [Askers -> OutputRecords]
        /\ \A c \in Askers : HoldsOutput(c)'
    BY <1>1, <2>1, <2>2, WritersKeepHoldings
  <2>6. \A c \in Replies' : FreshFor(c)' /\ FinalFor(c)'
    BY <2>1, QuietKeepsReplies
  <2> QED  BY <2>3, <2>4, <2>5, <2>6 DEF OutputInv
<1>9. ASSUME RecordCancelled(t) PROVE OutputInv'
  <2>1. /\ Tell(t, "turn.cancelled", FALSE) /\ cancel' = [cancel EXCEPT ![t] = "recorded"]
        /\ row' = row /\ at' = at /\ task' = task /\ output' = output
    BY <1>9 DEF RecordCancelled
  <2>2. OutputTypeOK'
    BY <1>1, <2>1, TellTypes
  <2>3. \A u \in Turns : RowFollowsTask(u)'
    BY <1>1, <2>1 DEF RowFollowsTask
  <2>4. /\ output' \in [Askers -> OutputRecords]
        /\ \A c \in Askers : HoldsOutput(c)'
    BY <2>1, WritersKeepHoldings
  <2>5. \A c \in Replies' : FreshFor(c)' /\ FinalFor(c)'
    BY <2>1, TellKeepsReplies
  <2> QED  BY <2>2, <2>3, <2>4, <2>5 DEF OutputInv
<1> QED  BY <1>4, <1>5, <1>6, <1>7, <1>8, <1>9
(* A step of one call: the log and the rows are as they were, and only that  *)
(* call's record changes, to one that says nothing or that is fresh and      *)
(* final.                                                                    *)
LEMMA CallStep ==
    ASSUME OutputInv, NEW c \in Askers, NEW r \in OutputRecords,
           UNCHANGED <<turnLog, row, at, task, cancel>>,
           output' = [output EXCEPT ![c] = r],
           r.status \in IF r.turn = NoTurn THEN {"none"}
                        ELSE IF r.asked = NoTurn THEN Terminal ELSE TurnStatus,
           r.from \in 0 .. Len(turnLog), r.result \in 0 .. Len(turnLog),
           HoldsOutput(c)',
           r.pc = "idle" /\ r.turn # NoTurn => FreshFor(c)' /\ FinalFor(c)'
    PROVE  OutputInv'
<1> USE DEF OutputInv
<1>1. output' \in [Askers -> OutputRecords]
  OBVIOUS
<1>2. /\ output'[c] = r
      /\ \A d \in Askers : d # c => output'[d] = output[d]
  OBVIOUS
<1>3. /\ r.pc \in {"idle", "select", "extract"} /\ r.asked \in Turns \cup {NoTurn}
      /\ r.turn \in Turns \cup {NoTurn}
  BY DEF OutputRecords
<1>4. OutputTypeOK'
  BY <1>2, <1>3 DEF OutputTypeOK
<1>5. \A t \in Turns : RowFollowsTask(t)'
  BY DEF RowFollowsTask
<1>6. \A d \in Askers : HoldsOutput(d)'
  <2>1. ASSUME NEW d \in Askers, d # c PROVE HoldsOutput(d)'
    BY <1>2, <2>1 DEF HoldsOutput
  <2> QED  BY <2>1
<1>7. ASSUME NEW d \in Replies' PROVE FreshFor(d)' /\ FinalFor(d)'
  <2>1. CASE d = c
    BY <1>2, <2>1 DEF Replies
  <2>2. CASE d # c
    <3>1. d \in Askers /\ d \in Replies /\ output'[d] = output[d]
      BY <1>2, <2>2 DEF Replies
    <3> QED  BY <3>1, SameLogKeepsReplies
  <2> QED  BY <2>1, <2>2
<1> QED  BY <1>1, <1>4, <1>5, <1>6, <1>7

(* The result of the window is a text of the turn that no other beats, but   *)
(* for those the window hides.                                               *)
LEMMA ExtractIsFresh ==
    ASSUME OutputTypeOK, NEW u \in Turns, NEW from, NEW result,
           LET found == Results(Recent(turnLog, u, Window))
           IN  (found = {} /\ result = 0) \/ result \in found
    PROVE  \A i \in DOMAIN Sources : \A n \in Texts(Matching(turnLog, u, 0), i) :
               \/ Cardinality({m \in Matching(turnLog, u, 0) : m > n}) >= Window
               \/ \E j \in 1 .. i : /\ result \in Texts(Matching(turnLog, u, 0), j)
                                    /\ j = i => n <= result
<1> DEFINE E == Matching(turnLog, u, 0)
           R == Recent(turnLog, u, Window)
<1>1. /\ E \subseteq 1 .. Len(turnLog) /\ Len(turnLog) \in Nat /\ IsFiniteSet(E)
      /\ R \subseteq E /\ Window \in Nat
  BY EventsOfATurn, OutputAssumption DEF Recent
<1> SUFFICES ASSUME NEW i \in 1 .. 3, NEW n \in Texts(E, i),
                    ~(Cardinality({m \in E : m > n}) >= Window)
             PROVE  \E j \in 1 .. i : result \in Texts(E, j) /\ (j = i => n <= result)
  BY SourcesAreThree
<1>2. n \in E
  BY DEF Texts
<1>3. Cardinality({m \in E : m > n}) \in Nat
  BY <1>1, FS_Subset, FS_CardinalityType
<1>4. Cardinality({m \in E : m > n}) < Window
  <2> HIDE DEF E
  <2> QED  BY <1>1, <1>3
<1>5. n \in R
  BY <1>2, <1>4 DEF Recent
<1>6. n \in Texts(R, i)
  BY <1>5 DEF Texts
<1>7. R \in SUBSET (1 .. Len(turnLog))
  BY <1>1
<1>8. Results(R) # {}
  <2> HIDE DEF R
  <2> QED  BY <1>1, <1>6, <1>7, SomeResult
<1>9. result \in Results(R)
  BY <1>8
<1>10. PICK k \in 1 .. 3 : /\ result \in Texts(R, k)
                           /\ \A m \in Texts(R, k) : m <= result
                           /\ \A j \in 1 .. k - 1 : Texts(R, j) = {}
  BY <1>9, SourcesAreThree DEF Results
<1>11. k \in 1 .. i
  BY <1>6, <1>10
<1>12. result \in Texts(E, k)
  BY <1>1, <1>10 DEF Texts
<1> QED  BY <1>6, <1>10, <1>11, <1>12

(* The steps of the calls.                                                   *)
LEMMA AskersStep ==
    ASSUME OutputInv, NEW c \in Askers, Ask(c) \/ Select(c) \/ Extract(c)
    PROVE  OutputInv'
<1>1. /\ OutputTypeOK /\ output[c] \in OutputRecords /\ HoldsOutput(c)
      /\ Len(turnLog) \in Nat
  BY EventsOfATurn DEF OutputInv, OutputTypeOK
<1>2. /\ output[c].asked \in Turns \cup {NoTurn} /\ output[c].turn \in Turns \cup {NoTurn}
      /\ output[c].status \in IF output[c].turn = NoTurn THEN {"none"}
                              ELSE IF output[c].asked = NoTurn THEN Terminal ELSE TurnStatus
      /\ output[c].from \in 0 .. Len(turnLog) /\ output[c].result \in 0 .. Len(turnLog)
      /\ output \in [Askers -> OutputRecords]
  BY <1>1 DEF OutputTypeOK, OutputInv
<1>3. ASSUME Ask(c) PROVE OutputInv'
  <2>1. UNCHANGED <<turnLog, row, at, task, cancel>>
    BY <1>3 DEF Ask
  <2>2. PICK t \in {NoTurn} \cup {u \in Turns : row[u] # "absent"} :
            output' = [output EXCEPT ![c] = [NoReply EXCEPT !.pc = "select", !.asked = t,
                                                            !.from = Len(turnLog)]]
    BY <1>3 DEF Ask
  <2> DEFINE r == [NoReply EXCEPT !.pc = "select", !.asked = t, !.from = Len(turnLog)]
  <2>3. /\ NoReply \in OutputRecords /\ NoReply.turn = NoTurn
        /\ NoReply.status = "none" /\ NoReply.result = 0
    BY DEF NoReply, OutputRecords
  <2>4. output' = [output EXCEPT ![c] = r]
    BY <2>2
  <2>5. r \in OutputRecords
    BY <1>1, <2>2, <2>3 DEF OutputRecords
  <2>6. /\ r.pc = "select" /\ r.asked = t /\ r.from = Len(turnLog) /\ r.turn = NoTurn
        /\ r.status = "none" /\ r.result = 0
    BY <2>3 DEF OutputRecords
  <2> HIDE DEF r
  <2>7. output'[c] = r
    BY <1>2, <2>4
  <2>8. HoldsOutput(c)'
    BY <2>1, <2>2, <2>6, <2>7 DEF HoldsOutput
  <2>9. Len(turnLog) \in 0 .. Len(turnLog) /\ 0 \in 0 .. Len(turnLog)
    BY <1>1
  <2> QED  BY <2>1, <2>4, <2>5, <2>6, <2>8, <2>9, CallStep
<1>4. ASSUME Select(c) PROVE OutputInv'
  <2>1. /\ UNCHANGED <<turnLog, row, at, task, cancel>>
        /\ output[c].pc = "select" /\ output[c].turn = NoTurn /\ output[c].result = 0
    BY <1>1, <1>4 DEF Select, HoldsOutput
  <2>2. CASE output' = [output EXCEPT ![c].pc = "idle"]
    <3> DEFINE r == [output[c] EXCEPT !.pc = "idle"]
    <3>1. output' = [output EXCEPT ![c] = r] /\ r \in OutputRecords
      BY <1>1, <2>2 DEF OutputRecords
    <3>2. /\ r.asked = output[c].asked /\ r.turn = NoTurn /\ r.status = output[c].status
          /\ r.result = output[c].result /\ r.from = output[c].from /\ r.pc = "idle"
      BY <1>1, <2>1 DEF OutputRecords
    <3> HIDE DEF r
    <3>3. output'[c] = r
      BY <1>2, <3>1
    <3>4. HoldsOutput(c)'
      BY <1>1, <2>1, <3>2, <3>3 DEF HoldsOutput
    <3> QED  BY <1>2, <2>1, <3>1, <3>2, <3>4, CallStep
  <2>3. CASE \E t \in (IF output[c].asked = NoTurn THEN LatestTerminal ELSE {output[c].asked}) :
               output' = [output EXCEPT ![c].pc = "extract", ![c].turn = t,
                                        ![c].status = row[t]]
    <3>1. PICK t \in (IF output[c].asked = NoTurn THEN LatestTerminal
                      ELSE {output[c].asked}) :
               output' = [output EXCEPT ![c].pc = "extract", ![c].turn = t,
                                        ![c].status = row[t]]
      BY <2>3
    <3>2. /\ t \in Turns /\ row[t] \in TurnStatus
          /\ output[c].asked = NoTurn => row[t] \in Terminal
      BY <1>1, <1>2, <3>1 DEF LatestTerminal, TurnStatus, HoldsOutput, OutputTypeOK
    <3> DEFINE r == [output[c] EXCEPT !.pc = "extract", !.turn = t, !.status = row[t]]
    <3>3. output' = [output EXCEPT ![c] = r] /\ r \in OutputRecords
      BY <1>1, <3>1, <3>2 DEF OutputRecords
    <3>4. /\ r.asked = output[c].asked /\ r.turn = t /\ r.status = row[t]
          /\ r.result = output[c].result /\ r.from = output[c].from /\ r.pc = "extract"
      BY <1>1, <2>1 DEF OutputRecords
    <3> HIDE DEF r
    <3>5. output'[c] = r
      BY <1>2, <3>3
    <3>6. t # NoTurn /\ RowFollowsTask(t)
      BY <3>2, OutputAssumption DEF OutputInv
    <3>7. HoldsOutput(c)'
      BY <1>1, <2>1, <3>4, <3>5, <3>6 DEF HoldsOutput, RowFollowsTask
    <3> QED  BY <1>2, <2>1, <3>2, <3>3, <3>4, <3>6, <3>7, CallStep
  <2> QED  BY <1>4, <2>2, <2>3 DEF Select
<1>5. ASSUME Extract(c) PROVE OutputInv'
  <2> DEFINE found == Results(Recent(turnLog, output[c].turn, Window))
             u == output[c].turn
  <2>1. /\ UNCHANGED <<turnLog, row, at, task, cancel>>
        /\ output[c].pc = "extract" /\ output[c].result = 0
    BY <1>1, <1>5 DEF Extract, HoldsOutput
  <2>2. PICK result \in 0 .. Len(turnLog) :
            /\ (found = {} /\ result = 0) \/ result \in found
            /\ output' = [output EXCEPT ![c] = [output[c] EXCEPT !.pc = "idle",
                                                                 !.result = result]]
    <3>1. CASE found = {} /\ output' = [output EXCEPT ![c].pc = "idle"]
      <4>1. [output[c] EXCEPT !.pc = "idle"] = [output[c] EXCEPT !.pc = "idle", !.result = 0]
        BY <1>1, <2>1 DEF OutputRecords
      <4>2. output' = [output EXCEPT ![c] = [output[c] EXCEPT !.pc = "idle"]]
        BY <3>1
      <4>3. 0 \in 0 .. Len(turnLog)
        BY <1>1
      <4> HIDE DEF found
      <4> QED  BY <3>1, <4>1, <4>2, <4>3
    <3>2. CASE \E n \in found : output' = [output EXCEPT ![c].pc = "idle", ![c].result = n]
      <4>1. found \subseteq 1 .. Len(turnLog)
        BY <1>1, EventsOfATurn DEF Results, Recent, Matching
      <4>2. 1 .. Len(turnLog) \subseteq 0 .. Len(turnLog)
        BY <1>1
      <4> HIDE DEF found
      <4>3. PICK n \in found : output' = [output EXCEPT ![c].pc = "idle", ![c].result = n]
        BY <3>2
      <4>4. output' = [output EXCEPT ![c] = [output[c] EXCEPT !.pc = "idle", !.result = n]]
        BY <1>2, <4>3
      <4> QED  BY <4>1, <4>2, <4>3, <4>4
    <3> QED  BY <1>5, <3>1, <3>2 DEF Extract
  <2> DEFINE r == [output[c] EXCEPT !.pc = "idle", !.result = result]
  <2> HIDE DEF found
  <2>3. r \in OutputRecords /\ output' = [output EXCEPT ![c] = r]
    <3>1. result \in Nat
      BY <1>1, <2>2
    <3> QED  BY <1>1, <2>2, <3>1 DEF OutputRecords
  <2>4. /\ r.asked = output[c].asked /\ r.turn = u /\ r.status = output[c].status
        /\ r.result = result /\ r.from = output[c].from /\ r.pc = "idle"
    BY <1>1 DEF OutputRecords
  <2> HIDE DEF r
  <2>5. output'[c] = r
    BY <1>2, <2>3
  <2>6. HoldsOutput(c)'
    BY <1>1, <2>1, <2>4, <2>5 DEF HoldsOutput
  <2>7. ASSUME u # NoTurn PROVE FreshFor(c)'
    <3>1. \A i \in DOMAIN Sources : \A n \in Texts(Matching(turnLog, u, 0), i) :
               \/ Cardinality({m \in Matching(turnLog, u, 0) : m > n}) >= Window
               \/ \E j \in 1 .. i : /\ result \in Texts(Matching(turnLog, u, 0), j)
                                    /\ j = i => n <= result
      BY <1>1, <1>2, <2>2, <2>7, ExtractIsFresh DEF found
    <3>2. EventsOf(c)' = Matching(turnLog, u, 0)
      BY <2>1, <2>4, <2>5 DEF EventsOf, Matching
    <3>3. \A i : Texts(EventsOf(c), i)' = Texts(Matching(turnLog, u, 0), i)
      BY <2>1, <3>2 DEF Texts
    <3>4. output'[c].result = result
      BY <2>4, <2>5
    <3> QED  BY <3>1, <3>2, <3>3, <3>4 DEF FreshFor
  <2>8. ASSUME u # NoTurn PROVE FinalFor(c)'
    <3>1. Results(Recent(turnLog, output[c].turn, Window))' = found
      <4>1. output'[c].turn = u
        BY <2>4, <2>5
      <4>2. Recent(turnLog, output[c].turn, Window)' = Recent(turnLog, u, Window)
        BY <2>1, <4>1 DEF Recent, Matching
      <4>3. \A i : Texts(Recent(turnLog, output[c].turn, Window), i)'
                    = Texts(Recent(turnLog, u, Window), i)
        BY <2>1, <4>2 DEF Texts
      <4>4. \A n : n \in Results(Recent(turnLog, output[c].turn, Window))' <=> n \in found
        BY <4>2, <4>3 DEF found, Results
      <4> QED  BY <4>4
    <3>2. found = {result} \ {0}
      <4>1. CASE found = {} /\ result = 0
        BY <4>1
      <4>2. CASE result \in found
        <5>1. Recent(turnLog, u, Window) \in SUBSET (1 .. Len(turnLog))
          BY <1>1, <1>2, <2>7, <2>8, EventsOfATurn DEF Recent
        <5>2. \A m, n \in found : m = n
          BY <1>1, <5>1, OneResult DEF found
        <5>3. found \subseteq 1 .. Len(turnLog)
          BY <5>1 DEF found, Results
        <5>4. result # 0
          BY <1>1, <4>2, <5>3
        <5> QED  BY <4>2, <5>2, <5>4
      <4> QED  BY <2>2, <4>1, <4>2
    <3>3. output'[c].result = result
      BY <2>4, <2>5
    <3> QED  BY <3>1, <3>2, <3>3 DEF FinalFor
  <2> QED  BY <1>2, <2>1, <2>2, <2>3, <2>4, <2>6, <2>7, <2>8, CallStep
<1> QED  BY <1>3, <1>4, <1>5

LEMMA OutputStep == OutputInv /\ [OutputNext]_outputVars => OutputInv'
<1> SUFFICES ASSUME OutputInv, [OutputNext]_outputVars PROVE OutputInv'
  OBVIOUS
<1>1. CASE UNCHANGED outputVars
  <2>1. UNCHANGED <<turnLog, row, at, task, cancel, output>>
    BY <1>1 DEF outputVars
  <2>2. OutputTypeOK'
    BY <2>1 DEF OutputInv, OutputTypeOK
  <2>3. \A c \in Replies' : FreshFor(c)' /\ FinalFor(c)'
    BY <2>1, QuietKeepsReplies
  <2> QED  BY <2>1, <2>2, <2>3 DEF OutputInv, RowFollowsTask, HoldsOutput
<1>2. ASSUME NEW t \in Turns,
             \/ Send(t) \/ Stream(t) \/ RecordOutcome(t) \/ StoreOutcome(t)
             \/ StoreCancelled(t) \/ RecordCancelled(t)
      PROVE  OutputInv'
  BY <1>2, WritersStep
<1>3. ASSUME NEW c \in Askers, Ask(c) \/ Select(c) \/ Extract(c) PROVE OutputInv'
  BY <1>3, AskersStep
<1> QED  BY <1>1, <1>2, <1>3 DEF OutputNext

LEMMA OutputBegins == OutputInit => OutputInv
<1> SUFFICES ASSUME OutputInit PROVE OutputInv
  OBVIOUS
<1> USE DEF OutputInit
<1>1. turnLog \in Seq(TellEvents) /\ Len(turnLog) = 0
  OBVIOUS
<1>2. OutputTypeOK
  BY <1>1 DEF OutputTypeOK, NoReply, TellEvents
<1>3. output \in [Askers -> OutputRecords]
  BY DEF NoReply, OutputRecords
<1> QED  BY <1>2, <1>3 DEF OutputInv, RowFollowsTask, HoldsOutput, Replies, NoReply

(* The log holds the session's turns' events, rows, tasks and cancellations  *)
(* take the values named, and a call without a turn_id only ever shows a     *)
(* turn that has ended.                                                      *)
THEOREM OutputTypes == OutputSpec => []OutputTypeOK
<1>1. OutputSpec => []OutputInv
  BY OutputBegins, OutputStep, PTL DEF OutputSpec
<1>2. OutputInv => OutputTypeOK
  BY DEF OutputInv
<1> QED  BY <1>1, <1>2, PTL

(* get_latest_output misses no text that was there when it was called and    *)
(* that its window shows, whatever the backends append meanwhile.            *)
THEOREM OutputMissesNothing == OutputSpec => []OutputIsFresh
<1>1. OutputSpec => []OutputInv
  BY OutputBegins, OutputStep, PTL DEF OutputSpec
<1>2. OutputInv => OutputIsFresh
  BY DEF OutputInv, OutputIsFresh, FreshFor
<1> QED  BY <1>1, <1>2, PTL

(* What it says of a completed or failed turn is final: the row is written   *)
(* after the turn's last text, and read before the events.                   *)
THEOREM OutputOfFinishedTurnIsFinal == OutputSpec => []FinishedOutputIsFinal
<1>1. OutputSpec => []OutputInv
  BY OutputBegins, OutputStep, PTL DEF OutputSpec
<1>2. OutputInv => FinishedOutputIsFinal
  BY DEF OutputInv, FinishedOutputIsFinal, FinalFor
<1> QED  BY <1>1, <1>2, PTL
-----------------------------------------------------------------------------
(* RemoteRequests.  The types, with what a call holds at each point: a page  *)
(* of the log and a row, a decision, and a link where one is needed.         *)
Handlers == [pc : {"idle", "read", "mirror", "linkRequest", "resolve", "store"},
             page : SUBSET Nat, cursor : Nat, row : Rows \cup {0},
             decision : Decisions \cup {"none"}]

RequestEvent == [resource : Requests, parent : {"turn", "session"},
                 type : {"request.created", "request.resolved"}]

HoldsRow(c) ==
    /\ handler[c].page \subseteq DOMAIN rlog /\ handler[c].cursor \in 0 .. Len(rlog)
    /\ At(c, "linkRequest") => handler[c].page # {}
    /\ handler[c].pc \in {"linkRequest", "resolve", "store"} => handler[c].row \in Rows
    /\ handler[c].pc \in {"resolve", "store"} => handler[c].decision \in Decisions
    /\ At(c, "resolve") => link[handler[c].row] # None

HandlerTypes == handler \in [Callers -> Handlers] /\ \A c \in Callers : HoldsRow(c)

StoreTypes ==
    /\ rlog \in Seq(RequestEvent)
    /\ req \in [Requests -> Status]
    /\ homeRow \in [Rows -> Undecided \cup Decisions]
    /\ link \in [Rows -> Requests \cup {None}]
    /\ remoteCursor \in 0 .. Len(rlog)
    /\ spent \in [crashes : 0 .. MaxCrashes, lost : 0 .. MaxLost]

RequestInv == StoreTypes /\ HandlerTypes

LEMMA RequestInvGivesTypes == RequestInv /\ unlinked \subseteq Rows => RequestTypeOK
BY DEF RequestInv, StoreTypes, HandlerTypes, HoldsRow, Handlers, RequestTypeOK, RequestEvent

(* The event that a read mirrors next is one of its page.                    *)
LEMMA EarliestExists ==
    ASSUME NEW P \in SUBSET Nat, P # {}
    PROVE  Earliest(P) \in P
<1>1. \E n \in P : \A m \in P : <<m, n>> \notin OpToRel(<, Nat)
  <2>1. P \subseteq Nat
    OBVIOUS
  <2> QED  BY <2>1, NatLessThanWellFounded, WFMin, Zenon
<1>2. PICK n \in P : \A m \in P : <<m, n>> \notin {ss \in Nat \X Nat : ss[1] < ss[2]}
  BY <1>1 DEF OpToRel
<1>3. \A m \in P : n \in Nat /\ m \in Nat /\ ~(m < n)
  BY <1>2
<1>4. \A m \in P : n <= m
  BY <1>3
<1> QED  BY <1>4 DEF Earliest

(* The event at hand: an event of the log, about a request.                  *)
LEMMA EventAtHand ==
    ASSUME RequestInv, NEW c \in Callers, handler[c].page # {}
    PROVE  /\ Earliest(handler[c].page) \in handler[c].page
           /\ Earliest(handler[c].page) \in DOMAIN rlog
           /\ rlog[Earliest(handler[c].page)].resource \in Requests
<1>1. handler[c].page \subseteq DOMAIN rlog /\ rlog \in Seq(RequestEvent)
  BY DEF RequestInv, StoreTypes, HandlerTypes, HoldsRow
<1>2. DOMAIN rlog = 1 .. Len(rlog)
  BY <1>1
<1>3. handler[c].page \in SUBSET Nat
  BY <1>1, <1>2
<1>4. Earliest(handler[c].page) \in DOMAIN rlog
  BY <1>1, <1>3, EarliestExists
<1>5. rlog[Earliest(handler[c].page)] \in RequestEvent
  BY <1>1, <1>2, <1>4
<1> QED  BY <1>3, <1>4, <1>5, EarliestExists DEF RequestEvent

(* What a step of one call leaves to the others.                             *)
LEMMA OneHandlerMoves ==
    ASSUME RequestInv, NEW c \in Callers, NEW v \in Handlers,
           handler' = [handler EXCEPT ![c] = v],
           rlog' = rlog, \A h \in Rows : link[h] # None => link'[h] # None,
           HoldsRow(c)'
    PROVE  HandlerTypes'
<1> USE DEF RequestInv, HandlerTypes
<1>1. handler' \in [Callers -> Handlers] /\ \A d \in Callers : d # c => handler'[d] = handler[d]
  OBVIOUS
<1>2. ASSUME NEW d \in Callers, d # c PROVE HoldsRow(d)'
  BY <1>1, <1>2 DEF HoldsRow, At
<1> QED  BY <1>1, <1>2

(* A longer log has all that a call holds of it.                             *)
LEMMA LongerLogHolds ==
    ASSUME RequestInv, NEW e \in RequestEvent, rlog' = Append(rlog, e)
    PROVE  /\ rlog' \in Seq(RequestEvent)
           /\ DOMAIN rlog' = 1 .. Len(rlog) + 1 /\ Len(rlog') = Len(rlog) + 1
           /\ DOMAIN rlog = 1 .. Len(rlog) /\ Len(rlog) \in Nat
           /\ \A n \in DOMAIN rlog : rlog'[n] = rlog[n]
           /\ rlog'[Len(rlog) + 1] = e
           /\ remoteCursor \in 0 .. Len(rlog')
           /\ DOMAIN rlog \subseteq DOMAIN rlog' /\ 0 .. Len(rlog) \subseteq 0 .. Len(rlog')
<1>1. rlog \in Seq(RequestEvent) /\ remoteCursor \in 0 .. Len(rlog)
  BY DEF RequestInv, StoreTypes
<1>2. /\ DOMAIN rlog = 1 .. Len(rlog) /\ Len(rlog) \in Nat
      /\ rlog' \in Seq(RequestEvent) /\ Len(rlog') = Len(rlog) + 1
      /\ DOMAIN rlog' = 1 .. Len(rlog) + 1
      /\ \A n \in 1 .. Len(rlog) : rlog'[n] = rlog[n]
      /\ rlog'[Len(rlog) + 1] = e
  BY <1>1
<1>3. /\ 1 .. Len(rlog) \subseteq 1 .. Len(rlog) + 1
      /\ 0 .. Len(rlog) \subseteq 0 .. Len(rlog) + 1
  BY <1>2
<1> QED  BY <1>1, <1>2, <1>3

(* The remote resolve_request keeps the types, and decides what was asked.   *)
LEMMA RemoteResolveTypes ==
    ASSUME RequestInv, NEW r \in Requests, NEW d \in Decisions, RemoteResolve(r, d)
    PROVE  /\ req' \in [Requests -> Status]
           /\ rlog' = Append(rlog, [resource |-> r, parent |-> "session",
                                    type |-> "request.resolved"])
           /\ [resource |-> r, parent |-> "session", type |-> "request.resolved"]
                \in RequestEvent
           /\ \A q \in Requests : req[q] \notin Undecided => req'[q] = req[q]
           /\ \A q \in Requests : req[q] # "absent" => req'[q] # "absent"
           /\ req[r] # "absent" => req'[r] \notin Undecided
<1>1. req \in [Requests -> Status]
  BY DEF RequestInv, StoreTypes
<1>2. d \notin {"absent", "pending"}
  BY RequestsAssumption
<1>3. CASE req[r] = "pending"
  <2>1. req' = [req EXCEPT ![r] = d]
    BY <1>3 DEF RemoteResolve
  <2> QED  BY <1>1, <1>2, <1>3, <2>1 DEF RemoteResolve, RequestEvent, Status, Undecided
<1>4. CASE req[r] # "pending"
  <2>1. req' = req
    BY <1>4 DEF RemoteResolve
  <2> QED  BY <1>1, <1>4, <2>1 DEF RemoteResolve, RequestEvent, Undecided
<1> QED  BY <1>3, <1>4
(* The steps of the remote broker itself.                                    *)
LEMMA RemoteStepTypes ==
    ASSUME RequestInv, NEW r \in Requests, RemoteAsks(r) \/ RemoteExpires(r)
    PROVE  RequestInv'
<1> DEFINE e == [resource |-> r, parent |-> Parent[r], type |-> "request.created"]
<1>1. StoreTypes /\ HandlerTypes
  BY DEF RequestInv
<1>2. e \in RequestEvent
  BY RequestsAssumption DEF RequestEvent
<1>3. CASE RemoteAsks(r)
  <2>1. /\ rlog' = Append(rlog, e) /\ req' = [req EXCEPT ![r] = "pending"]
        /\ UNCHANGED <<homeVars, handler, spent>>
    BY <1>3 DEF RemoteAsks
  <2> HIDE DEF e
  <2>2. req' \in [Requests -> Status]
    BY <1>1, <2>1 DEF StoreTypes, Status, Undecided
  <2>3. /\ rlog' \in Seq(RequestEvent) /\ remoteCursor \in 0 .. Len(rlog')
        /\ DOMAIN rlog \subseteq DOMAIN rlog' /\ 0 .. Len(rlog) \subseteq 0 .. Len(rlog')
    BY <1>2, <2>1, LongerLogHolds
  <2>4. StoreTypes'
    BY <1>1, <2>1, <2>2, <2>3 DEF StoreTypes, homeVars
  <2>5. HandlerTypes'
    BY <1>1, <2>1, <2>3 DEF HandlerTypes, HoldsRow, At, homeVars
  <2> QED  BY <2>4, <2>5 DEF RequestInv
<1>4. CASE RemoteExpires(r)
  <2>1. /\ rlog' = rlog /\ req' = [req EXCEPT ![r] = "cancel"]
        /\ UNCHANGED <<homeVars, handler, spent>>
    BY <1>4 DEF RemoteExpires
  <2>2. StoreTypes'
    BY <1>1, <2>1 DEF StoreTypes, Status, homeVars
  <2>3. HandlerTypes'
    BY <1>1, <2>1 DEF HandlerTypes, HoldsRow, At, homeVars
  <2> QED  BY <2>2, <2>3 DEF RequestInv
<1> QED  BY <1>3, <1>4

(* The steps of a read.                                                      *)
LEMMA ReadStepTypes ==
    ASSUME RequestInv, NEW c \in Callers,
           \/ ReadBegin(c) \/ ReadAnswered(c) \/ ReadFails(c)
           \/ MirrorRequest(c) \/ MirrorLink(c) \/ ReadCursor(c)
    PROVE  RequestInv'
<1>1. /\ StoreTypes /\ HandlerTypes /\ handler[c] \in Handlers /\ HoldsRow(c)
      /\ rlog \in Seq(RequestEvent) /\ DOMAIN rlog = 1 .. Len(rlog) /\ Len(rlog) \in Nat
      /\ handler \in [Callers -> Handlers] /\ remoteCursor \in 0 .. Len(rlog)
      /\ spent \in [crashes : 0 .. MaxCrashes, lost : 0 .. MaxLost]
  BY DEF RequestInv, StoreTypes, HandlerTypes
<1>2. Idle \in Handlers
  BY DEF Idle, Handlers
<1>3. handler' = [handler EXCEPT ![c] = Idle] => HoldsRow(c)'
  BY <1>1 DEF HoldsRow, Idle, At
<1>4. CASE ReadBegin(c)
  <2> DEFINE v == [Idle EXCEPT !.pc = "read", !.cursor = remoteCursor]
  <2>1. handler' = [handler EXCEPT ![c] = v] /\ UNCHANGED <<remoteVars, homeVars, spent>>
    BY <1>4 DEF ReadBegin
  <2>2. v \in Handlers
    <3>1. remoteCursor \in Nat
      BY <1>1
    <3> QED  BY <1>2, <3>1 DEF Handlers
  <2>3. v.page = {} /\ v.cursor = remoteCursor /\ v.pc = "read"
    BY DEF Idle
  <2> HIDE DEF v
  <2>4. HoldsRow(c)'
    BY <1>1, <2>1, <2>3 DEF HoldsRow, At, remoteVars
  <2>5. HandlerTypes'
    BY <2>1, <2>2, <2>4, OneHandlerMoves DEF homeVars, remoteVars
  <2> QED  BY <1>1, <2>1, <2>5 DEF RequestInv, StoreTypes, homeVars, remoteVars
<1>5. CASE ReadAnswered(c)
  <2> DEFINE page == ReadEvents(rlog, "session", handler[c].cursor, PageLimit, {})
  <2>1. page \subseteq DOMAIN rlog
    BY DEF ReadEvents, Page, Matching
  <2>2. PICK last \in {handler[c].cursor} \cup page :
               handler' = [handler EXCEPT ![c].pc = "mirror", ![c].page = page,
                                          ![c].cursor = last]
    BY <1>5 DEF ReadAnswered
  <2>3. UNCHANGED <<remoteVars, homeVars, spent>>
    BY <1>5 DEF ReadAnswered
  <2> HIDE DEF page
  <2> DEFINE v == [handler[c] EXCEPT !.pc = "mirror", !.page = page, !.cursor = last]
  <2>4. last \in 0 .. Len(rlog) /\ last \in Nat /\ page \in SUBSET Nat
    BY <1>1, <2>1 DEF HoldsRow
  <2>5. handler' = [handler EXCEPT ![c] = v] /\ v \in Handlers
    BY <1>1, <2>2, <2>4 DEF Handlers
  <2>6. v.page = page /\ v.cursor = last /\ v.pc = "mirror"
    BY <1>1 DEF Handlers
  <2> HIDE DEF v
  <2>7. HoldsRow(c)'
    BY <1>1, <2>1, <2>3, <2>4, <2>5, <2>6 DEF HoldsRow, At, remoteVars
  <2>8. HandlerTypes'
    BY <2>3, <2>5, <2>7, OneHandlerMoves DEF homeVars, remoteVars
  <2> QED  BY <1>1, <2>3, <2>8 DEF RequestInv, StoreTypes, homeVars, remoteVars
<1>6. CASE ReadFails(c)
  <2>1. /\ handler' = [handler EXCEPT ![c] = Idle] /\ UNCHANGED <<remoteVars, homeVars>>
        /\ spent.lost < MaxLost /\ spent' = [spent EXCEPT !.lost = @ + 1]
    BY <1>6 DEF ReadFails, Return, Lose
  <2>2. spent' \in [crashes : 0 .. MaxCrashes, lost : 0 .. MaxLost]
    BY <1>1, <2>1, RequestsAssumption
  <2>3. HandlerTypes'
    BY <1>2, <1>3, <2>1, OneHandlerMoves DEF homeVars, remoteVars
  <2> QED  BY <1>1, <2>1, <2>2, <2>3 DEF RequestInv, StoreTypes, homeVars, remoteVars
<1>7. CASE MirrorRequest(c)
  <2> DEFINE n == Earliest(handler[c].page)
  <2>1. /\ handler[c].page # {} /\ UNCHANGED <<remoteVars, link, remoteCursor, spent>>
        /\ At(c, "mirror")
    BY <1>7 DEF MirrorRequest
  <2>2. CASE \E h \in Rows :
               /\ homeRow' = [homeRow EXCEPT ![h] = "pending"]
               /\ handler' = [handler EXCEPT ![c].pc = "linkRequest", ![c].row = h]
    <3>1. PICK h \in Rows :
               /\ homeRow' = [homeRow EXCEPT ![h] = "pending"]
               /\ handler' = [handler EXCEPT ![c].pc = "linkRequest", ![c].row = h]
      BY <2>2
    <3> DEFINE v == [handler[c] EXCEPT !.pc = "linkRequest", !.row = h]
    <3>2. handler' = [handler EXCEPT ![c] = v] /\ v \in Handlers
      BY <1>1, <3>1 DEF Handlers
    <3>3. /\ v.page = handler[c].page /\ v.cursor = handler[c].cursor
          /\ v.pc = "linkRequest" /\ v.row = h
      BY <1>1 DEF Handlers
    <3> HIDE DEF v
    <3>4. handler'[c] = v
      BY <1>1, <3>2
    <3>5. HoldsRow(c)'
      BY <1>1, <2>1, <3>3, <3>4 DEF HoldsRow, At, remoteVars
    <3>6. HandlerTypes'
      BY <2>1, <3>2, <3>5, OneHandlerMoves DEF remoteVars
    <3>7. homeRow' \in [Rows -> Undecided \cup Decisions]
      BY <1>1, <3>1 DEF StoreTypes, Undecided
    <3> QED  BY <1>1, <2>1, <3>6, <3>7 DEF RequestInv, StoreTypes, remoteVars
  <2>3. CASE handler' = [handler EXCEPT ![c].page = @ \ {n}] /\ homeRow' = homeRow
    <3> DEFINE v == [handler[c] EXCEPT !.page = handler[c].page \ {n}]
    <3>1. handler' = [handler EXCEPT ![c] = v] /\ v \in Handlers
      BY <1>1, <2>3 DEF Handlers
    <3>2. v.page \subseteq handler[c].page /\ v.cursor = handler[c].cursor /\ v.pc = "mirror"
      BY <1>1, <2>1 DEF Handlers, At
    <3> HIDE DEF v
    <3>3. handler'[c] = v
      BY <1>1, <3>1
    <3>4. HoldsRow(c)'
      BY <1>1, <2>1, <3>2, <3>3 DEF HoldsRow, At, remoteVars
    <3>5. HandlerTypes'
      BY <2>1, <3>1, <3>4, OneHandlerMoves DEF remoteVars
    <3> QED  BY <1>1, <2>1, <2>3, <3>5 DEF RequestInv, StoreTypes, remoteVars
  <2> QED  BY <1>7, <2>2, <2>3 DEF MirrorRequest
<1>8. CASE MirrorLink(c)
  <2> DEFINE n == Earliest(handler[c].page)
  <2>1. UNCHANGED <<remoteVars, homeRow, remoteCursor, spent>> /\ At(c, "linkRequest")
    BY <1>8 DEF MirrorLink
  <2>2. handler[c].page # {} /\ handler[c].row \in Rows
    BY <1>1, <2>1 DEF HoldsRow, At
  <2>3. CASE /\ link' = [link EXCEPT ![handler[c].row] = rlog[n].resource]
             /\ handler' = [handler EXCEPT ![c].pc = "mirror", ![c].page = @ \ {n}]
    <3>1. rlog[n].resource \in Requests /\ rlog[n].resource # None
      BY <2>2, EventAtHand, RequestsAssumption
    <3>2. /\ link' \in [Rows -> Requests \cup {None}]
          /\ \A h \in Rows : link[h] # None => link'[h] # None
      BY <1>1, <2>3, <3>1 DEF StoreTypes
    <3> DEFINE v == [handler[c] EXCEPT !.pc = "mirror", !.page = handler[c].page \ {n}]
    <3>3. handler' = [handler EXCEPT ![c] = v] /\ v \in Handlers
      BY <1>1, <2>3 DEF Handlers
    <3>4. v.page \subseteq handler[c].page /\ v.cursor = handler[c].cursor /\ v.pc = "mirror"
      BY <1>1 DEF Handlers
    <3> HIDE DEF v
    <3>5. handler'[c] = v
      BY <1>1, <3>3
    <3>6. HoldsRow(c)'
      BY <1>1, <2>1, <3>4, <3>5 DEF HoldsRow, At, remoteVars
    <3>7. HandlerTypes'
      BY <2>1, <3>2, <3>3, <3>6, OneHandlerMoves DEF remoteVars
    <3> QED  BY <1>1, <2>1, <3>2, <3>7 DEF RequestInv, StoreTypes, remoteVars
  <2>4. CASE Return(c) /\ link' = link
    <3>1. HandlerTypes'
      BY <1>2, <1>3, <2>1, <2>4, OneHandlerMoves DEF Return, remoteVars
    <3> QED  BY <1>1, <2>1, <2>4, <3>1 DEF RequestInv, StoreTypes, remoteVars
  <2> QED  BY <1>8, <2>3, <2>4 DEF MirrorLink
<1>9. CASE ReadCursor(c)
  <2>1. /\ handler' = [handler EXCEPT ![c] = Idle] /\ remoteCursor' = handler[c].cursor
        /\ UNCHANGED <<remoteVars, homeRow, link, spent>>
    BY <1>9 DEF ReadCursor, Return
  <2>2. HandlerTypes'
    BY <1>2, <1>3, <2>1, OneHandlerMoves DEF remoteVars
  <2>3. handler[c].cursor \in 0 .. Len(rlog)
    BY <1>1 DEF HoldsRow
  <2> QED  BY <1>1, <2>1, <2>2, <2>3 DEF RequestInv, StoreTypes, remoteVars
<1> QED  BY <1>4, <1>5, <1>6, <1>7, <1>8, <1>9

(* The steps of a decision.                                                  *)
LEMMA ResolveStepTypes ==
    ASSUME RequestInv, NEW c \in Callers,
           \/ ResolveBegin(c) \/ ResolveForwarded(c) \/ ResolveFails(c) \/ ResolveStore(c)
    PROVE  RequestInv'
<1>1. /\ StoreTypes /\ HandlerTypes /\ handler[c] \in Handlers /\ HoldsRow(c)
      /\ rlog \in Seq(RequestEvent)
      /\ handler \in [Callers -> Handlers]
      /\ spent \in [crashes : 0 .. MaxCrashes, lost : 0 .. MaxLost]
  BY DEF RequestInv, StoreTypes, HandlerTypes
<1>2. Idle \in Handlers /\ Idle.page = {} /\ Idle.cursor = 0 /\ Idle.pc = "idle"
  BY DEF Idle, Handlers
<1>3. 0 \in 0 .. Len(rlog)
  BY <1>1
<1>4. CASE ResolveBegin(c)
  <2>1. UNCHANGED <<remoteVars, homeVars, spent>>
    BY <1>4 DEF ResolveBegin
  <2>2. PICK h \in Rows, d \in Decisions :
          handler' = [handler EXCEPT ![c] = [Idle EXCEPT !.row = h, !.decision = d,
                        !.pc = IF link[h] = None THEN "store" ELSE "resolve"]]
    BY <1>4 DEF ResolveBegin
  <2> DEFINE v == [Idle EXCEPT !.row = h, !.decision = d,
                        !.pc = IF link[h] = None THEN "store" ELSE "resolve"]
  <2>3. v \in Handlers
    BY <1>2 DEF Handlers
  <2>4. /\ v.page = {} /\ v.cursor = 0 /\ v.row = h /\ v.decision = d
        /\ v.pc = IF link[h] = None THEN "store" ELSE "resolve"
    BY <1>2 DEF Handlers
  <2> HIDE DEF v
  <2>5. handler' = [handler EXCEPT ![c] = v]
    BY <2>2 DEF v
  <2>6. handler'[c] = v
    BY <1>1, <2>5
  <2>7. HoldsRow(c)'
    BY <1>3, <2>1, <2>4, <2>6 DEF HoldsRow, At, remoteVars, homeVars
  <2>8. HandlerTypes'
    BY <2>1, <2>3, <2>5, <2>7, OneHandlerMoves DEF remoteVars, homeVars
  <2> QED  BY <1>1, <2>1, <2>8 DEF RequestInv, StoreTypes, remoteVars, homeVars
<1>5. CASE ResolveForwarded(c) \/ ResolveFails(c)
  <2>1. /\ At(c, "resolve") /\ UNCHANGED homeVars
        /\ \/ RemoteResolve(link[handler[c].row], handler[c].decision)
           \/ UNCHANGED remoteVars
    BY <1>5 DEF ResolveForwarded, ResolveFails
  <2>2. /\ handler[c].row \in Rows /\ handler[c].decision \in Decisions
        /\ link[handler[c].row] \in Requests
    BY <1>1, <2>1 DEF HoldsRow, At, StoreTypes
  <2>3. /\ req' \in [Requests -> Status] /\ rlog' \in Seq(RequestEvent)
        /\ remoteCursor \in 0 .. Len(rlog')
        /\ DOMAIN rlog \subseteq DOMAIN rlog' /\ 0 .. Len(rlog) \subseteq 0 .. Len(rlog')
    <3>1. CASE RemoteResolve(link[handler[c].row], handler[c].decision)
      BY <2>2, <3>1, RemoteResolveTypes, LongerLogHolds
    <3>2. CASE UNCHANGED remoteVars
      BY <1>1, <3>2 DEF StoreTypes, remoteVars
    <3> QED  BY <2>1, <3>1, <3>2
  <2>4. spent' \in [crashes : 0 .. MaxCrashes, lost : 0 .. MaxLost]
    <3>1. CASE ResolveForwarded(c)
      BY <1>1, <3>1 DEF ResolveForwarded
    <3>2. CASE ResolveFails(c)
      BY <1>1, <3>2, RequestsAssumption DEF ResolveFails, Lose
    <3> QED  BY <1>5, <3>1, <3>2
  <2>5. PICK v \in Handlers :
            /\ handler' = [handler EXCEPT ![c] = v]
            /\ \/ v = Idle
               \/ /\ v.pc = "store" /\ v.page = handler[c].page
                  /\ v.cursor = handler[c].cursor
                  /\ v.row = handler[c].row /\ v.decision = handler[c].decision
    <3>1. CASE ResolveForwarded(c)
      <4> DEFINE w == [handler[c] EXCEPT !.pc = "store"]
      <4>1. handler' = [handler EXCEPT ![c] = w]
        BY <3>1 DEF ResolveForwarded, Go
      <4>2. /\ w \in Handlers /\ w.pc = "store" /\ w.page = handler[c].page
            /\ w.cursor = handler[c].cursor
            /\ w.row = handler[c].row /\ w.decision = handler[c].decision
        BY <1>1 DEF Handlers
      <4> HIDE DEF w
      <4> QED  BY <4>1, <4>2
    <3>2. CASE ResolveFails(c)
      BY <1>2, <3>2 DEF ResolveFails, Return
    <3> QED  BY <1>5, <3>1, <3>2
  <2>6. handler'[c] = v /\ \A d \in Callers : d # c => handler'[d] = handler[d]
    BY <1>1, <2>5
  <2>7. HoldsRow(c)'
    <3>1. 0 \in 0 .. Len(rlog)'
      BY <1>3, <2>3
    <3> QED  BY <1>1, <1>2, <2>1, <2>2, <2>3, <2>5, <2>6, <3>1 DEF HoldsRow, At, homeVars
  <2>8. ASSUME NEW d \in Callers, d # c PROVE HoldsRow(d)'
    BY <1>1, <2>1, <2>3, <2>6, <2>8 DEF HandlerTypes, HoldsRow, At, homeVars
  <2>9. HandlerTypes'
    BY <1>1, <2>5, <2>7, <2>8 DEF HandlerTypes
  <2> QED  BY <1>1, <2>1, <2>3, <2>4, <2>9 DEF RequestInv, StoreTypes, homeVars
<1>6. CASE ResolveStore(c)
  <2>1. /\ handler' = [handler EXCEPT ![c] = Idle]
        /\ UNCHANGED <<remoteVars, link, remoteCursor, spent>> /\ At(c, "store")
    BY <1>6 DEF ResolveStore, Return
  <2>2. homeRow' \in [Rows -> Undecided \cup Decisions]
    BY <1>1, <1>6, <2>1 DEF ResolveStore, StoreTypes, HoldsRow, At
  <2>3. HoldsRow(c)'
    BY <1>1, <1>2, <1>3, <2>1 DEF HoldsRow, At, remoteVars
  <2>4. HandlerTypes'
    BY <1>2, <2>1, <2>3, OneHandlerMoves DEF remoteVars
  <2> QED  BY <1>1, <2>1, <2>2, <2>4 DEF RequestInv, StoreTypes, remoteVars
<1> QED  BY <1>4, <1>5, <1>6

LEMMA RequestStep == RequestInv /\ [RequestNext]_requestVars => RequestInv'
<1> SUFFICES ASSUME RequestInv, [RequestNext]_requestVars PROVE RequestInv'
  OBVIOUS
<1>1. CASE UNCHANGED requestVars
  <2>1. UNCHANGED <<rlog, req, homeRow, link, remoteCursor, handler, spent>>
    BY <1>1 DEF requestVars, remoteVars, homeVars
  <2> QED  BY <2>1 DEF RequestInv, StoreTypes, HandlerTypes, HoldsRow, At
<1>2. CASE CrashAndRestart
  <2>1. /\ spent.crashes < MaxCrashes /\ spent' = [spent EXCEPT !.crashes = @ + 1]
        /\ handler' = [c \in Callers |-> Idle]
        /\ UNCHANGED <<rlog, req, homeRow, link, remoteCursor>>
    BY <1>2 DEF CrashAndRestart, remoteVars, homeVars
  <2>2. Idle \in Handlers /\ Idle.page = {} /\ Idle.cursor = 0 /\ Idle.pc = "idle"
    BY DEF Idle, Handlers
  <2>3. 0 \in 0 .. Len(rlog)
    BY DEF RequestInv, StoreTypes
  <2>4. HandlerTypes'
    BY <2>1, <2>2, <2>3 DEF HandlerTypes, HoldsRow, At
  <2>5. spent' \in [crashes : 0 .. MaxCrashes, lost : 0 .. MaxLost]
    BY <2>1, RequestsAssumption DEF RequestInv, StoreTypes
  <2> QED  BY <2>1, <2>4, <2>5 DEF RequestInv, StoreTypes
<1> QED  BY <1>1, <1>2, RemoteStepTypes, ReadStepTypes, ResolveStepTypes
         DEF RequestNext, Read, Resolve

LEMMA RequestBegins == RequestInit => RequestInv
<1> SUFFICES ASSUME RequestInit PROVE RequestInv
  OBVIOUS
<1>1. Idle \in Handlers /\ Idle.page = {} /\ Idle.cursor = 0 /\ Idle.pc = "idle"
  BY DEF Idle, Handlers
<1>2. rlog \in Seq(RequestEvent) /\ Len(rlog) = 0
  BY DEF RequestInit
<1>3. StoreTypes
  BY <1>2, RequestsAssumption DEF RequestInit, StoreTypes, Status, Undecided
<1>4. HandlerTypes
  BY <1>1, <1>2 DEF RequestInit, HandlerTypes, HoldsRow, At
<1> QED  BY <1>3, <1>4 DEF RequestInv

LEMMA RequestAlways == RequestSpec => []RequestInv
BY RequestBegins, RequestStep, PTL DEF RequestSpec

(* What a read holds are events of the remote log, a decision is made of a   *)
(* row, and what is linked is a request.                                     *)
THEOREM RequestTypes == RequestSpec => []RequestTypeOK
<1>1. RequestInit => unlinked \subseteq Rows
  BY DEF RequestInit
<1>2. unlinked \subseteq Rows /\ [RequestNext]_requestVars => (unlinked \subseteq Rows)'
  BY DEF RequestNext, requestVars, RemoteAsks, RemoteExpires, Read, Resolve, ReadBegin,
         ReadAnswered, ReadFails, MirrorRequest, MirrorLink, ReadCursor, ResolveBegin,
         ResolveForwarded, ResolveFails, ResolveStore, CrashAndRestart
<1> QED  BY <1>1, <1>2, RequestAlways, RequestInvGivesTypes, PTL DEF RequestSpec
-----------------------------------------------------------------------------
(* A decision reaches the remote broker.  What a request needs for it: it was *)
(* asked there if the log or a link names it, a decision that found a link is *)
(* known there when it is about to be stored here, and a row gets its link    *)
(* once, from the read that inserted it.                                      *)
Asked ==
    /\ \A n \in DOMAIN rlog : req[rlog[n].resource] # "absent"
    /\ \A h \in Rows : link[h] # None => req[link[h]] # "absent"

Known(h) == h \in unlinked \/ (link[h] # None /\ req[link[h]] \notin Undecided)

DecidedFor(c) == At(c, "store") => Known(handler[c].row)

Linking ==
    /\ \A h \in Rows : link[h] # None => homeRow[h] # "absent"
    /\ \A c \in Callers : At(c, "linkRequest") =>
         /\ homeRow[handler[c].row] # "absent" /\ link[handler[c].row] = None
         /\ \A d \in Callers \ {c} : At(d, "linkRequest") => handler[d].row # handler[c].row

DecidedInv ==
    /\ Asked /\ Linking
    /\ \A c \in Callers : DecidedFor(c)
    /\ DecidedThere

(* A step that moves no row and no link, and undoes no decision.             *)
LEMMA RemoteOnlyKeepsDecided ==
    ASSUME RequestInv, DecidedInv, UNCHANGED <<homeRow, link, unlinked>>,
           \A q \in Requests : req[q] \notin Undecided => req'[q] \notin Undecided
    PROVE  /\ DecidedThere'
           /\ \A c \in Callers : handler'[c] = handler[c] => DecidedFor(c)'
<1>1. link \in [Rows -> Requests \cup {None}]
  BY DEF RequestInv, StoreTypes
<1>2. DecidedThere'
  BY <1>1 DEF DecidedInv, DecidedThere
<1>3. ASSUME NEW c \in Callers, handler'[c] = handler[c] PROVE DecidedFor(c)'
  <2>1. At(c, "store") => handler[c].row \in Rows
    BY DEF RequestInv, HandlerTypes, HoldsRow, At
  <2> QED  BY <1>1, <1>3, <2>1 DEF DecidedInv, DecidedFor, Known, At
<1> QED  BY <1>2, <1>3

LEMMA RemoteStepDecided ==
    ASSUME RequestInv, DecidedInv, NEW r \in Requests, RemoteAsks(r) \/ RemoteExpires(r)
    PROVE  DecidedInv'
<1>1. req \in [Requests -> Status] /\ rlog \in Seq(RequestEvent) /\ Asked
      /\ link \in [Rows -> Requests \cup {None}] /\ DOMAIN rlog = 1 .. Len(rlog)
  BY DEF RequestInv, StoreTypes, DecidedInv
<1>2. UNCHANGED <<homeRow, link, handler, unlinked>>
  BY DEF RemoteAsks, RemoteExpires, homeVars
<1>3. /\ \A q \in Requests : req[q] \notin Undecided => req'[q] \notin Undecided
      /\ \A q \in Requests : req[q] # "absent" => req'[q] # "absent"
  BY <1>1 DEF RemoteAsks, RemoteExpires, Undecided
<1>4. \A n \in DOMAIN rlog : rlog[n].resource \in Requests
  <2>1. \A n \in DOMAIN rlog : rlog[n] \in RequestEvent
    BY <1>1
  <2> QED  BY <2>1 DEF RequestEvent
<1>5. \A n \in DOMAIN rlog' : req'[rlog'[n].resource] # "absent"
  <2>1. CASE RemoteAsks(r)
    <3> DEFINE e == [resource |-> r, parent |-> Parent[r], type |-> "request.created"]
    <3>1. e \in RequestEvent /\ rlog' = Append(rlog, e)
      BY <2>1, RequestsAssumption DEF RemoteAsks, RequestEvent
    <3>2. e.resource = r /\ req'[r] # "absent"
      BY <1>1, <2>1 DEF RemoteAsks
    <3> HIDE DEF e
    <3>3. /\ \A n \in DOMAIN rlog : rlog'[n] = rlog[n]
          /\ \A n \in DOMAIN rlog' : n \in DOMAIN rlog \/ rlog'[n] = e
      BY <3>1, LongerLogHolds
    <3> QED  BY <1>1, <1>3, <1>4, <3>2, <3>3 DEF Asked
  <2>2. CASE RemoteExpires(r)
    BY <1>1, <1>3, <1>4, <2>2 DEF RemoteExpires, Asked
  <2> QED  BY <2>1, <2>2
<1>6. \A h \in Rows : link'[h] # None => req'[link'[h]] # "absent"
  BY <1>1, <1>2, <1>3 DEF Asked
<1>7. DecidedThere' /\ \A c \in Callers : DecidedFor(c)'
  BY <1>2, <1>3, RemoteOnlyKeepsDecided
<1>8. Linking'
  BY <1>2 DEF DecidedInv, Linking, At
<1> QED  BY <1>5, <1>6, <1>7, <1>8 DEF DecidedInv, Asked

(* Where a step leaves its call.                                             *)
LEMMA NextPoint ==
    ASSUME RequestInv, NEW c \in Callers
    PROVE  /\ ReadBegin(c) => handler'[c].pc = "read"
           /\ ReadAnswered(c) => handler'[c].pc = "mirror"
           /\ MirrorRequest(c) => handler'[c].pc \in {"mirror", "linkRequest"}
           /\ MirrorLink(c) => handler'[c].pc \in {"mirror", "idle"}
           /\ ReadFails(c) \/ ReadCursor(c) => handler'[c].pc = "idle"
           /\ ResolveBegin(c) => handler'[c].pc \in {"resolve", "store"}
           /\ ResolveForwarded(c) => handler'[c].pc = "store"
           /\ ResolveFails(c) \/ ResolveStore(c) => handler'[c].pc = "idle"
<1>1. handler \in [Callers -> Handlers] /\ handler[c] \in Handlers
  BY DEF RequestInv, HandlerTypes
<1>2. Return(c) => handler'[c].pc = "idle"
  BY <1>1 DEF Return, Idle
<1>3. ReadBegin(c) => handler'[c].pc = "read"
  BY <1>1 DEF ReadBegin, Idle
<1>4. ReadAnswered(c) => handler'[c].pc = "mirror"
  BY <1>1 DEF ReadAnswered, Handlers
<1>5. MirrorRequest(c) => handler'[c].pc \in {"mirror", "linkRequest"}
  <2> DEFINE n == Earliest(handler[c].page)
  <2>1. CASE \E h \in Rows :
               handler' = [handler EXCEPT ![c].pc = "linkRequest", ![c].row = h]
    BY <1>1, <2>1 DEF Handlers
  <2>2. CASE handler' = [handler EXCEPT ![c].page = @ \ {n}]
    BY <1>1, <2>2 DEF MirrorRequest, At, Handlers
  <2> QED  BY <2>1, <2>2 DEF MirrorRequest
<1>6. MirrorLink(c) => handler'[c].pc \in {"mirror", "idle"}
  <2> DEFINE n == Earliest(handler[c].page)
  <2>1. CASE handler' = [handler EXCEPT ![c].pc = "mirror", ![c].page = @ \ {n}]
    BY <1>1, <2>1 DEF Handlers
  <2> QED  BY <1>2, <2>1 DEF MirrorLink
<1>7. ResolveBegin(c) => handler'[c].pc \in {"resolve", "store"}
  BY <1>1 DEF ResolveBegin, Idle
<1>8. ResolveForwarded(c) => handler'[c].pc = "store"
  BY <1>1 DEF ResolveForwarded, Go, Handlers
<1> QED  BY <1>2, <1>3, <1>4, <1>5, <1>6, <1>7, <1>8
         DEF ReadFails, ReadCursor, ResolveFails, ResolveStore

(* A row gets its link from the read that inserted it, and from no other.    *)
LEMMA LinkingStep ==
    ASSUME RequestInv, Linking, NEW c \in Callers,
           \/ ReadBegin(c) \/ ReadAnswered(c) \/ ReadFails(c)
           \/ MirrorRequest(c) \/ MirrorLink(c) \/ ReadCursor(c)
           \/ ResolveBegin(c) \/ ResolveForwarded(c) \/ ResolveFails(c) \/ ResolveStore(c)
    PROVE  Linking'
<1>1. /\ handler \in [Callers -> Handlers] /\ HoldsRow(c) /\ handler[c] \in Handlers
      /\ link \in [Rows -> Requests \cup {None}]
      /\ homeRow \in [Rows -> Undecided \cup Decisions]
  BY DEF RequestInv, StoreTypes, HandlerTypes
<1>2. \A d \in Callers : d # c => handler'[d] = handler[d]
  BY <1>1 DEF ReadBegin, ReadAnswered, ReadFails, MirrorRequest, MirrorLink, ReadCursor,
              ResolveBegin, ResolveForwarded, ResolveFails, ResolveStore, Return, Go
<1>a. ASSUME link' = link, \A h \in Rows : homeRow[h] # "absent" => homeRow'[h] # "absent",
             handler'[c].pc # "linkRequest"
      PROVE  Linking'
  <2>1. \A d \in Callers : At(d, "linkRequest") => handler[d].row \in Rows
    BY DEF RequestInv, HandlerTypes, HoldsRow, At
  <2> QED  BY <1>2, <1>a, <2>1 DEF Linking, At
<1>3. CASE MirrorRequest(c)
  <2>1. CASE handler'[c].pc # "linkRequest"
    <3>1. homeRow' = homeRow \/ \E h \in Rows : homeRow' = [homeRow EXCEPT ![h] = "pending"]
      BY <1>3 DEF MirrorRequest
    <3>2. link' = link /\ \A h \in Rows : homeRow[h] # "absent" => homeRow'[h] # "absent"
      BY <1>1, <1>3, <3>1 DEF MirrorRequest
    <3> QED  BY <1>a, <2>1, <3>2
  <2>2. CASE handler'[c].pc = "linkRequest"
    <3>1. handler' # [handler EXCEPT ![c].page = @ \ {Earliest(handler[c].page)}]
      BY <1>1, <1>3, <2>2 DEF MirrorRequest, At, Handlers
    <3>2. PICK h \in Rows : /\ homeRow[h] = "absent"
                            /\ homeRow' = [homeRow EXCEPT ![h] = "pending"]
                            /\ handler' = [handler EXCEPT ![c].pc = "linkRequest", ![c].row = h]
      BY <1>3, <3>1 DEF MirrorRequest
    <3>3. handler'[c].row = h /\ homeRow'[h] = "pending" /\ link' = link /\ link[h] = None
      BY <1>1, <1>3, <3>2 DEF MirrorRequest, Handlers, Linking
    <3>4. \A k \in Rows : homeRow[k] # "absent" => homeRow'[k] # "absent" /\ k # h
      BY <1>1, <3>2
    <3>5. \A d \in Callers : d # c /\ At(d, "linkRequest") =>
             handler[d].row \in Rows /\ handler[d].row # h
      BY <3>2 DEF RequestInv, HandlerTypes, HoldsRow, At, Linking
    <3> QED  BY <1>2, <3>3, <3>4, <3>5 DEF Linking, At
  <2> QED  BY <2>1, <2>2
<1>4. CASE MirrorLink(c)
  <2> DEFINE n == Earliest(handler[c].page)
             h == handler[c].row
  <2>1. At(c, "linkRequest") /\ homeRow' = homeRow /\ handler'[c].pc # "linkRequest"
    BY <1>4, NextPoint DEF MirrorLink
  <2>2. h \in Rows /\ homeRow[h] # "absent"
    BY <1>1, <2>1 DEF HoldsRow, At, Linking
  <2>3. link' = link \/ link' = [link EXCEPT ![h] = rlog[n].resource]
    BY <1>4 DEF MirrorLink
  <2> HIDE DEF n, h
  <2>4. \A k \in Rows : k # h => link'[k] = link[k]
    BY <1>1, <2>3
  <2>5. \A d \in Callers : d # c /\ At(d, "linkRequest") =>
           handler[d].row \in Rows /\ handler[d].row # h
    BY <2>1 DEF RequestInv, HandlerTypes, HoldsRow, At, Linking, h
  <2> QED  BY <1>2, <2>1, <2>2, <2>4, <2>5 DEF Linking, At
<1>5. CASE ReadBegin(c) \/ ReadAnswered(c) \/ ReadFails(c) \/ ReadCursor(c)
  <2>1. handler'[c].pc # "linkRequest"
    BY <1>5, NextPoint
  <2> QED  BY <1>5, <1>a, <2>1 DEF ReadBegin, ReadAnswered, ReadFails, ReadCursor, homeVars
<1>6. CASE ResolveBegin(c) \/ ResolveForwarded(c) \/ ResolveFails(c)
  <2>1. handler'[c].pc # "linkRequest"
    BY <1>6, NextPoint
  <2> QED  BY <1>6, <1>a, <2>1 DEF ResolveBegin, ResolveForwarded, ResolveFails, homeVars
<1>7. CASE ResolveStore(c)
  <2>1. handler'[c].pc # "linkRequest" /\ link' = link
    BY <1>7, NextPoint DEF ResolveStore
  <2>2. handler[c].decision \in Decisions /\ "absent" \notin Decisions
    BY <1>1, <1>7, RequestsAssumption DEF ResolveStore, HoldsRow, At
  <2>3. \A h \in Rows : homeRow[h] # "absent" => homeRow'[h] # "absent"
    BY <1>1, <1>7, <2>2 DEF ResolveStore
  <2> QED  BY <1>a, <2>1, <2>3
<1> QED  BY <1>3, <1>4, <1>5, <1>6, <1>7

LEMMA ReadStepDecided ==
    ASSUME RequestInv, DecidedInv, NEW c \in Callers,
           \/ ReadBegin(c) \/ ReadAnswered(c) \/ ReadFails(c)
           \/ MirrorRequest(c) \/ MirrorLink(c) \/ ReadCursor(c)
    PROVE  DecidedInv'
<1>1. /\ handler \in [Callers -> Handlers] /\ HoldsRow(c)
      /\ link \in [Rows -> Requests \cup {None}]
      /\ homeRow \in [Rows -> Undecided \cup Decisions]
      /\ Asked /\ Linking /\ DecidedThere /\ \A d \in Callers : DecidedFor(d)
  BY DEF RequestInv, StoreTypes, HandlerTypes, DecidedInv
<1>2. UNCHANGED <<rlog, req, unlinked>>
  BY DEF ReadBegin, ReadAnswered, ReadFails, MirrorRequest, MirrorLink, ReadCursor, remoteVars
<1>3. \A d \in Callers : d # c => handler'[d] = handler[d]
  BY <1>1 DEF ReadBegin, ReadAnswered, ReadFails, MirrorRequest, MirrorLink, ReadCursor, Return
<1>4. handler'[c].pc # "store" /\ Linking'
  BY <1>1, NextPoint, LinkingStep
<1>5. CASE MirrorLink(c) /\ link' # link
  <2> DEFINE n == Earliest(handler[c].page)
             h == handler[c].row
  <2>1. /\ link' = [link EXCEPT ![h] = rlog[n].resource] /\ homeRow' = homeRow
        /\ At(c, "linkRequest")
    BY <1>5 DEF MirrorLink
  <2>2. /\ n \in DOMAIN rlog /\ rlog[n].resource \in Requests /\ h \in Rows
        /\ req[rlog[n].resource] # "absent"
    BY <1>1, <2>1, EventAtHand DEF HoldsRow, At, Asked
  <2>3. link[h] = None
    BY <1>1, <2>1 DEF Linking
  <2> HIDE DEF n, h
  <2>4. /\ link'[h] = rlog[n].resource
        /\ \A k \in Rows : k # h => link'[k] = link[k]
    BY <1>1, <2>1, <2>2
  <2>5. Asked'
    BY <1>1, <1>2, <2>2, <2>4 DEF Asked
  <2>6. DecidedThere'
    BY <1>1, <1>2, <2>1, <2>3, <2>4 DEF DecidedThere, Known
  <2>7. ASSUME NEW d \in Callers PROVE DecidedFor(d)'
    <3>1. CASE d = c
      BY <1>4, <3>1 DEF DecidedFor, At
    <3>2. CASE d # c
      <4>1. At(d, "store") => handler[d].row \in Rows
        BY DEF RequestInv, HandlerTypes, HoldsRow, At
      <4> QED  BY <1>1, <1>2, <1>3, <2>3, <2>4, <3>2, <4>1 DEF DecidedFor, Known, At
    <3> QED  BY <3>1, <3>2
  <2> QED  BY <1>4, <2>5, <2>6, <2>7 DEF DecidedInv
<1>6. CASE link' = link
  <2>1. Asked'
    BY <1>1, <1>2, <1>6 DEF Asked
  <2>2. \A k \in Rows : homeRow'[k] = homeRow[k] \/ homeRow'[k] \in Undecided
    BY <1>1 DEF ReadBegin, ReadAnswered, ReadFails, MirrorRequest, MirrorLink, ReadCursor,
                homeVars, Undecided
  <2>3. DecidedThere'
    BY <1>1, <1>2, <1>6, <2>2 DEF DecidedThere
  <2>4. \A d \in Callers : DecidedFor(d)'
    BY <1>1, <1>2, <1>3, <1>4, <1>6 DEF DecidedFor, Known, At
  <2> QED  BY <1>4, <2>1, <2>3, <2>4 DEF DecidedInv
<1>7. MirrorLink(c) \/ link' = link
  BY DEF ReadBegin, ReadAnswered, ReadFails, MirrorRequest, ReadCursor, homeVars
<1> QED  BY <1>5, <1>6, <1>7

LEMMA ResolveStepDecided ==
    ASSUME RequestInv, DecidedInv, NEW c \in Callers,
           \/ ResolveBegin(c) \/ ResolveForwarded(c) \/ ResolveFails(c) \/ ResolveStore(c)
    PROVE  DecidedInv'
<1>1. /\ handler \in [Callers -> Handlers] /\ HoldsRow(c) /\ handler[c] \in Handlers
      /\ link \in [Rows -> Requests \cup {None}] /\ link' = link
      /\ homeRow \in [Rows -> Undecided \cup Decisions]
      /\ rlog \in Seq(RequestEvent) /\ DOMAIN rlog = 1 .. Len(rlog)
      /\ Asked /\ Linking' /\ DecidedThere /\ \A d \in Callers : DecidedFor(d)
  <2>0. Linking'
    BY LinkingStep DEF DecidedInv
  <2>1. link' = link
    BY DEF homeVars, ResolveBegin, ResolveForwarded, ResolveFails, ResolveStore
  <2>2. rlog \in Seq(RequestEvent) => DOMAIN rlog = 1 .. Len(rlog)
    OBVIOUS
  <2> QED  BY <2>0, <2>1, <2>2 DEF RequestInv, StoreTypes, HandlerTypes, DecidedInv
<1>2. \A d \in Callers : d # c => handler'[d] = handler[d]
  BY <1>1 DEF ResolveBegin, ResolveForwarded, ResolveFails, ResolveStore, Return, Go
<1>3. CASE ResolveBegin(c)
  <2>1. UNCHANGED <<rlog, req, homeRow>>
    BY <1>3 DEF ResolveBegin, remoteVars, homeVars
  <2>2. PICK h \in Rows, d \in Decisions :
          /\ handler' = [handler EXCEPT ![c] = [Idle EXCEPT !.row = h, !.decision = d,
                        !.pc = IF link[h] = None THEN "store" ELSE "resolve"]]
          /\ unlinked' = IF link[h] = None THEN unlinked \cup {h} ELSE unlinked
    BY <1>3 DEF ResolveBegin
  <2>3. handler'[c].row = h /\ (handler'[c].pc = "store" => h \in unlinked')
    BY <1>1, <2>2 DEF Idle
  <2>4. DecidedFor(c)' /\ unlinked \subseteq unlinked'
    BY <1>1, <2>2, <2>3 DEF DecidedFor, Known, At
  <2>5. \A d1 \in Callers : DecidedFor(d1)'
    BY <1>1, <1>2, <2>1, <2>4 DEF DecidedFor, Known, At
  <2> QED  BY <1>1, <2>1, <2>4, <2>5 DEF DecidedInv, Asked, DecidedThere
<1>4. CASE ResolveForwarded(c) \/ ResolveFails(c)
  <2> DEFINE r == link[handler[c].row]
  <2>1. /\ At(c, "resolve") /\ homeRow' = homeRow /\ unlinked' = unlinked
        /\ RemoteResolve(r, handler[c].decision) \/ UNCHANGED <<rlog, req>>
    BY <1>4 DEF ResolveForwarded, ResolveFails, homeVars, remoteVars
  <2>2. /\ handler[c].row \in Rows /\ handler[c].decision \in Decisions
        /\ r \in Requests /\ r # None /\ req[r] # "absent"
    BY <1>1, <2>1 DEF HoldsRow, At, Asked
  <2> HIDE DEF r
  <2>3. /\ \A q \in Requests : req[q] \notin Undecided => req'[q] \notin Undecided
        /\ \A q \in Requests : req[q] # "absent" => req'[q] # "absent"
    BY <2>1, <2>2, RemoteResolveTypes
  <2>4. \A n \in DOMAIN rlog : rlog[n].resource \in Requests
    <3>1. \A n \in DOMAIN rlog : rlog[n] \in RequestEvent
      BY <1>1
    <3> QED  BY <3>1 DEF RequestEvent
  <2>5. \A n \in DOMAIN rlog' : req'[rlog'[n].resource] # "absent"
    <3>1. CASE RemoteResolve(r, handler[c].decision)
      <4> DEFINE e == [resource |-> r, parent |-> "session", type |-> "request.resolved"]
      <4>1. rlog' = Append(rlog, e) /\ e \in RequestEvent /\ e.resource = r
        BY <2>2, <3>1, RemoteResolveTypes
      <4> HIDE DEF e
      <4>2. /\ \A n \in DOMAIN rlog : rlog'[n] = rlog[n]
            /\ \A n \in DOMAIN rlog' : n \in DOMAIN rlog \/ rlog'[n] = e
        BY <4>1, LongerLogHolds
      <4> QED  BY <1>1, <2>2, <2>3, <2>4, <4>1, <4>2 DEF Asked
    <3>2. CASE UNCHANGED <<rlog, req>>
      BY <1>1, <3>2 DEF Asked
    <3> QED  BY <2>1, <3>1, <3>2
  <2>6. \A h \in Rows : link'[h] # None => req'[link'[h]] # "absent"
    BY <1>1, <2>3 DEF Asked
  <2>7. DecidedThere' /\ \A d \in Callers : handler'[d] = handler[d] => DecidedFor(d)'
    BY <1>1, <2>1, <2>3, RemoteOnlyKeepsDecided
  <2>8. DecidedFor(c)'
    <3>1. CASE ResolveForwarded(c)
      <4>1. handler'[c].row = handler[c].row
        BY <1>1, <3>1 DEF ResolveForwarded, Go, Handlers
      <4>2. RemoteResolve(r, handler[c].decision)
        BY <3>1 DEF ResolveForwarded, r
      <4>3. req'[r] \notin Undecided
        BY <2>2, <4>2, RemoteResolveTypes
      <4> QED  BY <1>1, <2>2, <4>1, <4>3 DEF DecidedFor, Known, r
    <3>2. CASE ResolveFails(c)
      BY <1>1, <3>2 DEF ResolveFails, Return, Idle, DecidedFor, At
    <3> QED  BY <1>4, <3>1, <3>2
  <2> QED  BY <1>1, <1>2, <2>5, <2>6, <2>7, <2>8 DEF DecidedInv, Asked
<1>5. CASE ResolveStore(c)
  <2>1. UNCHANGED <<rlog, req, unlinked>> /\ At(c, "store") /\ handler' = [handler EXCEPT ![c] = Idle]
    BY <1>5 DEF ResolveStore, Return, remoteVars
  <2>2. handler[c].row \in Rows
    BY <1>1, <2>1 DEF HoldsRow, At
  <2>3. \A h \in Rows : h # handler[c].row => homeRow'[h] = homeRow[h]
    BY <1>1, <1>5 DEF ResolveStore
  <2>4. Known(handler[c].row)
    BY <1>1, <2>1 DEF DecidedFor
  <2>5. DecidedThere'
    BY <1>1, <2>1, <2>3, <2>4 DEF DecidedThere, Known
  <2>6. DecidedFor(c)'
    BY <1>1, <2>1 DEF DecidedFor, At, Idle
  <2>7. \A d \in Callers : DecidedFor(d)'
    BY <1>1, <1>2, <2>1, <2>6 DEF DecidedFor, Known, At
  <2> QED  BY <1>1, <2>1, <2>5, <2>7 DEF DecidedInv, Asked
<1> QED  BY <1>3, <1>4, <1>5

LEMMA DecidedStep ==
    ASSUME RequestInv, DecidedInv, [RequestNext]_requestVars
    PROVE  DecidedInv'
<1>1. CASE UNCHANGED requestVars
  <2>1. UNCHANGED <<rlog, req, homeRow, link, handler, unlinked>>
    BY <1>1 DEF requestVars, remoteVars, homeVars
  <2> QED  BY <2>1 DEF DecidedInv, Asked, Linking, DecidedFor, Known, DecidedThere, At
<1>2. CASE CrashAndRestart
  <2>1. /\ UNCHANGED <<rlog, req, homeRow, link, unlinked>>
        /\ handler' = [c \in Callers |-> Idle]
    BY <1>2 DEF CrashAndRestart, remoteVars, homeVars
  <2> QED  BY <2>1 DEF DecidedInv, Asked, Linking, DecidedFor, Known, DecidedThere, At, Idle
<1> QED  BY <1>1, <1>2, RemoteStepDecided, ReadStepDecided, ResolveStepDecided
         DEF RequestNext, Read, Resolve

LEMMA DecidedBegins == RequestInit => DecidedInv
<1> SUFFICES ASSUME RequestInit PROVE DecidedInv
  OBVIOUS
<1>1. /\ DOMAIN rlog = {} /\ \A h \in Rows : homeRow[h] = "absent" /\ link[h] = None
      /\ \A c \in Callers : handler[c].pc = "idle"
  BY DEF RequestInit, Idle
<1> QED  BY <1>1 DEF DecidedInv, Asked, Linking, DecidedFor, DecidedThere, At, Undecided

(* However many calls overlap, whatever is lost and wherever the home broker *)
(* crashes, a decision that found its row linked is known to the remote      *)
(* broker before it is shown here.                                           *)
THEOREM DecisionsReachRemote == RequestSpec => []DecidedThere
<1>1. RequestInv /\ DecidedInv /\ [RequestNext]_requestVars => DecidedInv'
  BY DecidedStep
<1>2. DecidedInv => DecidedThere
  BY DEF DecidedInv
<1> QED  BY <1>1, <1>2, DecidedBegins, RequestAlways, PTL DEF RequestSpec
=============================================================================
