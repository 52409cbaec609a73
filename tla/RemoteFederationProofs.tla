------------------------ MODULE RemoteFederationProofs ------------------------
(***************************************************************************)
(* Type correctness of RemoteFederation for every instance; that nothing   *)
(* is mirrored twice short of a crash, while no two calls are between      *)
(* reading the cursor and storing it; and that the home rows reflect the   *)
(* remote verdicts, while sends (of a foreground that sends when no turn   *)
(* is active) and reads follow one another. Cancels may overlap all of it. *)
(***************************************************************************)
EXTENDS RemoteFederation, FiniteSetTheorems, WellFoundedInduction, TLAPS

EventTypes == {"turn.queued", "turn.started", "message.delta"} \cup DOMAIN Verdict
Events(ws) == [resource : ws, parent : {RemoteSession}, type : EventTypes]

\* TypeOK in three parts, for the proofs to take one at a time.
RemoteTypes == rlog \in Seq(Events(Works)) /\ work \in Seq(Ops) /\ ended \subseteq Works
RowTypes ==
    /\ turn \in [Turns -> TurnStatus] /\ session \in SessionStatus
    /\ link \in [Turns -> {NoTurn} \cup Works] /\ cursor \in 0 .. Len(rlog)
    /\ op \in [Ops -> {"absent", "pending", "applied"}]
    /\ mirrored \subseteq DOMAIN rlog /\ repeated \subseteq mirrored
Holds == [pc : Pcs, op : Ops \cup {NoOp}, turn : {NoTurn} \cup Turns,
          work : {NoTurn} \cup Works, cursor : 0 .. Len(rlog), page : SUBSET DOMAIN rlog]
CallTypes == call \in [Callers -> Holds]
SpentTypes == spent \in [crashes : 0 .. MaxCrashes, lost : 0 .. MaxLost, cancels : 0 .. MaxCancels]

Mirroring == {"mirror", "mirrorTurn", "mirrorSession"}

\* What a call holds, whoever runs beside it.
HoldsIts(c) ==
    /\ call[c].pc \in {"record", "insert", "announce", "forward", "link", "setCursor", "applied"}
         => call[c].op \in Ops
    /\ At(c, "link") => call[c].work \in Works
    /\ At(c, "cancel") => call[c].turn \in Turns /\ link[call[c].turn] # NoTurn
    /\ call[c].pc \in {"mirrorTurn", "mirrorSession"} =>
         call[c].page # {} /\ rlog[Oldest(call[c].page)].type \in DOMAIN Verdict
Holding == \A c \in Callers : HoldsIts(c)

TypeInv == RemoteTypes /\ RowTypes /\ CallTypes /\ SpentTypes /\ Holding

LEMMA TypeInvGivesTypes == TypeInv => TypeOK
BY DEF TypeInv, RemoteTypes, RowTypes, CallTypes, SpentTypes, TypeOK, Events, EventTypes, Holds

-----------------------------------------------------------------------------
(* Pages and logs.                                                          *)

\* The oldest event of a page is one of it, and none is older.
LEMMA OldestExists ==
    ASSUME NEW P \in SUBSET Nat, P # {}
    PROVE  Oldest(P) \in P /\ \A m \in P : Oldest(P) <= m
<1>1. \E n \in P : \A m \in P : <<m, n>> \notin OpToRel(<, Nat)
  <2>1. P \subseteq Nat
    OBVIOUS
  <2> QED  BY <2>1, NatLessThanWellFounded, WFMin, Zenon
<1>2. PICK n \in P : \A m \in P : <<m, n>> \notin {ss \in Nat \X Nat : ss[1] < ss[2]}
  BY <1>1 DEF OpToRel
<1>3. \A m \in P : n \in Nat /\ m \in Nat /\ ~(m < n)
  BY <1>2
<1>4. \A m \in P : n <= m
  BY <1>3
<1> QED  BY <1>4 DEF Oldest

\* A page of the session's log has every event between its cursor and its end.
LEMMA PageHasAll ==
    ASSUME NEW S, NEW l \in Seq(S), NEW c \in Nat,
           \A m \in DOMAIN l : l[m].parent = RemoteSession
    PROVE  LET page == ReadEvents(l, RemoteSession, c, PageLimit, {})
           IN  /\ page \subseteq DOMAIN l /\ \A n \in page : c < n
               /\ \A n \in page, m \in DOMAIN l : c < m /\ m <= n => m \in page
<1> DEFINE M == Matching(l, RemoteSession, c)
           Before(k) == {i \in M : i < k}
<1>1. M = {m \in DOMAIN l : c < m}
  BY DEF Matching
<1>2. ReadEvents(l, RemoteSession, c, PageLimit, {})
        = {n \in M : Cardinality(Before(n)) < PageLimit}
  BY DEF ReadEvents, Page, Passes
<1>3. ASSUME NEW n \in M, NEW m \in M, m <= n, Cardinality(Before(n)) < PageLimit
      PROVE  Cardinality(Before(m)) < PageLimit
  <2>1. Before(m) \subseteq Before(n) /\ Before(n) \subseteq 1 .. Len(l)
    BY <1>1, <1>3
  <2>2. IsFiniteSet(Before(n))
    BY <2>1, FS_Interval, FS_Subset
  <2>3. /\ Cardinality(Before(m)) <= Cardinality(Before(n))
        /\ Cardinality(Before(n)) \in Nat /\ Cardinality(Before(m)) \in Nat
    BY <2>1, <2>2, FS_Subset, FS_CardinalityType
  <2> QED  BY <1>3, <2>3, FederationAssumption
<1> QED  BY <1>1, <1>2, <1>3

\* The remote log only grows: what it held, it holds.
Longer ==
    /\ RemoteTypes'
    /\ Len(rlog) \in Nat /\ Len(rlog)' \in Nat /\ Len(rlog) <= Len(rlog)'
    /\ DOMAIN rlog = 1 .. Len(rlog) /\ DOMAIN rlog' = 1 .. Len(rlog)'
    /\ Works \subseteq Works'
    /\ \A n \in DOMAIN rlog : rlog'[n] = rlog[n]

\* Each of the remote broker's actions makes it longer by events of one work.
LEMMA AppendIsLonger ==
    ASSUME RemoteTypes, NEW w \in Works, NEW type \in EventTypes,
           rlog' = Append(rlog, RemoteEvent(w, type)), work' = work, ended' \subseteq Works
    PROVE  Longer /\ rlog'[Len(rlog) + 1] = RemoteEvent(w, type) /\ Len(rlog)' = Len(rlog) + 1
<1>1. RemoteEvent(w, type) \in Events(Works)
  BY DEF RemoteEvent, Events
<1> QED  BY <1>1 DEF RemoteTypes, Longer, Works

LEMMA SendIsLonger ==
    ASSUME RemoteTypes, NEW o \in Ops, RemoteSend(o), ended' = ended
    PROVE  /\ Longer
           /\ Len(rlog)' = Len(rlog) + 2
           /\ Len(work) + 1 \in Works' \ Works
           /\ \A n \in DOMAIN rlog' \ DOMAIN rlog :
                /\ rlog'[n].resource = Len(work) + 1
                /\ rlog'[n].type \notin DOMAIN Verdict
<1> DEFINE w == Len(work) + 1
           e1 == RemoteEvent(w, "turn.queued")
           e2 == RemoteEvent(w, "turn.started")
<1>1. work' \in Seq(Ops) /\ Len(work') = w /\ Works = 1 .. Len(work) /\ Works' = 1 .. w
  BY DEF RemoteSend, RemoteTypes, Works
<1>2. e1 \in Events(Works') /\ e2 \in Events(Works')
  BY <1>1 DEF RemoteTypes, RemoteEvent, Events, EventTypes
<1>3. rlog \in Seq(Events(Works'))
  <2>1. Events(Works) \subseteq Events(Works')
    BY <1>1 DEF RemoteTypes, Events
  <2> QED  BY <2>1 DEF RemoteTypes
<1>4. rlog' = rlog \o <<e1, e2>>
  BY DEF RemoteSend
<1> HIDE DEF e1, e2, w
<1>5. /\ rlog' \in Seq(Events(Works')) /\ Len(rlog') = Len(rlog) + 2
      /\ \A n \in 1 .. Len(rlog) : rlog'[n] = rlog[n]
      /\ rlog'[Len(rlog) + 1] = e1 /\ rlog'[Len(rlog) + 2] = e2
  BY <1>2, <1>3, <1>4
<1>6. \A n \in DOMAIN rlog' \ DOMAIN rlog : rlog'[n] \in {e1, e2}
  BY <1>3, <1>5
<1>7. Longer
  BY <1>1, <1>3, <1>5 DEF Longer, RemoteTypes, w
<1> QED  BY <1>1, <1>5, <1>6, <1>7 DEF e1, e2, w, RemoteEvent, Verdict, RemoteTypes

-----------------------------------------------------------------------------
(* Type correctness.                                                        *)

\* Whose types a longer log, or a changed call, leaves alone.
LEMMA LongerTypes ==
    ASSUME TypeInv, Longer
    PROVE  /\ UNCHANGED <<rowVars, mirrorVars>> => RowTypes'
           /\ Holds \subseteq Holds'
<1> USE DEF TypeInv, RemoteTypes, Longer
<1>1. UNCHANGED <<rowVars, mirrorVars>> => RowTypes'
  BY DEF RowTypes, rowVars, mirrorVars
<1>2. Holds \subseteq Holds'
  BY DEF Holds
<1> QED  BY <1>1, <1>2

\* A call that does not move, while the log grows and no link is undone, ...
LEMMA CallKept ==
    ASSUME TypeInv, Longer \/ UNCHANGED remoteVars, NEW d \in Callers, call'[d] = call[d],
           \A t \in Turns : link[t] # NoTurn => link'[t] # NoTurn
    PROVE  call'[d] \in Holds' /\ HoldsIts(d)'
<1>1. Holds \subseteq Holds' /\ Works \subseteq Works' /\ DOMAIN rlog \subseteq DOMAIN rlog'
      /\ \A n \in DOMAIN rlog : rlog'[n] = rlog[n]
  BY LongerTypes DEF Longer, remoteVars, Holds, Works
<1>2. call[d] \in Holds /\ HoldsIts(d)
  BY DEF TypeInv, CallTypes, Holding
<1>3. ASSUME call[d].pc \in {"mirrorTurn", "mirrorSession"}
      PROVE  call[d].page # {} /\ rlog'[Oldest(call[d].page)].type \in DOMAIN Verdict
  <2>1. call[d].page \subseteq DOMAIN rlog /\ call[d].page # {} /\ DOMAIN rlog \subseteq Nat
        /\ rlog[Oldest(call[d].page)].type \in DOMAIN Verdict
    BY <1>2, <1>3 DEF TypeInv, Holds, HoldsIts, RemoteTypes
  <2>2. Oldest(call[d].page) \in DOMAIN rlog
    BY <2>1, OldestExists
  <2> QED  BY <2>1, <2>2, <1>1
<1>4. call[d].turn \in Turns /\ link[call[d].turn] # NoTurn => link'[call[d].turn] # NoTurn
  OBVIOUS
<1> QED  BY <1>1, <1>2, <1>3, <1>4 DEF HoldsIts, At

LEMMA CallsKept ==
    ASSUME TypeInv, Longer \/ UNCHANGED remoteVars, UNCHANGED call,
           \A t \in Turns : link[t] # NoTurn => link'[t] # NoTurn
    PROVE  CallTypes' /\ Holding'
BY CallKept DEF TypeInv, CallTypes, Holding

\* ... and one that moves to h.
LEMMA CallStep ==
    ASSUME TypeInv, Longer \/ UNCHANGED remoteVars, NEW c \in Callers, NEW h \in Holds',
           call' = [call EXCEPT ![c] = h],
           \A t \in Turns : link[t] # NoTurn => link'[t] # NoTurn,
           h.pc \in {"record", "insert", "announce", "forward", "link", "setCursor", "applied"}
             => h.op \in Ops,
           h.pc = "link" => h.work \in Works',
           h.pc = "cancel" => h.turn \in Turns /\ link'[h.turn] # NoTurn,
           h.pc \in {"mirrorTurn", "mirrorSession"} =>
             h.page # {} /\ rlog'[Oldest(h.page)].type \in DOMAIN Verdict
    PROVE  CallTypes' /\ Holding'
<1>1. /\ DOMAIN call' = Callers /\ call' = [d \in Callers |-> call'[d]]
      /\ call'[c] = h /\ \A d \in Callers \ {c} : call'[d] = call[d]
  BY DEF TypeInv, CallTypes
<1>2. call'[c] \in Holds' /\ HoldsIts(c)'
  BY <1>1 DEF HoldsIts, At
<1>3. \A d \in Callers \ {c} : call'[d] \in Holds' /\ HoldsIts(d)'
  BY <1>1, CallKept
<1> QED  BY <1>1, <1>2, <1>3 DEF CallTypes, Holding

LEMMA IdleHolds ==
    /\ TypeInv => Idle \in Holds
    /\ Idle.pc = "idle" /\ Idle.op = NoOp /\ Idle.turn = NoTurn /\ Idle.work = NoTurn
    /\ Idle.cursor = 0 /\ Idle.page = {}
BY DEF Idle, Holds, Pcs, TypeInv, RemoteTypes, NoTurn

LEMMA ReturnStep ==
    ASSUME TypeInv, Longer \/ UNCHANGED remoteVars, NEW c \in Callers, Return(c), UNCHANGED link
    PROVE  CallTypes' /\ Holding'
<1>1. Holds \subseteq Holds'
  BY LongerTypes DEF remoteVars, Holds, Works
<1> QED  BY <1>1, IdleHolds, CallStep DEF Return

LEMMA GoStep ==
    ASSUME TypeInv, Longer \/ UNCHANGED remoteVars, NEW c \in Callers, NEW pc \in Pcs, Go(c, pc),
           \A t \in Turns : link[t] # NoTurn => link'[t] # NoTurn,
           pc \notin {"link", "cancel"},
           pc \in {"record", "insert", "announce", "forward", "setCursor", "applied"}
             => call[c].op \in Ops,
           pc = "mirrorSession" =>
             call[c].page # {} /\ rlog'[Oldest(call[c].page)].type \in DOMAIN Verdict,
           pc # "mirrorTurn"
    PROVE  CallTypes' /\ Holding'
<1> DEFINE h == [call[c] EXCEPT !.pc = pc]
<1>1. Holds \subseteq Holds'
  BY LongerTypes DEF remoteVars, Holds, Works
<1>2. call[c] \in Holds
  BY DEF TypeInv, CallTypes
<1>3. h \in Holds /\ h.pc = pc /\ h.op = call[c].op /\ h.page = call[c].page
  BY <1>2 DEF Holds
<1>4. call' = [call EXCEPT ![c] = h]
  BY DEF Go
<1> HIDE DEF h
<1> QED  BY <1>1, <1>3, <1>4, CallStep

LEMMA RemoteTypeStep ==
    ASSUME TypeInv, RemoteDelta \/ \E w \in Works : RemoteEnds(w)
    PROVE  TypeInv'
<1>1. PICK w \in Works, type \in EventTypes :
         rlog' = Append(rlog, RemoteEvent(w, type)) /\ work' = work /\ ended' \subseteq Works
  <2>1. CASE RemoteDelta
    <3>1. PICK w \in Works : rlog' = Append(rlog, RemoteEvent(w, "message.delta"))
      BY <2>1 DEF RemoteDelta
    <3>2. work' = work /\ ended' = ended /\ "message.delta" \in EventTypes
      BY <2>1 DEF RemoteDelta, EventTypes
    <3> QED  BY <3>1, <3>2 DEF TypeInv, RemoteTypes
  <2>2. ASSUME NEW w \in Works, RemoteEnds(w)
        PROVE  \E type \in EventTypes : /\ rlog' = Append(rlog, RemoteEvent(w, type))
                                        /\ work' = work /\ ended' \subseteq Works
    BY <2>2, FederationAssumption DEF RemoteEnds, EventTypes, TypeInv, RemoteTypes
  <2> QED  BY <2>1, <2>2
<1>2. Longer
  BY <1>1, AppendIsLonger DEF TypeInv
<1>3. UNCHANGED <<rowVars, mirrorVars, call, spent>>
  BY DEF RemoteDelta, RemoteEnds
<1> QED  BY <1>2, <1>3, LongerTypes, CallsKept DEF TypeInv, Longer, SpentTypes, rowVars

LEMMA SendTypeStep ==
    ASSUME TypeInv, NEW c \in Callers, Send(c) \/ SendFails(c) \/ \E o \in Ops : SendBegin(c, o)
    PROVE  TypeInv'
<1>1. ASSUME NEW o \in Ops, SendBegin(c, o) PROVE TypeInv'
  <2> DEFINE h == [Idle EXCEPT !.pc = "record", !.op = o]
  <2>1. h \in Holds /\ h.pc = "record" /\ h.op = o
    BY IdleHolds DEF Holds, Pcs
  <2>2. call' = [call EXCEPT ![c] = h] /\ UNCHANGED <<remoteVars, rowVars, mirrorVars, spent>>
    BY <1>1 DEF SendBegin
  <2> HIDE DEF h
  <2>3. h \in Holds'
    BY <2>1, <2>2 DEF Holds, remoteVars, Works
  <2>4. CallTypes' /\ Holding'
    BY <2>1, <2>2, <2>3, CallStep DEF rowVars
  <2> QED  BY <2>2, <2>4 DEF TypeInv, RemoteTypes, RowTypes, SpentTypes, remoteVars, rowVars,
                            mirrorVars, Works
<1>2. CASE SendRecord(c)
  <2>1. CallTypes' /\ Holding'
    BY <1>2, GoStep DEF SendRecord, Pcs, TypeInv, Holding, HoldsIts, At, remoteVars
  <2> QED  BY <1>2, <2>1 DEF SendRecord, TypeInv, RemoteTypes, RowTypes, SpentTypes, remoteVars,
                            mirrorVars, Works
<1>3. CASE SendInsert(c)
  <2>1. PICK t \in Turns : /\ turn' = [turn EXCEPT ![t] = "running"]
                           /\ call' = [call EXCEPT ![c].turn = t, ![c].pc = "announce"]
    BY <1>3 DEF SendInsert
  <2> DEFINE h == [call[c] EXCEPT !.turn = t, !.pc = "announce"]
  <2>2. call[c] \in Holds /\ call[c].op \in Ops
    BY <1>3 DEF TypeInv, CallTypes, Holding, HoldsIts, SendInsert, At
  <2>3. h \in Holds /\ h.pc = "announce" /\ h.op = call[c].op
    BY <2>2 DEF Holds, Pcs
  <2>4. call' = [call EXCEPT ![c] = h]
    BY <2>1, <2>2 DEF Holds
  <2>5. UNCHANGED <<remoteVars, session, link, cursor, op, mirrorVars, spent>>
    BY <1>3 DEF SendInsert
  <2> HIDE DEF h
  <2>6. h \in Holds'
    BY <2>3, <2>5 DEF Holds, remoteVars, Works
  <2>7. CallTypes' /\ Holding'
    BY <2>2, <2>3, <2>4, <2>5, <2>6, CallStep
  <2> QED  BY <2>1, <2>5, <2>7 DEF TypeInv, RemoteTypes, RowTypes, SpentTypes, remoteVars,
                                  mirrorVars, Works, TurnStatus, ActiveStatus
<1>4. CASE SendAnnounce(c)
  <2>1. CallTypes' /\ Holding'
    BY <1>4, GoStep DEF SendAnnounce, Pcs, TypeInv, Holding, HoldsIts, At, remoteVars
  <2> QED  BY <1>4, <2>1 DEF SendAnnounce, TypeInv, RemoteTypes, RowTypes, SpentTypes, remoteVars,
                            mirrorVars, Works, SessionStatus
<1>5. CASE SendForwarded(c)
  <2>1. call[c] \in Holds /\ call[c].op \in Ops
    BY <1>5 DEF TypeInv, CallTypes, Holding, HoldsIts, SendForwarded, At
  <2>2. Longer /\ Len(rlog)' = Len(rlog) + 2 /\ Len(work) + 1 \in Works'
    BY <1>5, <2>1, SendIsLonger DEF SendForwarded, TypeInv
  <2> DEFINE h == [call[c] EXCEPT !.pc = "link", !.work = Len(work) + 1, !.cursor = Len(rlog) + 2]
  <2>3. Holds \subseteq Holds' /\ Len(rlog) + 2 \in 0 .. Len(rlog)'
    BY <2>2, LongerTypes DEF TypeInv, RemoteTypes, Longer
  <2>4. h \in Holds' /\ h.pc = "link" /\ h.op = call[c].op /\ h.work = Len(work) + 1
    BY <2>1, <2>2, <2>3 DEF Holds, Pcs
  <2>5. call' = [call EXCEPT ![c] = h]
    BY <1>5, <2>1 DEF SendForwarded, Holds
  <2> HIDE DEF h
  <2>6. UNCHANGED <<rowVars, mirrorVars, spent>>
    BY <1>5 DEF SendForwarded
  <2>7. CallTypes' /\ Holding'
    BY <2>1, <2>2, <2>4, <2>5, <2>6, CallStep DEF rowVars
  <2> QED  BY <2>2, <2>6, <2>7, LongerTypes DEF TypeInv, Longer, SpentTypes
<1>6. CASE SendFails(c)
  <2>1. call[c].op \in Ops
    BY <1>6 DEF TypeInv, Holding, HoldsIts, SendFails, At
  <2>2. Longer \/ UNCHANGED remoteVars
    BY <1>6, <2>1, SendIsLonger DEF SendFails, TypeInv, remoteVars
  <2>3. UNCHANGED <<rowVars, mirrorVars>>
    BY <1>6 DEF SendFails
  <2>4. CallTypes' /\ Holding'
    BY <1>6, <2>1, <2>2, <2>3, GoStep DEF SendFails, Pcs, rowVars
  <2>5. RemoteTypes' /\ RowTypes'
    BY <2>2, <2>3, LongerTypes DEF TypeInv, Longer, RemoteTypes, RowTypes, remoteVars, rowVars,
                                   mirrorVars, Works
  <2>6. SpentTypes'
    BY <1>6, FederationAssumption DEF SendFails, Lose, TypeInv, SpentTypes
  <2> QED  BY <2>4, <2>5, <2>6 DEF TypeInv
<1>7. CASE SendDegradeTurn(c)
  <2>1. CallTypes' /\ Holding'
    BY <1>7, GoStep DEF SendDegradeTurn, Pcs, remoteVars
  <2> QED  BY <1>7, <2>1 DEF SendDegradeTurn, TypeInv, RemoteTypes, RowTypes, SpentTypes,
                            remoteVars, mirrorVars, Works, TurnStatus
<1>8. CASE SendDegradeSession(c)
  <2>1. CallTypes' /\ Holding'
    BY <1>8, ReturnStep DEF SendDegradeSession
  <2> QED  BY <1>8, <2>1 DEF SendDegradeSession, TypeInv, RemoteTypes, RowTypes, SpentTypes,
                            remoteVars, mirrorVars, Works, SessionStatus
<1>9. CASE SendLink(c)
  <2>1. call[c].op \in Ops /\ call[c].work \in Works
    BY <1>9 DEF TypeInv, Holding, HoldsIts, SendLink, At
  <2>2. \A t \in Turns : link[t] # NoTurn => link'[t] # NoTurn
    BY <1>9, <2>1 DEF SendLink, TypeInv, RowTypes, RemoteTypes, Works, NoTurn
  <2>3. CallTypes' /\ Holding'
    BY <1>9, <2>1, <2>2, GoStep DEF SendLink, Pcs, remoteVars
  <2> QED  BY <1>9, <2>1, <2>3 DEF SendLink, TypeInv, RemoteTypes, RowTypes, SpentTypes,
                                  remoteVars, mirrorVars, Works
<1>10. CASE SendCursor(c)
  <2>1. CallTypes' /\ Holding'
    BY <1>10, GoStep DEF SendCursor, Pcs, TypeInv, Holding, HoldsIts, At, remoteVars
  <2>2. call[c].cursor \in 0 .. Len(rlog)
    BY DEF TypeInv, CallTypes, Holds
  <2> QED  BY <1>10, <2>1, <2>2 DEF SendCursor, TypeInv, RemoteTypes, RowTypes, SpentTypes,
                                   remoteVars, mirrorVars, Works
<1>11. CASE SendApplied(c)
  <2>1. CallTypes' /\ Holding'
    BY <1>11, ReturnStep DEF SendApplied
  <2> QED  BY <1>11, <2>1 DEF SendApplied, TypeInv, RemoteTypes, RowTypes, SpentTypes,
                             remoteVars, mirrorVars, Works
<1> QED  BY <1>1, <1>2, <1>3, <1>4, <1>5, <1>6, <1>7, <1>8, <1>9, <1>10, <1>11 DEF Send

\* The page a read is answered with, and the cursor it is left at.
LEMMA Answer ==
    ASSUME TypeInv, NEW c \in Callers, ReadAnswered(c)
    PROVE  \E page \in SUBSET DOMAIN rlog, last \in 0 .. Len(rlog) :
              /\ call' = [call EXCEPT ![c] = [call[c] EXCEPT !.pc = "mirror", !.page = page,
                                                             !.cursor = last]]
              /\ call[c].cursor <= last /\ \A n \in page : call[c].cursor < n /\ n <= last
              /\ \A m \in DOMAIN rlog : call[c].cursor < m /\ m <= last => m \in page
<1> DEFINE page == ReadEvents(rlog, RemoteSession, call[c].cursor, PageLimit, {})
<1>1. /\ rlog \in Seq(Events(Works)) /\ DOMAIN rlog = 1 .. Len(rlog) /\ Len(rlog) \in Nat
      /\ call[c] \in Holds /\ call[c].cursor \in 0 .. Len(rlog) /\ call[c].cursor \in Nat
  BY DEF TypeInv, RemoteTypes, CallTypes, Holds
<1>2. \A m \in DOMAIN rlog : rlog[m].parent = RemoteSession
  <2>1. \A m \in DOMAIN rlog : rlog[m] \in Events(Works)
    BY <1>1
  <2> QED  BY <2>1 DEF Events
<1>3. /\ page \subseteq DOMAIN rlog /\ \A n \in page : call[c].cursor < n
      /\ \A n \in page, m \in DOMAIN rlog : call[c].cursor < m /\ m <= n => m \in page
  BY <1>1, <1>2, PageHasAll
<1>4. PICK last \in {call[c].cursor} \cup page :
         /\ \A n \in {call[c].cursor} \cup page : n <= last
         /\ call' = [call EXCEPT ![c].pc = "mirror", ![c].page = page, ![c].cursor = last]
  BY DEF ReadAnswered
<1> HIDE DEF page
<1>5. last \in 0 .. Len(rlog) /\ call[c].cursor <= last /\ \A n \in page : n <= last
  BY <1>1, <1>3, <1>4
<1>6. \A m \in DOMAIN rlog : call[c].cursor < m /\ m <= last => m \in page
  BY <1>1, <1>3, <1>4
<1>7. call' = [call EXCEPT ![c] = [call[c] EXCEPT !.pc = "mirror", !.page = page, !.cursor = last]]
  BY <1>1, <1>4 DEF Holds
<1> QED  BY <1>3, <1>5, <1>6, <1>7

\* The event that a read mirrors is the oldest of its page.
LEMMA OldestOfPage ==
    ASSUME TypeInv, NEW c \in Callers, call[c].page # {}
    PROVE  /\ Oldest(call[c].page) \in call[c].page /\ Oldest(call[c].page) \in DOMAIN rlog
           /\ \A m \in call[c].page : Oldest(call[c].page) <= m
<1>1. call[c].page \subseteq DOMAIN rlog /\ DOMAIN rlog \subseteq Nat
  BY DEF TypeInv, CallTypes, Holds, RemoteTypes
<1> QED  BY <1>1, OldestExists

LEMMA ReadTypeStep ==
    ASSUME TypeInv, NEW c \in Callers, Read(c) \/ ReadFails(c) \/ ReadBegin(c)
    PROVE  TypeInv'
<1>1. CASE ReadBegin(c)
  <2> DEFINE h == [Idle EXCEPT !.pc = "read", !.cursor = cursor]
  <2>1. h \in Holds /\ h.pc = "read"
    BY IdleHolds DEF Holds, Pcs, TypeInv, RowTypes
  <2>2. call' = [call EXCEPT ![c] = h] /\ UNCHANGED <<remoteVars, rowVars, mirrorVars, spent>>
    BY <1>1 DEF ReadBegin
  <2> HIDE DEF h
  <2>3. h \in Holds'
    BY <2>1, <2>2 DEF Holds, remoteVars, Works
  <2>4. CallTypes' /\ Holding'
    BY <2>1, <2>2, <2>3, CallStep DEF rowVars
  <2> QED  BY <2>2, <2>4 DEF TypeInv, RemoteTypes, RowTypes, SpentTypes, remoteVars, rowVars,
                            mirrorVars, Works
<1>2. CASE ReadAnswered(c)
  <2>1. PICK page \in SUBSET DOMAIN rlog, last \in 0 .. Len(rlog) :
           call' = [call EXCEPT ![c] = [call[c] EXCEPT !.pc = "mirror", !.page = page,
                                                       !.cursor = last]]
    BY <1>2, Answer
  <2> DEFINE h == [call[c] EXCEPT !.pc = "mirror", !.page = page, !.cursor = last]
  <2>2. call[c] \in Holds
    BY DEF TypeInv, CallTypes
  <2>3. h \in Holds /\ h.pc = "mirror"
    BY <2>2 DEF Holds, Pcs
  <2>4. UNCHANGED <<remoteVars, rowVars, mirrorVars, spent>> /\ call' = [call EXCEPT ![c] = h]
    BY <1>2, <2>1 DEF ReadAnswered
  <2> HIDE DEF h
  <2>5. h \in Holds'
    BY <2>3, <2>4 DEF Holds, remoteVars, Works
  <2>6. CallTypes' /\ Holding'
    BY <2>3, <2>4, <2>5, CallStep DEF rowVars
  <2> QED  BY <2>4, <2>6 DEF TypeInv, RemoteTypes, RowTypes, SpentTypes, remoteVars, rowVars,
                            mirrorVars, Works
<1>3. CASE MirrorEvent(c)
  <2> DEFINE n == Oldest(call[c].page)
             linked == {t \in Turns : link[t] = rlog[n].resource /\ link[t] # NoTurn}
             turning == linked # {} /\ rlog[n].type \in DOMAIN Verdict
  <2>1. n \in call[c].page /\ n \in DOMAIN rlog /\ call[c] \in Holds
    BY <1>3, OldestOfPage DEF MirrorEvent, TypeInv, CallTypes
  <2>2. /\ mirrored' = mirrored \cup {n} /\ repeated' = repeated \cup ({n} \cap mirrored)
        /\ UNCHANGED <<remoteVars, rowVars, spent>>
    BY <1>3 DEF MirrorEvent
  <2>3. ASSUME turning PROVE CallTypes' /\ Holding'
    <3>1. PICK t \in linked : call' = [call EXCEPT ![c].pc = "mirrorTurn", ![c].turn = t]
      BY <1>3, <2>3 DEF MirrorEvent
    <3> DEFINE h == [call[c] EXCEPT !.pc = "mirrorTurn", !.turn = t]
    <3>2. /\ h \in Holds /\ h.pc = "mirrorTurn" /\ h.page = call[c].page
          /\ call' = [call EXCEPT ![c] = h]
      BY <2>1, <3>1 DEF Holds, Pcs
    <3>3. call[c].page # {} /\ rlog'[n].type \in DOMAIN Verdict
      BY <2>1, <2>2, <2>3 DEF remoteVars
    <3> HIDE DEF h
    <3>4. h \in Holds'
      BY <3>2, <2>2 DEF Holds, remoteVars, Works
    <3> QED  BY <2>2, <3>2, <3>3, <3>4, CallStep DEF rowVars
  <2>4. ASSUME ~turning PROVE CallTypes' /\ Holding'
    <3> DEFINE h == [call[c] EXCEPT !.page = @ \ {n}]
    <3>1. call' = [call EXCEPT ![c] = h]
      BY <1>3, <2>1, <2>4 DEF MirrorEvent, Holds
    <3>2. h \in Holds /\ h.pc = "mirror"
      BY <1>3, <2>1 DEF Holds, MirrorEvent, At
    <3> HIDE DEF h
    <3>3. h \in Holds'
      BY <3>2, <2>2 DEF Holds, remoteVars, Works
    <3> QED  BY <2>2, <3>1, <3>2, <3>3, CallStep DEF rowVars
  <2>5. CallTypes' /\ Holding'
    BY <2>3, <2>4
  <2> HIDE DEF n
  <2> QED  BY <2>1, <2>2, <2>5 DEF TypeInv, RemoteTypes, RowTypes, SpentTypes, remoteVars,
                                  rowVars, Works
<1>4. CASE MirrorTurn(c)
  <2>1. call[c].page # {} /\ rlog[Oldest(call[c].page)].type \in DOMAIN Verdict
    BY <1>4 DEF MirrorTurn, TypeInv, Holding, HoldsIts, At
  <2>2. Verdict[rlog[Oldest(call[c].page)].type] \in TurnStatus
    BY <2>1 DEF Verdict, TurnStatus, ActiveStatus
  <2>3. UNCHANGED <<remoteVars, session, link, cursor, op, mirrorVars, spent>>
    BY <1>4 DEF MirrorTurn
  <2>4. CallTypes' /\ Holding'
    BY <1>4, <2>1, <2>3, GoStep DEF MirrorTurn, Pcs, remoteVars
  <2> QED  BY <1>4, <2>2, <2>3, <2>4 DEF MirrorTurn, TypeInv, RemoteTypes, RowTypes, SpentTypes,
                                        remoteVars, mirrorVars, Works
<1>5. CASE MirrorSession(c)
  <2> DEFINE n == Oldest(call[c].page)
             h == [call[c] EXCEPT !.pc = "mirror", !.page = @ \ {n}]
  <2>1. call[c] \in Holds
    BY DEF TypeInv, CallTypes
  <2>2. h \in Holds /\ h.pc = "mirror"
    BY <2>1 DEF Holds, Pcs
  <2>3. call' = [call EXCEPT ![c] = h]
    BY <1>5, <2>1 DEF MirrorSession, Holds
  <2>4. /\ session' \in SessionStatus
        /\ UNCHANGED <<remoteVars, turn, link, cursor, op, mirrorVars, spent>>
    BY <1>5 DEF MirrorSession, SessionStatus
  <2> HIDE DEF h
  <2>5. h \in Holds'
    BY <2>2, <2>4 DEF Holds, remoteVars, Works
  <2>6. CallTypes' /\ Holding'
    BY <2>2, <2>3, <2>4, <2>5, CallStep
  <2> QED  BY <2>4, <2>6 DEF TypeInv, RemoteTypes, RowTypes, SpentTypes, remoteVars, mirrorVars,
                            Works
<1>6. CASE ReadCursor(c)
  <2>1. CallTypes' /\ Holding'
    BY <1>6, ReturnStep DEF ReadCursor
  <2>2. call[c].cursor \in 0 .. Len(rlog)
    BY DEF TypeInv, CallTypes, Holds
  <2> QED  BY <1>6, <2>1, <2>2 DEF ReadCursor, TypeInv, RemoteTypes, RowTypes, SpentTypes,
                                  remoteVars, mirrorVars, Works
<1>7. CASE ReadFails(c)
  <2>1. CallTypes' /\ Holding'
    BY <1>7, ReturnStep DEF ReadFails, rowVars
  <2>2. SpentTypes'
    BY <1>7, FederationAssumption DEF ReadFails, Lose, TypeInv, SpentTypes
  <2> QED  BY <1>7, <2>1, <2>2 DEF ReadFails, TypeInv, RemoteTypes, RowTypes, remoteVars, rowVars,
                                  mirrorVars, Works
<1> QED  BY <1>1, <1>2, <1>3, <1>4, <1>5, <1>6, <1>7 DEF Read

LEMMA CancelTypeStep ==
    ASSUME TypeInv, NEW c \in Callers, Cancel(c) \/ CancelFails(c) \/ CancelBegin(c)
    PROVE  TypeInv'
<1>1. CASE CancelBegin(c)
  <2>1. PICK t \in Turns : /\ link[t] # NoTurn
                           /\ call' = [call EXCEPT ![c] = [Idle EXCEPT !.pc = "cancel", !.turn = t]]
    BY <1>1 DEF CancelBegin
  <2> DEFINE h == [Idle EXCEPT !.pc = "cancel", !.turn = t]
  <2>2. h \in Holds /\ h.pc = "cancel" /\ h.turn = t
    BY IdleHolds DEF Holds, Pcs
  <2>3. call' = [call EXCEPT ![c] = h] /\ UNCHANGED <<remoteVars, rowVars, mirrorVars>>
    BY <1>1, <2>1 DEF CancelBegin
  <2> HIDE DEF h
  <2>4. h \in Holds'
    BY <2>2, <2>3 DEF Holds, remoteVars, Works
  <2>5. CallTypes' /\ Holding'
    BY <2>1, <2>2, <2>3, <2>4, CallStep DEF rowVars
  <2>6. SpentTypes'
    <3>1. spent.cancels < MaxCancels /\ spent' = [spent EXCEPT !.cancels = @ + 1]
      BY <1>1 DEF CancelBegin
    <3> QED  BY <3>1, FederationAssumption DEF TypeInv, SpentTypes
  <2> QED  BY <2>3, <2>5, <2>6 DEF TypeInv, RemoteTypes, RowTypes, remoteVars, rowVars,
                                  mirrorVars, Works
<1>2. ASSUME At(c, "cancel")
      PROVE  /\ link[call[c].turn] \in Works /\ "turn.cancelled" \in EventTypes
             /\ work' = work /\ ended' = ended /\ RemoteCancel(link[call[c].turn]) => Longer
  <2>1. call[c].turn \in Turns /\ link[call[c].turn] # NoTurn
    BY <1>2 DEF TypeInv, Holding, HoldsIts
  <2>2. link[call[c].turn] \in Works /\ "turn.cancelled" \in EventTypes
    BY <2>1 DEF TypeInv, RowTypes, EventTypes, Verdict
  <2>3. ended' = ended => ended' \subseteq Works
    BY DEF TypeInv, RemoteTypes
  <2> QED  BY <2>2, <2>3, AppendIsLonger DEF TypeInv, RemoteCancel
<1>3. CASE CancelForwarded(c)
  <2>1. Longer /\ UNCHANGED <<rowVars, mirrorVars, spent>>
    BY <1>2, <1>3 DEF CancelForwarded
  <2>2. CallTypes' /\ Holding'
    BY <1>3, <2>1, GoStep DEF CancelForwarded, Pcs, rowVars
  <2> QED  BY <2>1, <2>2, LongerTypes DEF TypeInv, Longer, SpentTypes
<1>4. CASE CancelFails(c)
  <2>1. Longer \/ UNCHANGED remoteVars
    BY <1>2, <1>4 DEF CancelFails, remoteVars
  <2>2. UNCHANGED <<rowVars, mirrorVars>>
    BY <1>4 DEF CancelFails
  <2>3. CallTypes' /\ Holding'
    BY <1>4, <2>1, <2>2, ReturnStep DEF CancelFails, rowVars
  <2>4. RemoteTypes' /\ RowTypes'
    BY <2>1, <2>2, LongerTypes DEF TypeInv, Longer, RemoteTypes, RowTypes, remoteVars, rowVars,
                                   mirrorVars, Works
  <2>5. SpentTypes'
    BY <1>4, FederationAssumption DEF CancelFails, Lose, TypeInv, SpentTypes
  <2> QED  BY <2>3, <2>4, <2>5 DEF TypeInv
<1>5. CASE CancelTurn(c)
  <2>1. CallTypes' /\ Holding'
    BY <1>5, GoStep DEF CancelTurn, Pcs, remoteVars
  <2> QED  BY <1>5, <2>1 DEF CancelTurn, TypeInv, RemoteTypes, RowTypes, SpentTypes, remoteVars,
                            mirrorVars, Works, TurnStatus
<1>6. CASE CancelSession(c)
  <2>1. CallTypes' /\ Holding'
    BY <1>6, ReturnStep DEF CancelSession
  <2> QED  BY <1>6, <2>1 DEF CancelSession, TypeInv, RemoteTypes, RowTypes, SpentTypes, remoteVars,
                            mirrorVars, Works, SessionStatus
<1> QED  BY <1>1, <1>3, <1>4, <1>5, <1>6 DEF Cancel

LEMMA CrashTypeStep ==
    ASSUME TypeInv, CrashAndRestart
    PROVE  TypeInv'
<1>1. UNCHANGED <<remoteVars, link, cursor, op, mirrorVars>> /\ call' = [c \in Callers |-> Idle]
  BY DEF CrashAndRestart
<1>2. Idle \in Holds'
  BY <1>1, IdleHolds DEF Holds, remoteVars, Works
<1>3. CallTypes' /\ Holding'
  BY <1>1, <1>2, IdleHolds DEF CallTypes, Holding, HoldsIts, At
<1>4. turn' \in [Turns -> TurnStatus] /\ session' \in SessionStatus
  BY DEF CrashAndRestart, TypeInv, RowTypes, TurnStatus, SessionStatus
<1>5. SpentTypes'
  BY FederationAssumption DEF CrashAndRestart, TypeInv, SpentTypes
<1> QED  BY <1>1, <1>3, <1>4, <1>5 DEF TypeInv, RemoteTypes, RowTypes, remoteVars, mirrorVars, Works

LEMMA TypeStep == TypeInv /\ [Next]_vars => TypeInv'
<1> SUFFICES ASSUME TypeInv, [Next]_vars PROVE TypeInv'
  OBVIOUS
<1>1. CASE UNCHANGED vars
  BY <1>1, CallsKept DEF vars, remoteVars, rowVars, mirrorVars, TypeInv, RemoteTypes, RowTypes,
                         SpentTypes, Works
<1> QED  BY <1>1, RemoteTypeStep, SendTypeStep, ReadTypeStep, CancelTypeStep, CrashTypeStep
            DEF Next, Step

LEMMA InitTypes == Init => TypeInv
<1> SUFFICES ASSUME Init PROVE TypeInv
  OBVIOUS
<1>1. RemoteTypes /\ Len(rlog) = 0
  BY DEF Init, RemoteTypes
<1>2. Idle \in Holds
  BY <1>1 DEF Init, Idle, Holds, Pcs, NoTurn
<1>3. CallTypes /\ Holding
  BY <1>2, IdleHolds DEF Init, CallTypes, Holding, HoldsIts, At
<1>4. RowTypes /\ SpentTypes
  BY <1>1, FederationAssumption DEF Init, RowTypes, SpentTypes, TurnStatus, SessionStatus
<1> QED  BY <1>1, <1>3, <1>4 DEF TypeInv

LEMMA TypeAlways == Spec => []TypeInv
BY InitTypes, TypeStep, PTL DEF Spec

\* The variables of every instance keep to their types: the home broker's
\* cursor and pages stay within the remote log, and its links within the
\* remote turns, for any calls, lost replies and crashes.
THEOREM TypeCorrect == Spec => []TypeOK
BY TypeAlways, TypeInvGivesTypes, PTL

-----------------------------------------------------------------------------
(* No event is mirrored twice, short of a crash, as long as the calls that  *)
(* read or set the cursor follow one another.                               *)

CursorPcs == {"read", "link", "setCursor"} \cup Mirroring
Apart(pcs) == \A c, d \in Callers : c # d => ~(call[c].pc \in pcs /\ call[d].pc \in pcs)
CursorApart == Apart(CursorPcs)
OneCaller == \A c, d \in Callers : c = d

\* What was mirrored is behind the cursor, or in the page at hand and done.
OnceHolds(c) ==
    /\ At(c, "read") => call[c].cursor = cursor
    /\ call[c].pc \in {"link", "setCursor"} \cup Mirroring => cursor <= call[c].cursor
    /\ call[c].pc \in Mirroring =>
         /\ \A n \in mirrored : n <= call[c].cursor
         /\ \A n \in call[c].page :
              n <= call[c].cursor /\ (n \in mirrored => ~At(c, "mirror") /\ n = Oldest(call[c].page))
Behind == (\A c \in Callers : call[c].pc \notin Mirroring) => \A n \in mirrored : n <= cursor
OnceInv == spent.crashes = 0 => repeated = {} /\ Behind /\ \A c \in Callers : OnceHolds(c)

\* The numbers that OnceHolds and the cursors of calls compare.
LEMMA Numbers ==
    ASSUME TypeInv
    PROVE  /\ Len(rlog) \in Nat /\ DOMAIN rlog = 1 .. Len(rlog)
           /\ cursor \in Nat /\ cursor <= Len(rlog) /\ mirrored \subseteq Nat
           /\ \A c \in Callers : /\ call[c].cursor \in Nat /\ call[c].cursor <= Len(rlog)
                                 /\ call[c].page \subseteq DOMAIN rlog
           /\ spent.crashes \in Nat
BY DEF TypeInv, RemoteTypes, RowTypes, CallTypes, Holds, SpentTypes

\* How the calls of the proofs below move.
Goes(c, pc) ==
    /\ call'[c].pc = pc /\ call'[c].op = call[c].op /\ call'[c].turn = call[c].turn
    /\ call'[c].work = call[c].work /\ call'[c].cursor = call[c].cursor
    /\ call'[c].page = call[c].page

LEMMA GoGoes == ASSUME TypeInv, NEW c \in Callers, NEW pc, Go(c, pc) PROVE Goes(c, pc)
BY DEF TypeInv, CallTypes, Holds, Go, Goes

LEMMA Moves ==
    ASSUME TypeInv, NEW c \in Callers
    PROVE  /\ Return(c) => call'[c] = Idle
           /\ SendForwarded(c) =>
                /\ call'[c].pc = "link" /\ call'[c].turn = call[c].turn
                /\ call'[c].work = Len(work) + 1 /\ call'[c].cursor = Len(rlog) + 2
           /\ ReadBegin(c) => call'[c].pc = "read" /\ call'[c].cursor = cursor
           /\ MirrorSession(c) =>
                /\ call'[c].pc = "mirror" /\ call'[c].turn = call[c].turn
                /\ call'[c].cursor = call[c].cursor
                /\ call'[c].page = call[c].page \ {Oldest(call[c].page)}
<1>1. DOMAIN call = Callers /\ call[c] \in Holds
  BY DEF TypeInv, CallTypes
<1>2. Return(c) => call'[c] = Idle
  BY <1>1 DEF Return
<1>3. SendForwarded(c) =>
        /\ call'[c].pc = "link" /\ call'[c].turn = call[c].turn
        /\ call'[c].work = Len(work) + 1 /\ call'[c].cursor = Len(rlog) + 2
  BY <1>1 DEF SendForwarded, Holds
<1>4. ReadBegin(c) => call'[c].pc = "read" /\ call'[c].cursor = cursor
  BY <1>1 DEF ReadBegin, Idle
<1>5. MirrorSession(c) =>
        /\ call'[c].pc = "mirror" /\ call'[c].turn = call[c].turn
        /\ call'[c].cursor = call[c].cursor
        /\ call'[c].page = call[c].page \ {Oldest(call[c].page)}
  BY <1>1 DEF MirrorSession, Holds
<1> QED  BY <1>2, <1>3, <1>4, <1>5

\* The other calls stay where they are.
Alone(c) == \A d \in Callers \ {c} : call'[d] = call[d]

LEMMA StepsAreAlone ==
    ASSUME TypeInv, NEW c \in Callers,
           \/ Step(c) \/ ReadBegin(c) \/ CancelBegin(c) \/ \E o \in Ops : SendBegin(c, o)
           \/ SendFails(c) \/ ReadFails(c) \/ CancelFails(c)
    PROVE  Alone(c)
<1>0. DOMAIN call = Callers
  BY DEF TypeInv, CallTypes
<1>1. ASSUME Return(c) PROVE Alone(c)
  BY <1>0, <1>1 DEF Return, Alone
<1>2. ASSUME NEW pc, Go(c, pc) PROVE Alone(c)
  BY <1>0, <1>2 DEF Go, Alone
<1>3. ASSUME Send(c) \/ SendFails(c) \/ \E o \in Ops : SendBegin(c, o) PROVE Alone(c)
  <2>1. CASE \E o \in Ops : SendBegin(c, o)
    BY <1>0, <2>1 DEF SendBegin, Alone
  <2>2. CASE SendInsert(c)
    BY <1>0, <2>2 DEF SendInsert, Alone
  <2>3. CASE SendForwarded(c)
    BY <1>0, <2>3 DEF SendForwarded, Alone
  <2> QED  BY <1>1, <1>2, <1>3, <2>1, <2>2, <2>3 DEF Send, SendRecord, SendAnnounce, SendFails,
             SendDegradeTurn, SendDegradeSession, SendLink, SendCursor, SendApplied
<1>4. ASSUME Read(c) \/ ReadFails(c) \/ ReadBegin(c) PROVE Alone(c)
  <2>1. CASE ReadBegin(c)
    BY <1>0, <2>1 DEF ReadBegin, Alone
  <2>2. CASE ReadAnswered(c)
    BY <1>0, <2>2 DEF ReadAnswered, Alone
  <2>3. CASE MirrorEvent(c)
    BY <1>0, <2>3 DEF MirrorEvent, Alone
  <2>4. CASE MirrorSession(c)
    BY <1>0, <2>4 DEF MirrorSession, Alone
  <2> QED  BY <1>1, <1>2, <1>4, <2>1, <2>2, <2>3, <2>4 DEF Read, ReadFails, MirrorTurn, ReadCursor
<1>5. ASSUME Cancel(c) \/ CancelFails(c) \/ CancelBegin(c) PROVE Alone(c)
  <2>1. CASE CancelBegin(c)
    BY <1>0, <2>1 DEF CancelBegin, Alone
  <2> QED  BY <1>1, <1>2, <1>5, <2>1 DEF Cancel, CancelForwarded, CancelTurn, CancelSession,
             CancelFails
<1> QED  BY <1>3, <1>4, <1>5 DEF Step

\* A step that mirrors nothing, of a call that has no business with the cursor.
LEMMA OnceMoves ==
    ASSUME TypeInv, OnceInv, NEW c \in Callers, Alone(c), UNCHANGED <<cursor, mirrorVars>>,
           spent'.crashes = spent.crashes, call[c].pc \notin Mirroring,
           call'[c].pc \notin CursorPcs
    PROVE  OnceInv'
<1>1. ASSUME NEW d \in Callers, OnceHolds(d) PROVE OnceHolds(d)'
  BY <1>1 DEF Alone, OnceHolds, At, mirrorVars, CursorPcs, Mirroring
<1>2. ASSUME Behind PROVE Behind'
  BY <1>2 DEF Alone, Behind, mirrorVars
<1> QED  BY <1>1, <1>2 DEF OnceInv, mirrorVars

\* Who works with the cursor finds what was mirrored behind it.
LEMMA OnceBehind ==
    ASSUME CursorApart, CursorApart', OnceInv, spent.crashes = 0, NEW c \in Callers, Alone(c),
           call[c].pc \in CursorPcs \/ call'[c].pc \in CursorPcs, call[c].pc \notin Mirroring
    PROVE  repeated = {} /\ OnceHolds(c) /\ \A n \in mirrored : n <= cursor
BY DEF OnceInv, Behind, CursorApart, Apart, CursorPcs, Alone

\* ... and nobody else does.
LEMMA OnceAlone ==
    ASSUME CursorApart, CursorApart', OnceInv, NEW c \in Callers, Alone(c),
           call[c].pc \in CursorPcs \/ call'[c].pc \in CursorPcs,
           spent'.crashes = spent.crashes,
           spent.crashes = 0 =>
             /\ repeated' = {} /\ OnceHolds(c)'
             /\ call'[c].pc \notin Mirroring => \A n \in mirrored' : n <= cursor'
    PROVE  OnceInv'
<1>1. ASSUME NEW d \in Callers \ {c} PROVE OnceHolds(d)'
  <2>1. call'[d].pc \notin CursorPcs
    BY DEF CursorApart, Apart, Alone
  <2> QED  BY <2>1 DEF OnceHolds, At, CursorPcs
<1> QED  BY <1>1 DEF OnceInv, Behind

LEMMA OnceSend ==
    ASSUME CursorApart, CursorApart', TypeInv, OnceInv, NEW c \in Callers, Alone(c),
           Send(c) \/ SendFails(c) \/ \E o \in Ops : SendBegin(c, o)
    PROVE  OnceInv'
<1>1. ASSUME NEW o \in Ops, SendBegin(c, o) PROVE OnceInv'
  <2>1. call'[c].pc = "record"
    BY <1>1 DEF SendBegin, TypeInv, CallTypes, Idle
  <2> QED  BY <1>1, <2>1, OnceMoves DEF SendBegin, At, CursorPcs, Mirroring, rowVars
<1>2. CASE SendInsert(c)
  <2>1. call'[c].pc = "announce"
    BY <1>2 DEF SendInsert, TypeInv, CallTypes, Holds
  <2> QED  BY <1>2, <2>1, OnceMoves DEF SendInsert, At, CursorPcs, Mirroring
<1>3. ASSUME NEW pc, Go(c, pc),
             \/ SendRecord(c) /\ pc = "insert"
             \/ SendAnnounce(c) /\ pc = "forward"
             \/ SendFails(c) /\ pc = "degrade"
             \/ SendDegradeTurn(c) /\ pc = "degradeSession"
      PROVE  OnceInv'
  <2>1. call'[c].pc = pc
    BY <1>3, GoGoes DEF Goes
  <2>2. call[c].pc \in {"record", "announce", "forward", "degrade"}
    BY <1>3 DEF SendRecord, SendAnnounce, SendFails, SendDegradeTurn, At
  <2>3. UNCHANGED <<cursor, mirrorVars>> /\ spent'.crashes = spent.crashes
    BY <1>3 DEF SendRecord, SendAnnounce, SendFails, SendDegradeTurn, Lose, TypeInv, SpentTypes,
                rowVars
  <2> QED  BY <1>3, <2>1, <2>2, <2>3, OnceMoves DEF CursorPcs, Mirroring
<1>4. CASE SendDegradeSession(c) \/ SendApplied(c)
  <2>1. call'[c].pc = "idle"
    BY <1>4, Moves, IdleHolds DEF SendDegradeSession, SendApplied
  <2> QED  BY <1>4, <2>1, OnceMoves DEF SendDegradeSession, SendApplied, At, CursorPcs, Mirroring
<1>5. CASE SendForwarded(c)
  <2>1. call'[c].pc = "link" /\ call'[c].cursor = Len(rlog) + 2
    BY <1>5, Moves
  <2>2. UNCHANGED <<cursor, mirrorVars, spent>> /\ call[c].pc = "forward"
    BY <1>5 DEF SendForwarded, rowVars, At
  <2>3. ASSUME spent.crashes = 0 PROVE repeated = {} /\ \A n \in mirrored : n <= cursor
    BY <2>1, <2>2, <2>3, OnceBehind DEF CursorPcs, Mirroring
  <2>4. OnceHolds(c)'
    BY <2>1, <2>2, Numbers DEF OnceHolds, Mirroring, At
  <2> QED  BY <2>1, <2>2, <2>3, <2>4, OnceAlone DEF CursorPcs, mirrorVars
<1>6. CASE SendLink(c)
  <2>1. call'[c].pc = "setCursor" /\ call'[c].cursor = call[c].cursor
    BY <1>6, GoGoes DEF SendLink, Goes
  <2>2. UNCHANGED <<cursor, mirrorVars, spent>> /\ call[c].pc = "link"
    BY <1>6 DEF SendLink, At
  <2>3. ASSUME spent.crashes = 0
        PROVE  repeated = {} /\ OnceHolds(c) /\ \A n \in mirrored : n <= cursor
    BY <2>1, <2>2, <2>3, OnceBehind DEF CursorPcs, Mirroring
  <2>4. spent.crashes = 0 => OnceHolds(c)'
    BY <2>1, <2>2, <2>3 DEF OnceHolds, Mirroring, At
  <2> QED  BY <2>1, <2>2, <2>3, <2>4, OnceAlone DEF CursorPcs, mirrorVars
<1>7. CASE SendCursor(c)
  <2>1. call'[c].pc = "applied"
    BY <1>7, GoGoes DEF SendCursor, Goes
  <2>2. cursor' = call[c].cursor /\ UNCHANGED <<mirrorVars, spent>> /\ call[c].pc = "setCursor"
    BY <1>7 DEF SendCursor, At
  <2>3. ASSUME spent.crashes = 0
        PROVE  repeated = {} /\ OnceHolds(c) /\ \A n \in mirrored : n <= cursor
    BY <2>1, <2>2, <2>3, OnceBehind DEF CursorPcs, Mirroring
  <2>4. spent.crashes = 0 => \A n \in mirrored : n <= cursor /\ cursor <= call[c].cursor
    BY <2>2, <2>3 DEF OnceHolds
  <2>5. spent.crashes = 0 => \A n \in mirrored : n <= cursor'
    BY <2>2, <2>4, Numbers
  <2>6. OnceHolds(c)'
    BY <2>1 DEF OnceHolds, Mirroring, At
  <2> QED  BY <2>1, <2>2, <2>3, <2>5, <2>6, OnceAlone DEF CursorPcs, mirrorVars
<1>8. CASE SendRecord(c)
  <2>1. Go(c, "insert")
    BY <1>8 DEF SendRecord
  <2> QED  BY <1>3, <1>8, <2>1
<1>9. CASE SendAnnounce(c)
  <2>1. Go(c, "forward")
    BY <1>9 DEF SendAnnounce
  <2> QED  BY <1>3, <1>9, <2>1
<1>10. CASE SendFails(c)
  <2>1. Go(c, "degrade")
    BY <1>10 DEF SendFails
  <2> QED  BY <1>3, <1>10, <2>1
<1>11. CASE SendDegradeTurn(c)
  <2>1. Go(c, "degradeSession")
    BY <1>11 DEF SendDegradeTurn
  <2> QED  BY <1>3, <1>11, <2>1
<1> QED  BY <1>1, <1>2, <1>4, <1>5, <1>6, <1>7, <1>8, <1>9, <1>10, <1>11 DEF Send

LEMMA OnceRead ==
    ASSUME CursorApart, CursorApart', TypeInv, OnceInv, NEW c \in Callers, Alone(c),
           Read(c) \/ ReadFails(c) \/ ReadBegin(c)
    PROVE  OnceInv'
<1>0. call[c] \in Holds
  BY DEF TypeInv, CallTypes
<1>1. CASE ReadBegin(c)
  <2>1. call'[c].pc = "read" /\ call'[c].cursor = cursor
    BY <1>1, Moves
  <2>2. UNCHANGED <<cursor, mirrorVars, spent>> /\ call[c].pc = "idle"
    BY <1>1 DEF ReadBegin, rowVars, At
  <2>3. ASSUME spent.crashes = 0 PROVE repeated = {} /\ \A n \in mirrored : n <= cursor
    BY <2>1, <2>2, <2>3, OnceBehind DEF CursorPcs, Mirroring
  <2>4. OnceHolds(c)'
    BY <2>1, <2>2 DEF OnceHolds, Mirroring, At
  <2> QED  BY <2>1, <2>2, <2>3, <2>4, OnceAlone DEF CursorPcs, mirrorVars
<1>2. CASE ReadFails(c)
  <2>1. call'[c].pc = "idle" /\ spent'.crashes = spent.crashes
    BY <1>2, Moves, IdleHolds DEF ReadFails, Lose, TypeInv, SpentTypes
  <2> QED  BY <1>2, <2>1, OnceMoves DEF ReadFails, At, CursorPcs, Mirroring, rowVars
<1>3. CASE ReadAnswered(c)
  <2>1. PICK page \in SUBSET DOMAIN rlog, last \in 0 .. Len(rlog) :
           /\ call' = [call EXCEPT ![c] = [call[c] EXCEPT !.pc = "mirror", !.page = page,
                                                          !.cursor = last]]
           /\ call[c].cursor <= last /\ \A n \in page : call[c].cursor < n /\ n <= last
    BY <1>3, Answer
  <2>2. call'[c].pc = "mirror" /\ call'[c].page = page /\ call'[c].cursor = last
    BY <1>0, <2>1 DEF Holds, TypeInv, CallTypes
  <2>3. UNCHANGED <<cursor, mirrorVars, spent>> /\ call[c].pc = "read"
    BY <1>3 DEF ReadAnswered, rowVars, At
  <2>4. ASSUME spent.crashes = 0
        PROVE  /\ repeated = {} /\ cursor <= last
               /\ \A n \in mirrored : n <= last /\ n \notin page
    <3>1. repeated = {} /\ OnceHolds(c) /\ \A n \in mirrored : n <= cursor
      BY <2>2, <2>3, <2>4, OnceBehind DEF CursorPcs, Mirroring
    <3>2. call[c].cursor = cursor
      BY <2>3, <3>1 DEF OnceHolds, At
    <3>3. last \in Nat /\ page \subseteq Nat
      BY Numbers
    <3> QED  BY <2>1, <3>1, <3>2, <3>3, Numbers
  <2>5. spent.crashes = 0 => OnceHolds(c)'
    BY <2>1, <2>2, <2>3, <2>4 DEF OnceHolds, Mirroring, At, mirrorVars
  <2> QED  BY <2>2, <2>3, <2>4, <2>5, OnceAlone DEF CursorPcs, Mirroring, mirrorVars
<1>4. CASE MirrorEvent(c)
  <2> DEFINE n == Oldest(call[c].page)
  <2>1. n \in call[c].page /\ call[c].pc = "mirror"
    BY <1>4, OldestOfPage DEF MirrorEvent, At
  <2>2. /\ mirrored' = mirrored \cup {n} /\ repeated' = repeated \cup ({n} \cap mirrored)
        /\ UNCHANGED <<cursor, spent>>
    BY <1>4 DEF MirrorEvent, rowVars
  <2>3. /\ call'[c].cursor = call[c].cursor
        /\ \/ call'[c].pc = "mirrorTurn" /\ call'[c].page = call[c].page
           \/ call'[c].pc = "mirror" /\ call'[c].page = call[c].page \ {n}
    <3>1. \/ \E t \in Turns : call' = [call EXCEPT ![c].pc = "mirrorTurn", ![c].turn = t]
          \/ call' = [call EXCEPT ![c].page = @ \ {n}]
      BY <1>4 DEF MirrorEvent
    <3> QED  BY <1>0, <2>1, <3>1 DEF Holds, TypeInv, CallTypes
  <2> HIDE DEF n
  <2>4. ASSUME spent.crashes = 0
        PROVE  /\ n \notin mirrored /\ n <= call[c].cursor
               /\ \A k \in mirrored : k <= call[c].cursor /\ k \notin call[c].page
               /\ cursor <= call[c].cursor /\ repeated = {}
               /\ \A k \in call[c].page : k <= call[c].cursor
    BY <2>1, <2>4 DEF OnceInv, OnceHolds, Mirroring, At
  <2>5. ASSUME spent.crashes = 0 PROVE repeated' = {} /\ OnceHolds(c)'
    <3>1. repeated' = {} /\ \A k \in mirrored' : k <= call'[c].cursor
      BY <2>2, <2>3, <2>4, <2>5
    <3>2. CASE call'[c].pc = "mirrorTurn" /\ call'[c].page = call[c].page
      <4>1. \A k \in call'[c].page : k \in mirrored' => k = Oldest(call'[c].page)
        BY <2>2, <2>4, <2>5, <3>2 DEF n
      <4> QED  BY <2>2, <2>3, <2>4, <2>5, <3>1, <3>2, <4>1 DEF OnceHolds, Mirroring, At
    <3>3. CASE call'[c].pc = "mirror" /\ call'[c].page = call[c].page \ {n}
      BY <2>2, <2>3, <2>4, <2>5, <3>1, <3>3 DEF OnceHolds, Mirroring, At
    <3> QED  BY <2>3, <3>2, <3>3
  <2> QED  BY <2>1, <2>2, <2>3, <2>5, OnceAlone DEF CursorPcs, Mirroring
<1>5. ASSUME \/ MirrorTurn(c) /\ call'[c].pc = "mirrorSession" /\ call'[c].page = call[c].page
             \/ /\ MirrorSession(c) /\ call'[c].pc = "mirror"
                /\ call'[c].page = call[c].page \ {Oldest(call[c].page)},
             call'[c].cursor = call[c].cursor
      PROVE  OnceInv'
  <2>1. /\ UNCHANGED <<cursor, mirrorVars, spent>>
        /\ call[c].pc \in {"mirrorTurn", "mirrorSession"}
    BY <1>5 DEF MirrorTurn, MirrorSession, At
  <2>2. ASSUME spent.crashes = 0 PROVE repeated = {} /\ OnceHolds(c)
    BY <2>2 DEF OnceInv
  <2>3. spent.crashes = 0 => OnceHolds(c)'
    BY <1>5, <2>1, <2>2 DEF OnceHolds, Mirroring, At, mirrorVars
  <2> QED  BY <1>5, <2>1, <2>2, <2>3, OnceAlone DEF CursorPcs, Mirroring, mirrorVars
<1>6. CASE MirrorTurn(c)
  BY <1>5, <1>6, GoGoes DEF MirrorTurn, Goes
<1>7. CASE MirrorSession(c)
  BY <1>5, <1>7, Moves
<1>8. CASE ReadCursor(c)
  <2>1. call'[c].pc = "idle"
    BY <1>8, Moves, IdleHolds DEF ReadCursor
  <2>2. cursor' = call[c].cursor /\ UNCHANGED <<mirrorVars, spent>> /\ call[c].pc = "mirror"
    BY <1>8 DEF ReadCursor, At
  <2>3. ASSUME spent.crashes = 0
        PROVE  repeated' = {} /\ \A n \in mirrored' : n <= cursor'
    BY <2>2, <2>3 DEF OnceInv, OnceHolds, Mirroring, mirrorVars
  <2>4. OnceHolds(c)'
    BY <2>1 DEF OnceHolds, Mirroring, At
  <2> QED  BY <2>2, <2>3, <2>4, OnceAlone DEF CursorPcs, Mirroring, mirrorVars
<1> QED  BY <1>1, <1>2, <1>3, <1>4, <1>6, <1>7, <1>8 DEF Read

LEMMA OnceStep ==
    ASSUME CursorApart, CursorApart', TypeInv, OnceInv, [Next]_vars
    PROVE  OnceInv'
<1>1. CASE RemoteDelta \/ (\E w \in Works : RemoteEnds(w)) \/ UNCHANGED vars
  <2>1. UNCHANGED <<cursor, mirrorVars, call, spent>>
    BY <1>1 DEF RemoteDelta, RemoteEnds, vars, rowVars
  <2> QED  BY <2>1 DEF OnceInv, OnceHolds, Behind, At, mirrorVars
<1>2. CASE CrashAndRestart
  <2>1. spent'.crashes # 0
    BY <1>2, Numbers DEF CrashAndRestart, TypeInv, SpentTypes
  <2> QED  BY <2>1 DEF OnceInv
<1>3. ASSUME NEW c \in Callers, Alone(c), Cancel(c) \/ CancelFails(c) \/ CancelBegin(c)
      PROVE  OnceInv'
  <2>1. call'[c].pc \in {"idle", "cancel", "cancelTurn", "cancelSession"}
    <3>1. CASE CancelBegin(c)
      BY <3>1 DEF CancelBegin, TypeInv, CallTypes, Idle
    <3>2. CASE CancelForwarded(c) \/ CancelTurn(c)
      BY <3>2, GoGoes DEF CancelForwarded, CancelTurn, Goes
    <3>3. CASE CancelFails(c) \/ CancelSession(c)
      BY <3>3, Moves, IdleHolds DEF CancelFails, CancelSession
    <3> QED  BY <1>3, <3>1, <3>2, <3>3 DEF Cancel
  <2>2. UNCHANGED <<cursor, mirrorVars>> /\ spent'.crashes = spent.crashes
    BY <1>3 DEF Cancel, CancelForwarded, CancelTurn, CancelSession, CancelFails, CancelBegin, Lose,
                TypeInv, SpentTypes, rowVars
  <2>3. call[c].pc \in {"idle", "cancel", "cancelTurn", "cancelSession"}
    BY <1>3 DEF Cancel, CancelForwarded, CancelTurn, CancelSession, CancelFails, CancelBegin, At
  <2> QED  BY <1>3, <2>1, <2>2, <2>3, OnceMoves DEF CursorPcs, Mirroring
<1> QED  BY <1>1, <1>2, <1>3, StepsAreAlone, OnceSend, OnceRead DEF Next, Step

\* No remote event is mirrored twice as long as the home broker does not crash
\* and the calls that work with the cursor follow one another: other sends, and
\* cancels, may run beside them, and replies may be lost.
THEOREM MirrorsOnce == Spec /\ []CursorApart => []MirroredOnce
<1>1. Init => OnceInv
  BY DEF Init, OnceInv, OnceHolds, Behind, At, Idle, Mirroring
<1>2. CursorApart /\ CursorApart' /\ TypeInv /\ OnceInv /\ [Next]_vars => OnceInv'
  BY OnceStep
<1>3. OnceInv => MirroredOnce
  BY DEF OnceInv, MirroredOnce
<1> QED  BY <1>1, <1>2, <1>3, TypeAlways, PTL DEF Spec

\* A foreground with one call at a time is such a one.
THEOREM OneCallerMirrorsOnce == ASSUME OneCaller PROVE Spec => []MirroredOnce
<1>1. CursorApart
  BY DEF OneCaller, CursorApart, Apart
<1> QED  BY <1>1, MirrorsOnce, PTL

-----------------------------------------------------------------------------
(* The home rows reflect the remote verdicts, as long as sends, which wait  *)
(* for a time when no turn is active, and reads follow one another.         *)

SyncPcs == CursorPcs \cup {"record", "insert", "announce", "forward", "degrade"}
SyncsApart == Apart(SyncPcs)

Decides(m, t) == rlog[m].resource = link[t] /\ rlog[m].type \in DOMAIN Verdict

\* What HomeReflectsRemote says of one linked turn.
Shown(t) ==
    \/ turn[t] = "running" /\ \A m \in DOMAIN rlog : Decides(m, t) => cursor < m
    \/ /\ turn[t] # "running"
       /\ \E m \in DOMAIN rlog : Decides(m, t) /\ turn[t] = Verdict[rlog[m].type]
    \/ turn[t] = "failed" /\ spent.crashes > 0
Reflects == \A t \in Turns : link[t] # NoTurn => Shown(t)

\* A remote turn is linked at most once, and only by a row that exists.
Linking ==
    /\ \A t \in Turns : turn[t] = "absent" => link[t] = NoTurn
    /\ \A s, t \in Turns : link[s] # NoTurn /\ link[s] = link[t] => s = t

\* A send knows its turn, which nobody has linked, and its work, which is new.
SendHolds(c) ==
    /\ call[c].pc \in {"record", "insert"} => call[c].turn = NoTurn
    /\ call[c].pc \in {"announce", "forward", "degrade", "link", "setCursor"} =>
         /\ call[c].turn \in Turns
         /\ ~At(c, "setCursor") => turn[call[c].turn] = "running" /\ link[call[c].turn] = NoTurn
    /\ At(c, "link") => \A t \in Turns : link[t] # call[c].work
    /\ At(c, "setCursor") => link[call[c].turn] = call[c].work
    /\ call[c].pc \in {"link", "setCursor"} =>
         \A m \in DOMAIN rlog : rlog[m].resource = call[c].work =>
            cursor < m /\ (rlog[m].type \in DOMAIN Verdict => call[c].cursor < m)
    /\ call[c].pc \in {"record", "insert", "announce", "forward", "degrade", "link", "setCursor"} =>
         \A t \in Turns \ {call[c].turn} : turn[t] # "running"

\* A read has in its page every verdict on a running turn that its cursor will pass.
ReadHolds(c) ==
    /\ At(c, "read") => call[c].cursor = cursor
    /\ call[c].pc \in Mirroring =>
         \A t \in Turns : link[t] # NoTurn /\ turn[t] = "running" =>
            \A m \in DOMAIN rlog : Decides(m, t) /\ m <= call[c].cursor => m \in call[c].page
    /\ call[c].pc \in {"mirrorTurn", "mirrorSession"} =>
         /\ call[c].turn \in Turns /\ link[call[c].turn] # NoTurn
         /\ link[call[c].turn] = rlog[Oldest(call[c].page)].resource
    /\ At(c, "mirrorSession") => turn[call[c].turn] # "running"

\* A cancel has its verdict in the remote log.
CancelHolds(c) ==
    At(c, "cancelTurn") =>
        /\ call[c].turn \in Turns /\ link[call[c].turn] # NoTurn
        /\ \E m \in DOMAIN rlog : rlog[m] = RemoteEvent(link[call[c].turn], "turn.cancelled")

CallHolds(c) == SendHolds(c) /\ ReadHolds(c) /\ CancelHolds(c)
ReflectInv == Reflects /\ Linking /\ \A c \in Callers : CallHolds(c)

LEMMA ReflectsMeans == TypeInv /\ Reflects => HomeReflectsRemote
<1> SUFFICES ASSUME TypeInv, Reflects, NEW t \in Turns, link[t] # NoTurn
             PROVE  \/ turn[t] = "running" /\ VerdictsUpTo(t, cursor) = {}
                    \/ \E m \in VerdictsUpTo(t, Len(rlog)) : turn[t] = Verdict[rlog[m].type]
                    \/ turn[t] = "failed" /\ spent.crashes > 0
  BY DEF HomeReflectsRemote
<1>1. /\ DOMAIN rlog = 1 .. Len(rlog) /\ Len(rlog) \in Nat /\ cursor \in Nat
      /\ \A m \in DOMAIN rlog : m <= Len(rlog) /\ (cursor < m => ~(m <= cursor))
  BY Numbers
<1>2. Shown(t)
  BY DEF Reflects
<1>3. CASE turn[t] = "running" /\ \A m \in DOMAIN rlog : Decides(m, t) => cursor < m
  BY <1>1, <1>3 DEF VerdictsUpTo, Decides
<1>4. ASSUME NEW m \in DOMAIN rlog, Decides(m, t), turn[t] = Verdict[rlog[m].type]
      PROVE  m \in VerdictsUpTo(t, Len(rlog))
  BY <1>1, <1>4 DEF VerdictsUpTo, Decides
<1> QED  BY <1>2, <1>3, <1>4 DEF Shown

\* The remote log keeps what it holds, and what is new is past every cursor.
LEMMA Grown ==
    ASSUME TypeInv, Longer \/ UNCHANGED remoteVars
    PROVE  /\ \A m \in DOMAIN rlog : m \in DOMAIN rlog' /\ rlog'[m] = rlog[m]
           /\ \A m \in DOMAIN rlog' : m \in DOMAIN rlog \/ Len(rlog) < m
           /\ \A m \in DOMAIN rlog' : m \notin DOMAIN rlog =>
                /\ cursor < m
                /\ \A c \in Callers : call[c].cursor < m
BY Numbers DEF Longer, remoteVars

LEMMA ShownKept ==
    ASSUME TypeInv, Longer \/ UNCHANGED remoteVars, NEW t \in Turns, Shown(t),
           turn'[t] = turn[t], link'[t] = link[t], cursor' = cursor,
           spent'.crashes = spent.crashes
    PROVE  Shown(t)'
<1>1. \A m \in DOMAIN rlog : Decides(m, t)' <=> Decides(m, t)
  BY Grown DEF Decides
<1>2. CASE turn[t] = "running" /\ \A m \in DOMAIN rlog : Decides(m, t) => cursor < m
  <2>1. \A m \in DOMAIN rlog' : Decides(m, t)' => cursor' < m
    BY <1>1, <1>2, Grown
  <2> QED  BY <1>2, <2>1 DEF Shown
<1>3. ASSUME NEW m \in DOMAIN rlog, Decides(m, t), turn[t] = Verdict[rlog[m].type],
             turn[t] # "running"
      PROVE  Shown(t)'
  <2>1. m \in DOMAIN rlog' /\ Decides(m, t)' /\ rlog'[m] = rlog[m]
    BY <1>1, <1>3, Grown
  <2> QED  BY <1>3, <2>1 DEF Shown
<1>4. CASE turn[t] = "failed" /\ spent.crashes > 0
  BY <1>4 DEF Shown
<1> QED  BY <1>2, <1>3, <1>4 DEF Shown

LEMMA ReflectsKept ==
    ASSUME TypeInv, Longer \/ UNCHANGED remoteVars, Reflects, Linking,
           UNCHANGED <<turn, link, cursor>>,
           spent'.crashes = spent.crashes
    PROVE  Reflects' /\ Linking'
<1>1. Linking'
  BY DEF Linking
<1>2. ASSUME NEW t \in Turns, link'[t] # NoTurn PROVE Shown(t)'
  BY <1>2, ShownKept DEF Reflects
<1> QED  BY <1>1, <1>2 DEF Reflects

\* Calls that are not their own keep what they hold: all of them if only
\* verdicts are stored, in linked rows, ...
LEMMA OthersKeep ==
    ASSUME TypeInv, Longer \/ UNCHANGED remoteVars, link' = link, cursor' = cursor,
           NEW d \in Callers, call'[d] = call[d], CallHolds(d),
           \A t \in Turns : turn'[t] = turn[t] \/ (link[t] # NoTurn /\ turn'[t] # "running")
    PROVE  CallHolds(d)'
<1>1. \A m \in DOMAIN rlog, t \in Turns : Decides(m, t)' <=> Decides(m, t)
  BY Grown DEF Decides
<1>2. SendHolds(d)'
  BY Grown DEF CallHolds, SendHolds, At
<1>3. call[d].pc \in {"mirrorTurn", "mirrorSession"} =>
         rlog'[Oldest(call[d].page)] = rlog[Oldest(call[d].page)]
  BY OldestOfPage, Grown DEF TypeInv, Holding, HoldsIts
<1>4. \A m \in DOMAIN rlog' : m <= call[d].cursor => m \in DOMAIN rlog
  <2>1. \A m \in DOMAIN rlog' : m \in Nat
    BY Numbers DEF Longer, remoteVars
  <2> QED  BY <2>1, Grown, Numbers
<1>5. \A t \in Turns : turn'[t] = "running" => turn[t] = "running"
  OBVIOUS
<1>6. ReadHolds(d)'
  BY <1>1, <1>3, <1>4, <1>5 DEF CallHolds, ReadHolds, At, Mirroring
<1>7. CancelHolds(d)'
  BY Grown DEF CallHolds, CancelHolds, At, RemoteEvent
<1> QED  BY <1>2, <1>6, <1>7 DEF CallHolds

\* ... and cancels whatever the one send or read there is does, since it
\* links only turns that have no link.
LEMMA CancelsKeep ==
    ASSUME SyncsApart, SyncsApart', TypeInv, ReflectInv, Longer \/ UNCHANGED remoteVars,
           NEW c \in Callers, Alone(c), call[c].pc \in SyncPcs \/ call'[c].pc \in SyncPcs,
           \A t \in Turns : link[t] # NoTurn => link'[t] = link[t],
           CallHolds(c)'
    PROVE  \A d \in Callers : CallHolds(d)'
<1> SUFFICES ASSUME NEW d \in Callers \ {c} PROVE CallHolds(d)'
  OBVIOUS
<1>1. call'[d] = call[d] /\ call[d].pc \notin SyncPcs /\ CancelHolds(d)
  BY DEF SyncsApart, Apart, Alone, ReflectInv, CallHolds
<1>2. CancelHolds(d)'
  BY <1>1, Grown DEF CancelHolds, At, RemoteEvent
<1> QED  BY <1>1, <1>2 DEF CallHolds, SendHolds, ReadHolds, At, SyncPcs, CursorPcs, Mirroring

\* A step that leaves the rows alone, to where a call holds nothing.
LEMMA QuietMove ==
    ASSUME TypeInv, ReflectInv, Longer \/ UNCHANGED remoteVars, NEW c \in Callers, Alone(c),
           UNCHANGED <<turn, link, cursor>>, spent'.crashes = spent.crashes,
           call'[c].pc \in {"idle", "degradeSession", "applied", "cancel", "cancelSession"}
    PROVE  ReflectInv'
<1>1. CallHolds(c)'
  BY DEF CallHolds, SendHolds, ReadHolds, CancelHolds, At, Mirroring
<1>2. ASSUME NEW d \in Callers \ {c} PROVE CallHolds(d)'
  <2>1. call'[d] = call[d] /\ CallHolds(d) /\ turn' = turn /\ link' = link /\ cursor' = cursor
    BY DEF Alone, ReflectInv
  <2> QED  BY <2>1, OthersKeep
<1>3. Reflects' /\ Linking'
  BY ReflectsKept DEF ReflectInv
<1>4. \A d \in Callers : CallHolds(d)'
  BY <1>1, <1>2
<1> QED  BY <1>3, <1>4 DEF ReflectInv

\* A step of a send that leaves the rows alone, before the reply.
LEMMA SendMove ==
    ASSUME TypeInv, ReflectInv, Longer \/ UNCHANGED remoteVars, NEW c \in Callers, Alone(c),
           NEW pc, Goes(c, pc),
           UNCHANGED <<turn, link, cursor>>, spent'.crashes = spent.crashes,
           \/ At(c, "record") /\ pc = "insert"
           \/ At(c, "announce") /\ pc = "forward"
           \/ At(c, "forward") /\ pc = "degrade"
    PROVE  ReflectInv'
<1>1. \A d \in Callers \ {c} : CallHolds(d)'
  BY OthersKeep DEF Alone, ReflectInv
<1>2. CallHolds(c)'
  BY DEF ReflectInv, CallHolds, SendHolds, ReadHolds, CancelHolds, At, Mirroring, Goes
<1> QED  BY <1>1, <1>2, ReflectsKept DEF ReflectInv

LEMMA ReflectSend ==
    ASSUME SyncsApart, SyncsApart', Patient, TypeInv, ReflectInv, NEW c \in Callers, Alone(c),
           Send(c) \/ SendFails(c) \/ \E o \in Ops : SendBegin(c, o)
    PROVE  ReflectInv'
<1>0. call[c] \in Holds /\ CallHolds(c) /\ Reflects /\ Linking
  BY DEF TypeInv, CallTypes, ReflectInv
<1>a. ASSUME call[c].pc \in SyncPcs \/ call'[c].pc \in SyncPcs,
             Longer \/ UNCHANGED remoteVars,
             \A t \in Turns : link[t] # NoTurn => link'[t] = link[t],
             Reflects', Linking', CallHolds(c)'
      PROVE  ReflectInv'
  BY <1>a, CancelsKeep DEF ReflectInv
<1>1. ASSUME NEW o \in Ops, SendBegin(c, o) PROVE ReflectInv'
  <2>1. call'[c].pc = "record" /\ call'[c].turn = NoTurn
    BY <1>1 DEF SendBegin, TypeInv, CallTypes, Idle
  <2>2. UNCHANGED <<remoteVars, turn, link, cursor, spent>> /\ \A t \in Turns : turn[t] # "running"
    BY <1>1 DEF SendBegin, rowVars, Active, ActiveStatus
  <2>3. CallHolds(c)'
    BY <2>1, <2>2 DEF CallHolds, SendHolds, ReadHolds, CancelHolds, At, Mirroring
  <2>4. Reflects' /\ Linking'
    BY <1>0, <2>2, <2>3, ReflectsKept
  <2> QED  BY <1>a, <1>1, <2>1, <2>2, <2>3, <2>4
             DEF SendBegin, At, SyncPcs, CursorPcs, Mirroring, remoteVars
<1>2. CASE SendRecord(c)
  <2>1. Goes(c, "insert") /\ UNCHANGED <<remoteVars, turn, link, cursor, spent>>
    BY <1>2, GoGoes DEF SendRecord
  <2> QED  BY <1>2, <2>1, SendMove DEF SendRecord
<1>3. CASE SendInsert(c)
  <2>1. PICK t \in Turns : /\ turn[t] = "absent" /\ turn' = [turn EXCEPT ![t] = "running"]
                           /\ call' = [call EXCEPT ![c].turn = t, ![c].pc = "announce"]
    BY <1>3 DEF SendInsert
  <2>2. call'[c].pc = "announce" /\ call'[c].turn = t
    BY <1>0, <2>1 DEF Holds, TypeInv, CallTypes
  <2>3. turn'[t] = "running" /\ \A s \in Turns \ {t} : turn'[s] = turn[s]
    BY <2>1 DEF TypeInv, RowTypes
  <2>4. UNCHANGED <<remoteVars, link, cursor, spent>>
    BY <1>3 DEF SendInsert
  <2>5. \A s \in Turns \ {t} : turn[s] # "running"
    BY <1>0, <1>3 DEF CallHolds, SendHolds, SendInsert, At, NoTurn, Turns
  <2>6. link[t] = NoTurn
    BY <1>0, <2>1 DEF Linking
  <2>7. CallHolds(c)'
    BY <2>2, <2>3, <2>4, <2>5, <2>6 DEF CallHolds, SendHolds, ReadHolds, CancelHolds, At, Mirroring
  <2>8. Linking'
    BY <1>0, <2>3, <2>4, <2>6 DEF Linking
  <2>9. ASSUME NEW s \in Turns, link'[s] # NoTurn PROVE Shown(s)'
    BY <1>0, <2>3, <2>4, <2>6, <2>9, ShownKept DEF Reflects
  <2>10. Reflects'
    BY <2>7, <2>8, <2>9 DEF Reflects
  <2> QED  BY <1>a, <1>3, <2>7, <2>8, <2>9, <2>10
             DEF SendInsert, At, SyncPcs, CursorPcs, Mirroring, remoteVars
<1>4. CASE SendAnnounce(c)
  <2>1. Goes(c, "forward") /\ UNCHANGED <<remoteVars, turn, link, cursor, spent>>
    BY <1>4, GoGoes DEF SendAnnounce
  <2> QED  BY <1>4, <2>1, SendMove DEF SendAnnounce
<1>5. CASE SendForwarded(c)
  <2>1. call[c].op \in Ops /\ call[c].pc = "forward"
    BY <1>5 DEF TypeInv, Holding, HoldsIts, SendForwarded, At
  <2>2. /\ Longer /\ Len(rlog)' = Len(rlog) + 2 /\ Len(work) + 1 \notin Works
        /\ \A n \in DOMAIN rlog' \ DOMAIN rlog : rlog'[n].type \notin DOMAIN Verdict
    BY <1>5, <2>1, SendIsLonger DEF SendForwarded, TypeInv
  <2>3. /\ call'[c].pc = "link" /\ call'[c].turn = call[c].turn /\ call'[c].work = Len(work) + 1
        /\ call'[c].cursor = Len(rlog) + 2
    BY <1>5, Moves
  <2>4. UNCHANGED <<turn, link, cursor, spent>>
    BY <1>5 DEF SendForwarded, rowVars
  <2>5. \A m \in DOMAIN rlog : rlog[m].resource \in Works
    <3>1. \A m \in DOMAIN rlog : rlog[m] \in Events(Works)
      BY DEF TypeInv, RemoteTypes
    <3> QED  BY <3>1 DEF Events
  <2>6. \A m \in DOMAIN rlog' : rlog'[m].resource = Len(work) + 1 =>
           cursor' < m /\ rlog'[m].type \notin DOMAIN Verdict
    BY <2>2, <2>4, <2>5, Grown
  <2>7. \A t \in Turns : link[t] # Len(work) + 1
    BY <2>2, Numbers DEF TypeInv, RowTypes, RemoteTypes, NoTurn
  <2>8. SendHolds(c)'
    BY <1>0, <2>1, <2>3, <2>4, <2>6, <2>7 DEF CallHolds, SendHolds, At
  <2>9. ReadHolds(c)' /\ CancelHolds(c)'
    BY <2>3 DEF ReadHolds, CancelHolds, At, Mirroring
  <2>10. Reflects' /\ Linking'
    BY <1>0, <2>2, <2>4, <2>8, <2>9, ReflectsKept
  <2> QED  BY <1>a, <1>5, <2>2, <2>4, <2>8, <2>9, <2>10
             DEF SendForwarded, At, SyncPcs, CursorPcs, Mirroring, remoteVars, CallHolds
<1>6. CASE SendFails(c)
  <2>1. call[c].op \in Ops
    BY <1>6 DEF TypeInv, Holding, HoldsIts, SendFails, At
  <2>2. Longer \/ UNCHANGED remoteVars
    BY <1>6, <2>1, SendIsLonger DEF SendFails, TypeInv, remoteVars
  <2>3. Goes(c, "degrade") /\ UNCHANGED <<turn, link, cursor>>
    BY <1>6, GoGoes DEF SendFails, rowVars
  <2>4. spent'.crashes = spent.crashes
    BY <1>6 DEF SendFails, Lose, TypeInv, SpentTypes
  <2> QED  BY <1>6, <2>2, <2>3, <2>4, SendMove DEF SendFails
<1>7. CASE SendDegradeTurn(c)
  <2>1. /\ call[c].pc = "degrade" /\ call[c].turn \in Turns /\ link[call[c].turn] = NoTurn
    BY <1>0, <1>7 DEF SendDegradeTurn, At, CallHolds, SendHolds
  <2>2. /\ turn' = [turn EXCEPT ![call[c].turn] = "degraded"]
        /\ UNCHANGED <<remoteVars, link, cursor, spent>> /\ Goes(c, "degradeSession")
    BY <1>7, GoGoes DEF SendDegradeTurn
  <2>3. \A t \in Turns : t # call[c].turn => turn'[t] = turn[t]
    BY <2>2 DEF TypeInv, RowTypes
  <2>4. Linking'
    BY <1>0, <2>1, <2>2, <2>3 DEF Linking
  <2>5. ASSUME NEW t \in Turns, link'[t] # NoTurn PROVE Shown(t)'
    BY <1>0, <2>1, <2>2, <2>3, <2>5, ShownKept DEF Reflects
  <2>6. CallHolds(c)'
    BY <2>2 DEF CallHolds, SendHolds, ReadHolds, CancelHolds, At, Mirroring, Goes
  <2>7. Reflects'
    BY <2>4, <2>5, <2>6 DEF Reflects
  <2> QED  BY <1>a, <1>7, <2>4, <2>5, <2>6, <2>7
             DEF SendDegradeTurn, At, SyncPcs, CursorPcs, Mirroring, remoteVars
<1>8. CASE SendDegradeSession(c) \/ SendApplied(c)
  <2>1. call'[c].pc = "idle"
    BY <1>8, Moves, IdleHolds DEF SendDegradeSession, SendApplied
  <2> QED  BY <1>8, <2>1, QuietMove DEF SendDegradeSession, SendApplied
<1>9. CASE SendLink(c)
  <2>0. PICK t \in Turns, w \in Works : t = call[c].turn /\ w = call[c].work
    BY <1>0, <1>9 DEF SendLink, At, CallHolds, SendHolds, TypeInv, Holding, HoldsIts
  <2>1. /\ call[c].pc = "link" /\ turn[t] = "running"
        /\ \A s \in Turns : link[s] # w /\ (s # t => turn[s] # "running")
        /\ \A m \in DOMAIN rlog : rlog[m].resource = w =>
              cursor < m /\ (rlog[m].type \in DOMAIN Verdict => call[c].cursor < m)
    BY <1>0, <1>9, <2>0 DEF SendLink, At, CallHolds, SendHolds
  <2>2. /\ link' = [link EXCEPT ![t] = w] /\ Goes(c, "setCursor")
        /\ UNCHANGED <<remoteVars, turn, cursor, spent>>
    BY <1>9, <2>0, GoGoes DEF SendLink
  <2>3. link'[t] = w /\ \A s \in Turns \ {t} : link'[s] = link[s]
    BY <2>1, <2>2 DEF TypeInv, RowTypes
  <2>4. Linking'
    BY <1>0, <2>1, <2>2, <2>3 DEF Linking
  <2>5. \A s \in Turns \ {t} : link'[s] # NoTurn => Shown(s)'
    BY <1>0, <2>2, <2>3, ShownKept DEF Reflects
  <2>6. Shown(t)'
    BY <2>1, <2>2, <2>3 DEF Shown, Decides, remoteVars
  <2>7. CallHolds(c)'
    <3>1. /\ call'[c].pc = "setCursor" /\ call'[c].turn = t /\ call'[c].work = w
          /\ call'[c].cursor = call[c].cursor
      BY <2>0, <2>2 DEF Goes
    <3>2. rlog' = rlog /\ cursor' = cursor /\ turn' = turn
      BY <2>2 DEF remoteVars
    <3> QED  BY <2>1, <2>3, <3>1, <3>2 DEF CallHolds, SendHolds, ReadHolds, CancelHolds, At,
                                           Mirroring
  <2>8. Reflects'
    BY <2>4, <2>5, <2>6, <2>7 DEF Reflects
  <2>9. \A s \in Turns : link[s] # NoTurn => link'[s] = link[s]
    BY <1>0, <1>9, <2>0, <2>3 DEF SendLink, At, CallHolds, SendHolds
  <2>10. call[c].pc \in SyncPcs /\ (Longer \/ UNCHANGED remoteVars)
    BY <2>1, <2>2 DEF SyncPcs, CursorPcs, remoteVars
  <2> QED  BY <1>a, <2>4, <2>7, <2>8, <2>9, <2>10
<1>10. CASE SendCursor(c)
  <2> DEFINE t == call[c].turn
  <2>1. /\ t \in Turns /\ link[t] = call[c].work /\ call[c].pc = "setCursor"
        /\ \A s \in Turns : s # t => turn[s] # "running"
        /\ \A m \in DOMAIN rlog : rlog[m].resource = call[c].work =>
              (rlog[m].type \in DOMAIN Verdict => call[c].cursor < m)
    BY <1>0, <1>10 DEF SendCursor, At, CallHolds, SendHolds
  <2>2. /\ cursor' = call[c].cursor /\ Goes(c, "applied")
        /\ UNCHANGED <<remoteVars, turn, link, spent>>
    BY <1>10, GoGoes DEF SendCursor
  <2>3. Linking'
    BY <1>0, <2>2 DEF Linking
  <2>4. ASSUME NEW s \in Turns, link'[s] # NoTurn PROVE Shown(s)'
    <3>1. Shown(s)
      BY <1>0, <2>2, <2>4 DEF Reflects
    <3>2. CASE s = t
      BY <2>1, <2>2, <3>1, <3>2 DEF Shown, Decides, remoteVars
    <3>3. CASE s # t
      BY <2>1, <2>2, <3>1, <3>3 DEF Shown, Decides, remoteVars
    <3> QED  BY <3>2, <3>3
  <2>5. CallHolds(c)'
    BY <2>2 DEF CallHolds, SendHolds, ReadHolds, CancelHolds, At, Mirroring, Goes
  <2>6. Reflects'
    BY <2>4 DEF Reflects
  <2>7. call[c].pc \in SyncPcs /\ (Longer \/ UNCHANGED remoteVars)
    BY <2>1, <2>2 DEF SyncPcs, CursorPcs, remoteVars
  <2>8. \A s \in Turns : link[s] # NoTurn => link'[s] = link[s]
    BY <2>2
  <2> QED  BY <1>a, <2>3, <2>5, <2>6, <2>7, <2>8
<1> QED  BY <1>1, <1>2, <1>3, <1>4, <1>5, <1>6, <1>7, <1>8, <1>9, <1>10 DEF Send

LEMMA ReflectRead ==
    ASSUME SyncsApart, SyncsApart', TypeInv, ReflectInv, NEW c \in Callers, Alone(c),
           Read(c) \/ ReadFails(c) \/ ReadBegin(c)
    PROVE  ReflectInv'
<1>0. call[c] \in Holds /\ CallHolds(c) /\ Reflects /\ Linking
  BY DEF TypeInv, CallTypes, ReflectInv
<1>a. ASSUME call[c].pc \in SyncPcs \/ call'[c].pc \in SyncPcs,
             Longer \/ UNCHANGED remoteVars,
             \A t \in Turns : link[t] # NoTurn => link'[t] = link[t],
             Reflects', Linking', CallHolds(c)'
      PROVE  ReflectInv'
  BY <1>a, CancelsKeep DEF ReflectInv
<1>1. CASE ReadBegin(c)
  <2>1. call'[c].pc = "read" /\ call'[c].cursor = cursor
    BY <1>1, Moves
  <2>2. UNCHANGED <<remoteVars, turn, link, cursor, spent>>
    BY <1>1 DEF ReadBegin, rowVars
  <2>3. CallHolds(c)'
    BY <2>1, <2>2 DEF CallHolds, SendHolds, ReadHolds, CancelHolds, At, Mirroring
  <2>4. Reflects' /\ Linking'
    BY <1>0, <2>2, <2>3, ReflectsKept
  <2> QED  BY <1>a, <1>1, <2>1, <2>2, <2>3, <2>4
             DEF ReadBegin, At, SyncPcs, CursorPcs, Mirroring, remoteVars
<1>2. CASE ReadFails(c)
  <2>1. call'[c].pc = "idle" /\ spent'.crashes = spent.crashes
    BY <1>2, Moves, IdleHolds DEF ReadFails, Lose, TypeInv, SpentTypes
  <2> QED  BY <1>2, <2>1, QuietMove DEF ReadFails, rowVars
<1>3. CASE ReadAnswered(c)
  <2>1. PICK page \in SUBSET DOMAIN rlog, last \in 0 .. Len(rlog) :
           /\ call' = [call EXCEPT ![c] = [call[c] EXCEPT !.pc = "mirror", !.page = page,
                                                          !.cursor = last]]
           /\ \A m \in DOMAIN rlog : call[c].cursor < m /\ m <= last => m \in page
    BY <1>3, Answer
  <2>2. call'[c].pc = "mirror" /\ call'[c].page = page /\ call'[c].cursor = last
    BY <1>0, <2>1 DEF Holds, TypeInv, CallTypes
  <2>3. UNCHANGED <<remoteVars, turn, link, cursor, spent>> /\ call[c].cursor = cursor
    BY <1>0, <1>3 DEF ReadAnswered, rowVars, At, CallHolds, ReadHolds
  <2>4. ASSUME NEW t \in Turns, link[t] # NoTurn, turn[t] = "running",
               NEW m \in DOMAIN rlog, Decides(m, t), m <= last
        PROVE  m \in page
    <3>1. cursor < m
      BY <1>0, <2>4 DEF Reflects, Shown
    <3> QED  BY <2>1, <2>3, <2>4, <3>1
  <2>5. ReadHolds(c)'
    BY <2>2, <2>3, <2>4 DEF ReadHolds, At, Mirroring, Decides, remoteVars
  <2>6. SendHolds(c)' /\ CancelHolds(c)'
    BY <2>2 DEF SendHolds, CancelHolds, At
  <2>7. Reflects' /\ Linking'
    BY <1>0, <2>3, <2>5, <2>6, ReflectsKept
  <2> QED  BY <1>a, <1>3, <2>3, <2>5, <2>6, <2>7
             DEF ReadAnswered, At, SyncPcs, CursorPcs, Mirroring, remoteVars, CallHolds
<1>4. CASE MirrorEvent(c)
  <2> DEFINE n == Oldest(call[c].page)
             linked == {t \in Turns : link[t] = rlog[n].resource /\ link[t] # NoTurn}
  <2>1. call[c].pc = "mirror" /\ n \in DOMAIN rlog
    BY <1>4, OldestOfPage DEF MirrorEvent, At
  <2>2. UNCHANGED <<remoteVars, turn, link, cursor, spent>>
    BY <1>4 DEF MirrorEvent, rowVars
  <2>3. \A t \in Turns : link[t] # NoTurn /\ turn[t] = "running" =>
           \A m \in DOMAIN rlog : Decides(m, t) /\ m <= call[c].cursor => m \in call[c].page
    BY <1>0, <2>1 DEF CallHolds, ReadHolds, Mirroring
  <2>4. CASE linked # {} /\ rlog[n].type \in DOMAIN Verdict
    <3>1. PICK t \in linked : call' = [call EXCEPT ![c].pc = "mirrorTurn", ![c].turn = t]
      BY <1>4, <2>4 DEF MirrorEvent
    <3>2. /\ call'[c].pc = "mirrorTurn" /\ call'[c].turn = t /\ call'[c].cursor = call[c].cursor
          /\ call'[c].page = call[c].page
      BY <1>0, <3>1 DEF Holds, TypeInv, CallTypes
    <3>3. t \in Turns /\ link[t] # NoTurn /\ link[t] = rlog[Oldest(call[c].page)].resource
      BY <3>1
    <3> HIDE DEF n, linked
    <3>4. ReadHolds(c)'
      BY <2>2, <2>3, <3>2, <3>3 DEF ReadHolds, At, Mirroring, Decides, remoteVars
    <3>5. SendHolds(c)' /\ CancelHolds(c)'
      BY <3>2 DEF SendHolds, CancelHolds, At
    <3>6. Reflects' /\ Linking'
      BY <1>0, <2>2, <3>4, <3>5, ReflectsKept
    <3> QED  BY <1>a, <1>4, <2>2, <3>4, <3>5, <3>6
               DEF MirrorEvent, At, SyncPcs, CursorPcs, Mirroring, remoteVars, CallHolds
  <2>5. CASE ~(linked # {} /\ rlog[n].type \in DOMAIN Verdict)
    <3>1. call' = [call EXCEPT ![c].page = @ \ {n}]
      BY <1>4, <2>5 DEF MirrorEvent
    <3>2. /\ call'[c].pc = "mirror" /\ call'[c].cursor = call[c].cursor
          /\ call'[c].page = call[c].page \ {n}
      BY <1>0, <2>1, <3>1 DEF Holds, TypeInv, CallTypes
    <3>3. \A t \in Turns : link[t] # NoTurn => ~Decides(n, t)
      BY <2>5 DEF Decides
    <3> HIDE DEF n, linked
    <3>4. ReadHolds(c)'
      BY <2>2, <2>3, <3>2, <3>3 DEF ReadHolds, At, Mirroring, Decides, remoteVars
    <3>5. SendHolds(c)' /\ CancelHolds(c)'
      BY <3>2 DEF SendHolds, CancelHolds, At
    <3>6. Reflects' /\ Linking'
      BY <1>0, <2>2, <3>4, <3>5, ReflectsKept
    <3> QED  BY <1>a, <1>4, <2>2, <3>4, <3>5, <3>6
               DEF MirrorEvent, At, SyncPcs, CursorPcs, Mirroring, remoteVars, CallHolds
  <2> QED  BY <2>4, <2>5
<1>5. CASE MirrorTurn(c)
  <2>0. PICK t \in Turns, n \in DOMAIN rlog : t = call[c].turn /\ n = Oldest(call[c].page)
    <3>1. call[c].page # {}
      BY <1>5 DEF MirrorTurn, TypeInv, Holding, HoldsIts, At
    <3> QED  BY <1>0, <1>5, <3>1, OldestOfPage DEF MirrorTurn, At, CallHolds, ReadHolds
  <2>1. /\ link[t] # NoTurn /\ link[t] = rlog[n].resource /\ rlog[n].type \in DOMAIN Verdict
        /\ \A s \in Turns : link[s] # NoTurn /\ turn[s] = "running" =>
             \A m \in DOMAIN rlog : Decides(m, s) /\ m <= call[c].cursor => m \in call[c].page
    BY <1>0, <1>5, <2>0 DEF MirrorTurn, At, CallHolds, ReadHolds, TypeInv, Holding, HoldsIts,
                            Mirroring
  <2>2. /\ turn' = [turn EXCEPT ![t] = Verdict[rlog[n].type]] /\ Goes(c, "mirrorSession")
        /\ UNCHANGED <<remoteVars, link, cursor, spent>>
    BY <1>5, <2>0, GoGoes DEF MirrorTurn
  <2>3. /\ turn'[t] = Verdict[rlog[n].type] /\ \A s \in Turns \ {t} : turn'[s] = turn[s]
        /\ turn'[t] \notin {"running", "absent"}
    BY <2>1, <2>2 DEF TypeInv, RowTypes, Verdict
  <2>4. Linking'
    BY <1>0, <2>2, <2>3 DEF Linking
  <2>5. ASSUME NEW s \in Turns, link'[s] # NoTurn PROVE Shown(s)'
    <3>1. CASE s = t
      BY <2>1, <2>2, <2>3, <3>1 DEF Shown, Decides, remoteVars
    <3>2. CASE s # t
      BY <1>0, <2>2, <2>3, <2>5, <3>2, ShownKept DEF Reflects
    <3> QED  BY <3>1, <3>2
  <2>6. ReadHolds(c)'
    <3>1. /\ call'[c].pc = "mirrorSession" /\ call'[c].turn = t /\ call'[c].cursor = call[c].cursor
          /\ call'[c].page = call[c].page
      BY <2>0, <2>2 DEF Goes
    <3>2. rlog' = rlog /\ link' = link /\ cursor' = cursor
      BY <2>2 DEF remoteVars
    <3>3. \A s \in Turns : turn'[s] = "running" => turn[s] = "running"
      BY <2>3
    <3> QED  BY <2>0, <2>1, <2>3, <3>1, <3>2, <3>3 DEF ReadHolds, At, Mirroring, Decides
  <2>7. SendHolds(c)' /\ CancelHolds(c)'
    BY <2>2 DEF SendHolds, CancelHolds, At, Goes
  <2>8. Reflects'
    BY <2>4, <2>5, <2>6, <2>7 DEF Reflects
  <2> QED  BY <1>a, <1>5, <2>4, <2>5, <2>6, <2>7, <2>8
             DEF MirrorTurn, At, SyncPcs, CursorPcs, Mirroring, remoteVars, CallHolds
<1>6. CASE MirrorSession(c)
  <2> DEFINE n == Oldest(call[c].page)
  <2>1. /\ call[c].turn \in Turns /\ link[call[c].turn] # NoTurn
        /\ link[call[c].turn] = rlog[n].resource /\ turn[call[c].turn] # "running"
        /\ \A s \in Turns : link[s] # NoTurn /\ turn[s] = "running" =>
             \A m \in DOMAIN rlog : Decides(m, s) /\ m <= call[c].cursor => m \in call[c].page
    BY <1>0, <1>6 DEF MirrorSession, At, CallHolds, ReadHolds, Mirroring
  <2>2. /\ call'[c].pc = "mirror" /\ call'[c].cursor = call[c].cursor
        /\ call'[c].page = call[c].page \ {n}
    BY <1>6, Moves
  <2>3. UNCHANGED <<remoteVars, turn, link, cursor, spent>>
    BY <1>6 DEF MirrorSession
  <2>4. \A s \in Turns : link[s] # NoTurn /\ turn[s] = "running" => ~Decides(n, s)
    BY <1>0, <2>1 DEF Linking, Decides
  <2> HIDE DEF n
  <2>5. ReadHolds(c)'
    BY <2>1, <2>2, <2>3, <2>4 DEF ReadHolds, At, Mirroring, Decides, remoteVars
  <2>6. SendHolds(c)' /\ CancelHolds(c)'
    BY <2>2 DEF SendHolds, CancelHolds, At
  <2>7. Reflects' /\ Linking'
    BY <1>0, <2>3, <2>5, <2>6, ReflectsKept
  <2> QED  BY <1>a, <1>6, <2>3, <2>5, <2>6, <2>7
             DEF MirrorSession, At, SyncPcs, CursorPcs, Mirroring, remoteVars, CallHolds
<1>7. CASE ReadCursor(c)
  <2>1. call'[c].pc = "idle"
    BY <1>7, Moves, IdleHolds DEF ReadCursor
  <2>2. cursor' = call[c].cursor /\ UNCHANGED <<remoteVars, turn, link, spent>>
    BY <1>7 DEF ReadCursor
  <2>3. ASSUME NEW t \in Turns, link[t] # NoTurn, turn[t] = "running",
               NEW m \in DOMAIN rlog, Decides(m, t)
        PROVE  call[c].cursor < m
    <3>1. ~(m <= call[c].cursor)
      BY <1>0, <1>7, <2>3 DEF ReadCursor, At, CallHolds, ReadHolds, Mirroring
    <3>2. m \in Nat /\ call[c].cursor \in Nat
      BY Numbers
    <3> QED  BY <3>1, <3>2
  <2>4. ASSUME NEW t \in Turns, link'[t] # NoTurn PROVE Shown(t)'
    BY <1>0, <2>2, <2>3, <2>4 DEF Reflects, Shown, Decides, remoteVars
  <2>5. Linking'
    BY <1>0, <2>2 DEF Linking
  <2>6. CallHolds(c)'
    BY <2>1 DEF CallHolds, SendHolds, ReadHolds, CancelHolds, At, Mirroring
  <2>7. Reflects'
    BY <2>4, <2>5, <2>6 DEF Reflects
  <2> QED  BY <1>a, <1>7, <2>4, <2>5, <2>6, <2>7
             DEF ReadCursor, At, SyncPcs, CursorPcs, Mirroring, remoteVars
<1> QED  BY <1>1, <1>2, <1>3, <1>4, <1>5, <1>6, <1>7 DEF Read

LEMMA ReflectCancel ==
    ASSUME TypeInv, ReflectInv, NEW c \in Callers, Alone(c),
           Cancel(c) \/ CancelFails(c) \/ CancelBegin(c)
    PROVE  ReflectInv'
<1>0. call[c] \in Holds /\ CallHolds(c) /\ Reflects /\ Linking
  BY DEF TypeInv, CallTypes, ReflectInv
<1>a. ASSUME Longer \/ UNCHANGED remoteVars, UNCHANGED <<link, cursor>>,
             \A t \in Turns : turn'[t] = turn[t] \/ (link[t] # NoTurn /\ turn'[t] # "running"),
             Reflects', Linking', CallHolds(c)'
      PROVE  ReflectInv'
  BY <1>a, OthersKeep DEF ReflectInv, Alone
<1>1. CASE CancelBegin(c)
  <2>1. call'[c].pc = "cancel" /\ spent'.crashes = spent.crashes
    BY <1>1 DEF CancelBegin, TypeInv, CallTypes, SpentTypes, Idle
  <2> QED  BY <1>1, <2>1, QuietMove DEF CancelBegin, rowVars
<1>2. ASSUME At(c, "cancel"), work' = work, ended' = ended, RemoteCancel(link[call[c].turn])
      PROVE  /\ call[c].turn \in Turns /\ link[call[c].turn] # NoTurn /\ Longer
             /\ Len(rlog) + 1 \in DOMAIN rlog'
             /\ rlog'[Len(rlog) + 1] = RemoteEvent(link[call[c].turn], "turn.cancelled")
  <2>1. call[c].turn \in Turns /\ link[call[c].turn] # NoTurn
    BY <1>2 DEF TypeInv, Holding, HoldsIts
  <2>2. link[call[c].turn] \in Works /\ "turn.cancelled" \in EventTypes /\ ended' \subseteq Works
    BY <1>2, <2>1 DEF TypeInv, RowTypes, RemoteTypes, EventTypes, Verdict
  <2>3. /\ Longer /\ Len(rlog)' = Len(rlog) + 1
        /\ rlog'[Len(rlog) + 1] = RemoteEvent(link[call[c].turn], "turn.cancelled")
    BY <1>2, <2>2, AppendIsLonger DEF TypeInv, RemoteCancel
  <2> QED  BY <2>1, <2>3 DEF Longer
<1>3. CASE CancelForwarded(c)
  <2>1. UNCHANGED <<turn, link, cursor, spent>> /\ Goes(c, "cancelTurn")
    BY <1>3, GoGoes DEF CancelForwarded, rowVars
  <2>2. /\ call[c].turn \in Turns /\ link[call[c].turn] # NoTurn /\ Longer
        /\ \E m \in DOMAIN rlog' : rlog'[m] = RemoteEvent(link[call[c].turn], "turn.cancelled")
    BY <1>2, <1>3 DEF CancelForwarded
  <2>3. CancelHolds(c)'
    BY <2>1, <2>2 DEF CancelHolds, Goes, RemoteEvent
  <2>4. SendHolds(c)' /\ ReadHolds(c)'
    BY <2>1 DEF SendHolds, ReadHolds, At, Mirroring, Goes
  <2>5. Reflects' /\ Linking'
    BY <1>0, <2>1, <2>2, <2>3, <2>4, ReflectsKept
  <2> QED  BY <1>a, <1>3, <2>1, <2>2, <2>3, <2>4, <2>5
             DEF remoteVars, CallHolds
<1>4. CASE CancelFails(c)
  <2>1. Longer \/ UNCHANGED remoteVars
    BY <1>2, <1>4 DEF CancelFails, remoteVars
  <2>2. call'[c].pc = "idle" /\ spent'.crashes = spent.crashes
    BY <1>4, Moves, IdleHolds DEF CancelFails, Lose, TypeInv, SpentTypes
  <2> QED  BY <1>4, <2>1, <2>2, QuietMove DEF CancelFails, rowVars
<1>5. CASE CancelTurn(c)
  <2>0. PICK t \in Turns, m \in DOMAIN rlog :
           /\ t = call[c].turn /\ link[t] # NoTurn
           /\ rlog[m] = RemoteEvent(link[t], "turn.cancelled")
    BY <1>0, <1>5 DEF CancelTurn, CallHolds, CancelHolds
  <2>1. /\ turn' = [turn EXCEPT ![t] = "cancelled"] /\ Goes(c, "cancelSession")
        /\ UNCHANGED <<remoteVars, link, cursor, spent>>
    BY <1>5, <2>0, GoGoes DEF CancelTurn
  <2>2. turn'[t] = "cancelled" /\ \A s \in Turns \ {t} : turn'[s] = turn[s]
    BY <2>1 DEF TypeInv, RowTypes
  <2>3. Decides(m, t) /\ Verdict[rlog[m].type] = "cancelled"
    BY <2>0 DEF Decides, RemoteEvent, Verdict
  <2>4. Linking'
    BY <1>0, <2>1, <2>2 DEF Linking
  <2>5. ASSUME NEW s \in Turns, link'[s] # NoTurn PROVE Shown(s)'
    <3>1. CASE s = t
      BY <2>0, <2>1, <2>2, <2>3, <3>1 DEF Shown, Decides, remoteVars
    <3>2. CASE s # t
      BY <1>0, <2>1, <2>2, <2>5, <3>2, ShownKept DEF Reflects
    <3> QED  BY <3>1, <3>2
  <2>6. CallHolds(c)'
    BY <2>1 DEF CallHolds, SendHolds, ReadHolds, CancelHolds, At, Mirroring, Goes
  <2>7. Reflects'
    BY <2>4, <2>5, <2>6 DEF Reflects
  <2>8. \A s \in Turns : turn'[s] = turn[s] \/ (link[s] # NoTurn /\ turn'[s] # "running")
    BY <2>0, <2>2
  <2> QED  BY <1>a, <2>1, <2>4, <2>6, <2>7, <2>8
<1>6. CASE CancelSession(c)
  <2>1. call'[c].pc = "idle"
    BY <1>6, Moves, IdleHolds DEF CancelSession
  <2> QED  BY <1>6, <2>1, QuietMove DEF CancelSession
<1> QED  BY <1>1, <1>3, <1>4, <1>5, <1>6 DEF Cancel

LEMMA ReflectStep ==
    ASSUME SyncsApart, SyncsApart', Patient, TypeInv, ReflectInv, [Next]_vars
    PROVE  ReflectInv'
<1>1. CASE RemoteDelta \/ (\E w \in Works : RemoteEnds(w)) \/ UNCHANGED vars
  <2>1. Longer \/ UNCHANGED remoteVars
    <3>1. CASE RemoteDelta
      <4>1. PICK w \in Works : rlog' = Append(rlog, RemoteEvent(w, "message.delta"))
        BY <3>1 DEF RemoteDelta
      <4>2. work' = work /\ ended' \subseteq Works /\ "message.delta" \in EventTypes
        BY <3>1 DEF RemoteDelta, TypeInv, RemoteTypes, EventTypes
      <4> QED  BY <4>1, <4>2, AppendIsLonger DEF TypeInv
    <3>2. ASSUME NEW w \in Works, RemoteEnds(w) PROVE Longer
      <4>1. PICK type \in Outcomes : rlog' = Append(rlog, RemoteEvent(w, type))
        BY <3>2 DEF RemoteEnds
      <4>2. work' = work /\ ended' \subseteq Works /\ type \in EventTypes
        BY <3>2, FederationAssumption DEF RemoteEnds, TypeInv, RemoteTypes, EventTypes
      <4> QED  BY <4>1, <4>2, AppendIsLonger DEF TypeInv
    <3> QED  BY <1>1, <3>1, <3>2 DEF vars
  <2>2. UNCHANGED <<turn, link, cursor, call, spent>>
    BY <1>1 DEF RemoteDelta, RemoteEnds, vars, rowVars
  <2>3. ASSUME NEW c \in Callers PROVE CallHolds(c)'
    BY <2>1, <2>2, OthersKeep DEF ReflectInv
  <2> QED  BY <2>1, <2>2, <2>3, ReflectsKept DEF ReflectInv
<1>2. CASE CrashAndRestart
  <2>1. /\ turn' = [t \in Turns |-> IF Active(t) THEN "failed" ELSE turn[t]]
        /\ UNCHANGED <<remoteVars, link, cursor>> /\ \A c \in Callers : call'[c] = Idle
        /\ spent'.crashes > 0
    BY <1>2, Numbers DEF CrashAndRestart, TypeInv, SpentTypes
  <2>2. Linking'
    BY <2>1 DEF Linking, ReflectInv, Active, ActiveStatus
  <2>3. ASSUME NEW t \in Turns, link'[t] # NoTurn PROVE Shown(t)'
    <3>1. CASE Active(t)
      BY <2>1, <3>1 DEF Shown
    <3>2. CASE ~Active(t)
      <4>1. turn'[t] = turn[t] /\ turn[t] # "running" /\ Shown(t)
        BY <2>1, <2>3, <3>2 DEF Active, ActiveStatus, ReflectInv, Reflects
      <4> QED  BY <2>1, <4>1 DEF Shown, Decides, remoteVars
    <3> QED  BY <3>1, <3>2
  <2>4. ASSUME NEW c \in Callers PROVE CallHolds(c)'
    BY <2>1, IdleHolds DEF CallHolds, SendHolds, ReadHolds, CancelHolds, At, Mirroring
  <2> QED  BY <2>2, <2>3, <2>4 DEF ReflectInv, Reflects
<1> QED  BY <1>1, <1>2, StepsAreAlone, ReflectSend, ReflectRead, ReflectCancel DEF Next, Step

\* As long as sends (each made when no turn is active) and reads follow one
\* another, a linked turn is never seen in a state that the remote broker has
\* not decided, nor running once its verdict is behind the cursor, whatever
\* cancels overlap them and each other, whatever replies are lost and wherever
\* the home broker crashes.
THEOREM ReflectsRemote == ASSUME Patient PROVE Spec /\ []SyncsApart => []HomeReflectsRemote
<1>1. Init => ReflectInv
  <2> SUFFICES ASSUME Init PROVE ReflectInv
    OBVIOUS
  <2>1. \A t \in Turns : link[t] = NoTurn
    BY DEF Init
  <2>2. \A c \in Callers : CallHolds(c)
    BY IdleHolds DEF Init, CallHolds, SendHolds, ReadHolds, CancelHolds, At, Mirroring
  <2> QED  BY <2>1, <2>2 DEF ReflectInv, Reflects, Linking
<1>2. SyncsApart /\ SyncsApart' /\ TypeInv /\ ReflectInv /\ [Next]_vars => ReflectInv'
  BY ReflectStep
<1>3. TypeInv /\ ReflectInv => HomeReflectsRemote
  BY ReflectsMeans DEF ReflectInv
<1> QED  BY <1>1, <1>2, <1>3, TypeAlways, PTL DEF Spec

\* A foreground that makes one call at a time keeps its sends and reads apart,
\* so it always sees what the remote broker decided.
THEOREM OneCallerSeesRemote ==
    ASSUME OneCaller, Patient PROVE Spec => []HomeReflectsRemote
<1>1. SyncsApart
  BY DEF OneCaller, SyncsApart, Apart
<1> QED  BY <1>1, ReflectsRemote, PTL
=============================================================================
