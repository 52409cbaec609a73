----------------------- MODULE RemoteResourcesProofs -----------------------
(***************************************************************************)
(* For any calls, operations, lost replies and crashes: a retried operation *)
(* yields one session, and what is closed here is closed at the remote      *)
(* broker, but for the rows whose close passes it by.                       *)
(***************************************************************************)
EXTENDS RemoteResources, TLAPS

Kinds == {"none", "ensure", "create", "new", "session", "workspace"}
CallRecords ==
    [pc : Pcs, kind : Kinds, op : Ops \cup {NoOp}, ws : Workspaces \cup {None},
     se : Sessions \cup {None}, remote : Nat]

(* The call of an ensure_workspace or a create_session.                     *)
Opens == {"record", "ensure", "insertWorkspace", "linkWorkspace", "lookup", "create",
          "detail", "insertSession", "statusSession", "linkSession", "applied"}

(* What a call that opens a resource holds: an operation that is not        *)
(* applied, the row that it is about to link and that no close has reached  *)
(* but one that passes the remote broker by, a session of its operation.    *)
Opened ==
    \A c \in Callers :
        /\ call[c].pc \in Opens => call[c].op \in Ops /\ op[call[c].op] # "applied"
        /\ At(c, "linkWorkspace") =>
             /\ call[c].ws \in Workspaces /\ ws[call[c].ws] # "absent"
             /\ call[c].ws \in wsApart \/ ws[call[c].ws] = "ready"
        /\ call[c].pc \in {"statusSession", "linkSession"} =>
             /\ call[c].se \in Sessions /\ se[call[c].se] # "absent"
             /\ call[c].se \in seApart \/ se[call[c].se] = "idle"
        /\ HoldsSession(c) => rse[call[c].remote].op = call[c].op

(* An operation is that of one call.                                        *)
OneCall == \A c, d \in Callers : call[c].op = call[d].op => c = d \/ call[c].op = NoOp

(* What a call that closes a row holds.  Unless the row is apart, that is   *)
(* the row's link, of a row that no call is about to link, and the row is   *)
(* stored as closed once its resource is.                                   *)
Closing(c) ==
    /\ call[c].kind = "session" =>
         /\ call[c].se \in Sessions /\ se[call[c].se] # "absent" /\ ~At(c, "cleanUp")
         /\ At(c, "close") => call[c].remote \in DOMAIN rse
         /\ call[c].se \notin seApart =>
              /\ \A d \in Callers : ~Linking(d, call[c].se)
              /\ slink[call[c].se] # None
              /\ At(c, "close") => call[c].remote = slink[call[c].se]
              /\ At(c, "storeClosed") => rse[slink[call[c].se]].status = "closed"
    /\ call[c].kind # "session" =>
         /\ call[c].ws \in Workspaces /\ ws[call[c].ws] # "absent"
         /\ At(c, "close") => call[c].remote \in DOMAIN rws
         /\ call[c].ws \notin wsApart =>
              /\ \A d \in Callers : ~LinkingWorkspace(d, call[c].ws)
              /\ wlink[call[c].ws] # None /\ ~At(c, "cleanUp")
              /\ At(c, "close") => call[c].remote = wlink[call[c].ws]
              /\ At(c, "storeClosed") => rws[wlink[call[c].ws]] = "closed"
Closings == \A c \in Callers : call[c].pc \in {"close", "cleanUp", "storeClosed"} => Closing(c)

(* A row is linked, or a call is about to link it, or it is apart.  And the *)
(* session of an operation was the last thing that operation did.           *)
Rowed ==
    /\ \A h \in Workspaces : \/ ws[h] = "absent" \/ wlink[h] # None \/ h \in wsApart
                              \/ \E c \in Callers : LinkingWorkspace(c, h)
    /\ \A h \in Sessions : \/ se[h] = "absent" \/ slink[h] # None \/ h \in seApart
                            \/ \E c \in Callers : Linking(c, h)
Once ==
    spent.crashes = 0 =>
        \A h \in Sessions : slink[h] # None =>
            \/ op[rse[slink[h]].op] = "applied"
            \/ \E c \in Callers : At(c, "applied") /\ call[c].op = rse[slink[h]].op

Typed == TypeOK /\ call \in [Callers -> CallRecords]
IInv == /\ Typed /\ Opened /\ OneCall /\ Closings /\ Rowed /\ Once
        /\ RetryYieldsOneSession /\ ClosedAtBothEnds
-----------------------------------------------------------------------------
(* A step changes one call, and keeps it of its type.                       *)
Becomes(c, pc, kind, o, w, s, r) ==
    /\ call' \in [Callers -> CallRecords]
    /\ call'[c].pc = pc /\ call'[c].kind = kind /\ call'[c].op = o
    /\ call'[c].ws = w /\ call'[c].se = s /\ call'[c].remote = r
    /\ \A d \in Callers : d # c => call'[d] = call[d]
Moves(c, pc, w, s, r) == Becomes(c, pc, call[c].kind, call[c].op, w, s, r)
Goes(c, pc) == Moves(c, pc, call[c].ws, call[c].se, call[c].remote)
Ends(c) == Becomes(c, "idle", "none", NoOp, None, None, None)

LEMMA IdleType ==
    /\ Idle \in CallRecords /\ Idle.pc = "idle" /\ Idle.kind = "none" /\ Idle.op = NoOp
    /\ Idle.ws = None /\ Idle.se = None /\ Idle.remote = None
BY DEF Idle, CallRecords, Pcs, Kinds, None

LEMMA BecomesNew ==
    ASSUME Typed, NEW c \in Callers, NEW new \in CallRecords, call' = [call EXCEPT ![c] = new]
    PROVE  Becomes(c, new.pc, new.kind, new.op, new.ws, new.se, new.remote)
BY DEF Typed, Becomes

LEMMA BeginBecomes ==
    ASSUME Typed, NEW c \in Callers, NEW new \in CallRecords, Begin(c, new)
    PROVE  Becomes(c, new.pc, new.kind, new.op, new.ws, new.se, new.remote)
BY BecomesNew DEF Begin

LEMMA GoBecomes ==
    ASSUME Typed, NEW c \in Callers, NEW pc \in Pcs, Go(c, pc)
    PROVE  Goes(c, pc)
<1> DEFINE new == [call[c] EXCEPT !.pc = pc]
<1>1. new \in CallRecords /\ call' = [call EXCEPT ![c] = new]
  BY DEF Typed, CallRecords, Go
<1>2. /\ new.pc = pc /\ new.kind = call[c].kind /\ new.op = call[c].op
      /\ new.ws = call[c].ws /\ new.se = call[c].se /\ new.remote = call[c].remote
  BY DEF Typed, CallRecords
<1> HIDE DEF new
<1> QED  BY <1>1, <1>2, BecomesNew DEF Goes, Moves

LEMMA ReturnBecomes ==
    ASSUME Typed, NEW c \in Callers, Return(c)
    PROVE  Ends(c)
BY IdleType, BecomesNew DEF Return, Ends

LEMMA ForwardedBecomes ==
    ASSUME Typed, NEW c \in Callers
    PROVE  /\ EnsureForwarded(c) =>
                Moves(c, "insertWorkspace", call[c].ws, call[c].se, Len(rws) + 1)
           /\ CreateForwarded(c) =>
                Moves(c, "detail", call[c].ws, call[c].se, Len(rse) + 1)
<1> DEFINE Held(pc, r) == [call[c] EXCEPT !.pc = pc, !.remote = r]
<1>1. ASSUME NEW pc \in Pcs, NEW r \in Nat
      PROVE  /\ Held(pc, r) \in CallRecords
             /\ Held(pc, r).pc = pc /\ Held(pc, r).remote = r
             /\ Held(pc, r).kind = call[c].kind /\ Held(pc, r).op = call[c].op
             /\ Held(pc, r).ws = call[c].ws /\ Held(pc, r).se = call[c].se
  BY DEF Typed, CallRecords
<1>2. Len(rws) + 1 \in Nat /\ Len(rse) + 1 \in Nat
  BY DEF Typed, TypeOK
<1>3. EnsureForwarded(c) => call' = [call EXCEPT ![c] = Held("insertWorkspace", Len(rws) + 1)]
  BY DEF EnsureForwarded, Typed, CallRecords
<1>4. CreateForwarded(c) => call' = [call EXCEPT ![c] = Held("detail", Len(rse) + 1)]
  BY DEF CreateForwarded, Typed, CallRecords
<1> HIDE DEF Held
<1> QED  BY <1>1, <1>2, <1>3, <1>4, BecomesNew DEF Moves, Pcs

LEMMA InsertBecomes ==
    ASSUME Typed, NEW c \in Callers
    PROVE  /\ EnsureInsert(c) =>
                \E h \in Workspaces :
                   /\ Fresh(ws, h) /\ ws' = [ws EXCEPT ![h] = "ready"]
                   /\ Moves(c, "linkWorkspace", h, call[c].se, call[c].remote)
           /\ CreateInsert(c) =>
                \E h \in Sessions :
                   /\ Fresh(se, h) /\ se' = [se EXCEPT ![h] = "idle"]
                   /\ Moves(c, "statusSession", call[c].ws, h, call[c].remote)
<1> DEFINE W(h) == [call[c] EXCEPT !.pc = "linkWorkspace", !.ws = h]
           S(h) == [call[c] EXCEPT !.pc = "statusSession", !.se = h]
<1>1. ASSUME NEW h \in Workspaces
      PROVE  /\ W(h) \in CallRecords
             /\ W(h).pc = "linkWorkspace" /\ W(h).ws = h
             /\ W(h).kind = call[c].kind /\ W(h).op = call[c].op
             /\ W(h).remote = call[c].remote /\ W(h).se = call[c].se
  BY DEF Typed, CallRecords, Pcs
<1>2. ASSUME NEW h \in Sessions
      PROVE  /\ S(h) \in CallRecords
             /\ S(h).pc = "statusSession" /\ S(h).se = h
             /\ S(h).kind = call[c].kind /\ S(h).op = call[c].op
             /\ S(h).remote = call[c].remote /\ S(h).ws = call[c].ws
  BY DEF Typed, CallRecords, Pcs
<1>3. EnsureInsert(c) => \E h \in Workspaces :
         /\ Fresh(ws, h) /\ ws' = [ws EXCEPT ![h] = "ready"] /\ call' = [call EXCEPT ![c] = W(h)]
  BY DEF EnsureInsert, Typed, CallRecords
<1>4. CreateInsert(c) => \E h \in Sessions :
         /\ Fresh(se, h) /\ se' = [se EXCEPT ![h] = "idle"] /\ call' = [call EXCEPT ![c] = S(h)]
  BY DEF CreateInsert, Typed, CallRecords
<1> HIDE DEF W, S
<1> QED  BY <1>1, <1>2, <1>3, <1>4, BecomesNew DEF Moves

LEMMA OpenBecomes ==
    ASSUME Typed, NEW c \in Callers, NEW o \in Ops, EnsureBegin(c, o) \/ CreateBegin(c, o)
    PROVE  \E kind \in {"ensure", "create", "new"}, w \in Workspaces \cup {None} :
              Becomes(c, "record", kind, o, w, None, None)
<1> DEFINE New(kind) == [Idle EXCEPT !.pc = "record", !.kind = kind, !.op = o]
           Of(w) == [Idle EXCEPT !.pc = "record", !.kind = "create", !.op = o, !.ws = w]
<1>1. ASSUME NEW kind \in {"ensure", "create", "new"}
      PROVE  /\ New(kind) \in CallRecords
             /\ New(kind).pc = "record" /\ New(kind).kind = kind /\ New(kind).op = o
             /\ New(kind).ws = None /\ New(kind).se = None /\ New(kind).remote = None
  BY IdleType DEF CallRecords, Pcs, Kinds
<1>2. ASSUME NEW w \in Workspaces
      PROVE  /\ Of(w) \in CallRecords
             /\ Of(w).pc = "record" /\ Of(w).kind = "create" /\ Of(w).op = o
             /\ Of(w).ws = w /\ Of(w).se = None /\ Of(w).remote = None
  BY IdleType DEF CallRecords, Pcs, Kinds
<1>3. \/ Begin(c, New("ensure")) \/ Begin(c, New("create")) \/ Begin(c, New("new"))
      \/ \E w \in Workspaces : Begin(c, Of(w))
  BY DEF EnsureBegin, CreateBegin
<1> HIDE DEF New, Of
<1>4. ASSUME NEW kind \in {"ensure", "create", "new"}, Begin(c, New(kind))
      PROVE  Becomes(c, "record", kind, o, None, None, None)
  BY <1>1, <1>4, BeginBecomes
<1>5. ASSUME NEW w \in Workspaces, Begin(c, Of(w))
      PROVE  Becomes(c, "record", "create", o, w, None, None)
  BY <1>2, <1>5, BeginBecomes
<1> QED  BY <1>3, <1>4, <1>5

LEMMA CloseSessionBecomes ==
    ASSUME Typed, NEW c \in Callers, CloseSessionBegin(c)
    PROVE  \E h \in Sessions :
              /\ At(c, "idle") /\ se[h] # "absent"
              /\ seApart \subseteq seApart' /\ seApart' \subseteq Sessions
              /\ (\E d \in Callers : Linking(d, h)) => h \in seApart'
              /\ Becomes(c, IF slink[h] # None THEN "close" ELSE "storeClosed",
                         "session", NoOp, None, h, slink[h])
<1> DEFINE New(h, pc) == [Idle EXCEPT !.kind = "session", !.se = h, !.remote = slink[h], !.pc = pc]
<1>1. PICK h \in Sessions :
         /\ se[h] # "absent"
         /\ seApart' = IF \E d \in Callers : Linking(d, h) THEN seApart \cup {h} ELSE seApart
         /\ Begin(c, New(h, IF slink[h] # None THEN "close" ELSE "storeClosed"))
  BY DEF CloseSessionBegin
<1> DEFINE pc == IF slink[h] # None THEN "close" ELSE "storeClosed"
<1>2. slink[h] \in Nat /\ pc \in Pcs /\ seApart \subseteq Sessions
  BY DEF Typed, TypeOK, None, Pcs
<1> HIDE DEF pc
<1>3. /\ New(h, pc) \in CallRecords
      /\ New(h, pc).pc = pc /\ New(h, pc).kind = "session" /\ New(h, pc).op = NoOp
      /\ New(h, pc).ws = None /\ New(h, pc).se = h /\ New(h, pc).remote = slink[h]
  BY <1>2, IdleType DEF CallRecords, Kinds
<1>4. Begin(c, New(h, pc))
  BY <1>1 DEF pc
<1> HIDE DEF New
<1>5. Becomes(c, pc, "session", NoOp, None, h, slink[h])
  BY <1>3, <1>4, BeginBecomes
<1>6. /\ seApart \subseteq seApart' /\ seApart' \subseteq Sessions
      /\ (\E d \in Callers : Linking(d, h)) => h \in seApart'
  BY <1>1, <1>2
<1> QED  BY <1>1, <1>5, <1>6 DEF Begin, pc

LEMMA CloseWorkspaceBecomes ==
    ASSUME Typed, NEW c \in Callers, CloseWorkspaceBegin(c)
    PROVE  \E h \in Workspaces, pc \in {"close", "cleanUp"} :
              /\ At(c, "idle") /\ ws[h] # "absent"
              /\ wsApart \subseteq wsApart' /\ wsApart' \subseteq Workspaces
              /\ (\E d \in Callers : LinkingWorkspace(d, h)) => h \in wsApart'
              /\ pc = "close" => wlink[h] # None
              /\ pc = "cleanUp" => wlink[h] = None \/ h \in wsApart'
              /\ Becomes(c, pc, "workspace", NoOp, h, None, wlink[h])
<1> DEFINE New(h, pc) == [Idle EXCEPT !.kind = "workspace", !.ws = h, !.remote = wlink[h],
        !.pc = pc]
<1>1. PICK h \in Workspaces, uri \in BOOLEAN :
         /\ ws[h] # "absent"
         /\ wsApart' = IF uri \/ \E d \in Callers : LinkingWorkspace(d, h)
                       THEN wsApart \cup {h} ELSE wsApart
         /\ Begin(c, New(h, IF wlink[h] # None /\ ~uri THEN "close" ELSE "cleanUp"))
  BY DEF CloseWorkspaceBegin
<1> DEFINE pc == IF wlink[h] # None /\ ~uri THEN "close" ELSE "cleanUp"
<1>2. /\ wlink[h] \in Nat /\ pc \in Pcs /\ pc \in {"close", "cleanUp"}
      /\ pc = "close" => wlink[h] # None
      /\ wsApart \subseteq Workspaces
  BY DEF Typed, TypeOK, None, Pcs
<1>6. /\ wsApart \subseteq wsApart' /\ wsApart' \subseteq Workspaces
      /\ uri \/ (\E d \in Callers : LinkingWorkspace(d, h)) => h \in wsApart'
  BY <1>1, <1>2
<1>7. pc = "cleanUp" => wlink[h] = None \/ h \in wsApart'
  BY <1>6
<1> HIDE DEF pc
<1>3. /\ New(h, pc) \in CallRecords
      /\ New(h, pc).pc = pc /\ New(h, pc).kind = "workspace" /\ New(h, pc).op = NoOp
      /\ New(h, pc).ws = h /\ New(h, pc).se = None /\ New(h, pc).remote = wlink[h]
  BY <1>2, IdleType DEF CallRecords, Kinds
<1>4. Begin(c, New(h, pc))
  BY <1>1 DEF pc
<1> HIDE DEF New
<1>5. Becomes(c, pc, "workspace", NoOp, h, None, wlink[h])
  BY <1>3, <1>4, BeginBecomes
<1> QED  BY <1>1, <1>2, <1>5, <1>6, <1>7 DEF Begin

LEMMA StepBecomes ==
    ASSUME Typed, NEW c \in Callers
    PROVE  /\ RecordPending(c) => \E pc \in {"ensure", "lookup", "create"} : Goes(c, pc)
           /\ EnsureLink(c) => \E pc \in {"applied", "lookup"} : Goes(c, pc)
           /\ CreateLookup(c) => Goes(c, "create") \/ Ends(c)
           /\ DetailForwarded(c) => Goes(c, "insertSession")
           /\ CreateStatus(c) => Goes(c, "linkSession")
           /\ CreateLink(c) => Goes(c, "applied")
           /\ CloseForwarded(c) => Goes(c, "storeClosed")
           /\ CleanUp(c) => Goes(c, "storeClosed") \/ Ends(c)
           /\ RecordApplied(c) \/ StoreClosed(c) \/ Fails(c) => Ends(c)
<1> USE DEF Pcs
<1>1. RecordPending(c) => \E pc \in {"ensure", "lookup", "create"} : Goes(c, pc)
  BY GoBecomes DEF RecordPending
<1>2. EnsureLink(c) => \E pc \in {"applied", "lookup"} : Goes(c, pc)
  BY GoBecomes DEF EnsureLink
<1>3. CreateLookup(c) => Goes(c, "create") \/ Ends(c)
  BY GoBecomes, ReturnBecomes DEF CreateLookup
<1>4. /\ DetailForwarded(c) => Goes(c, "insertSession")
      /\ CreateStatus(c) => Goes(c, "linkSession")
      /\ CreateLink(c) => Goes(c, "applied")
      /\ CloseForwarded(c) => Goes(c, "storeClosed")
      /\ CleanUp(c) => Goes(c, "storeClosed") \/ Ends(c)
  BY GoBecomes, ReturnBecomes DEF DetailForwarded, CreateStatus, CreateLink, CloseForwarded, CleanUp
<1>5. RecordApplied(c) \/ StoreClosed(c) \/ Fails(c) => Ends(c)
  BY ReturnBecomes DEF RecordApplied, StoreClosed, Fails
<1> QED  BY <1>1, <1>2, <1>3, <1>4, <1>5

LEMMA CrashBecomes ==
    CrashAndRestart => /\ call' \in [Callers -> CallRecords]
                       /\ \A c \in Callers : call'[c] = Idle
BY IdleType DEF CrashAndRestart

(* The remote broker forgets nothing and reopens nothing.                   *)
Grows ==
    /\ rws' \in Seq({"ready", "closed"})
    /\ rse' \in Seq([status : {"idle", "closed"}, op : Ops])
    /\ DOMAIN rws \subseteq DOMAIN rws' /\ DOMAIN rse \subseteq DOMAIN rse'
    /\ \A r \in DOMAIN rws : rws[r] = "closed" => rws'[r] = "closed"
    /\ \A r \in DOMAIN rse : /\ rse'[r].op = rse[r].op
                             /\ rse[r].status = "closed" => rse'[r].status = "closed"

LEMMA SeqElement == ASSUME NEW T, NEW s \in Seq(T), NEW i \in DOMAIN s PROVE s[i] \in T
OBVIOUS

LEMMA StillGrows == Typed /\ UNCHANGED remoteVars => Grows
BY DEF Typed, TypeOK, remoteVars, Grows

LEMMA EnsureGrows ==
    ASSUME Typed, RemoteEnsure
    PROVE  Grows /\ Len(rws) + 1 \in DOMAIN rws'
<1>1. rws \in Seq({"ready", "closed"}) /\ rws' = Append(rws, "ready") /\ rse' = rse
  BY DEF Typed, TypeOK, RemoteEnsure
<1>2. /\ rws' \in Seq({"ready", "closed"}) /\ DOMAIN rws' = 1 .. Len(rws) + 1
      /\ DOMAIN rws = 1 .. Len(rws) /\ \A r \in DOMAIN rws : rws'[r] = rws[r]
  BY <1>1
<1> QED  BY <1>1, <1>2 DEF Grows, Typed, TypeOK

LEMMA CreateGrows ==
    ASSUME Typed, NEW o \in Ops, RemoteCreate(o)
    PROVE  Grows /\ Len(rse) + 1 \in DOMAIN rse' /\ rse'[Len(rse) + 1].op = o
<1> DEFINE S == [status : {"idle", "closed"}, op : Ops]
           new == [status |-> "idle", op |-> o]
<1>1. rse \in Seq(S) /\ new \in S /\ rse' = Append(rse, new) /\ rws' = rws /\ new.op = o
  BY DEF Typed, TypeOK, RemoteCreate
<1> HIDE DEF S, new
<1>2. /\ rse' \in Seq(S) /\ DOMAIN rse' = 1 .. Len(rse) + 1 /\ rse'[Len(rse) + 1] = new
      /\ DOMAIN rse = 1 .. Len(rse) /\ \A r \in DOMAIN rse : rse'[r] = rse[r]
  BY <1>1
<1>3. \A r \in DOMAIN rse : rse'[r].op = rse[r].op /\ rse'[r].status = rse[r].status
  BY <1>2
<1>4. /\ rse' \in Seq([status : {"idle", "closed"}, op : Ops])
      /\ DOMAIN rse \subseteq DOMAIN rse' /\ Len(rse) + 1 \in DOMAIN rse'
      /\ rse'[Len(rse) + 1].op = o
  <2>1. Len(rse) \in Nat
    BY <1>1
  <2> QED  BY <1>1, <1>2, <2>1 DEF S
<1>5. rws' \in Seq({"ready", "closed"}) /\ rws' = rws
  BY <1>1 DEF Typed, TypeOK
<1> QED  BY <1>3, <1>4, <1>5 DEF Grows

LEMMA CloseGrows ==
    ASSUME Typed, NEW kind, NEW r, RemoteClose(kind, r),
           kind = "session" => r \in DOMAIN rse, kind # "session" => r \in DOMAIN rws
    PROVE  /\ Grows
           /\ kind = "session" => rse'[r].status = "closed"
           /\ kind # "session" => rws'[r] = "closed"
<1> DEFINE S == [status : {"idle", "closed"}, op : Ops]
<1>1. CASE kind = "session"
  <2> DEFINE new == [rse[r] EXCEPT !.status = "closed"]
  <2>1. /\ rse \in Seq(S) /\ r \in DOMAIN rse
        /\ rse' = [rse EXCEPT ![r].status = "closed"] /\ rws' = rws
    BY <1>1 DEF Typed, TypeOK, RemoteClose
  <2>2. rse[r] \in S
    BY <2>1, SeqElement
  <2>3. rse' = [rse EXCEPT ![r] = new]
    BY <2>1, <2>2
  <2>4. new \in S /\ new.status = "closed" /\ new.op = rse[r].op
    BY <2>2
  <2> HIDE DEF S, new
  <2>5. /\ rse' \in Seq(S) /\ DOMAIN rse' = DOMAIN rse
        /\ \A q \in DOMAIN rse : rse'[q] = IF q = r THEN new ELSE rse[q]
    BY <2>1, <2>3, <2>4
  <2> QED  BY <1>1, <2>1, <2>2, <2>4, <2>5 DEF Grows, Typed, TypeOK, S
<1>2. CASE kind # "session"
  <2>1. /\ rws \in Seq({"ready", "closed"}) /\ r \in DOMAIN rws
        /\ rws' = [rws EXCEPT ![r] = "closed"] /\ rse' = rse
    BY <1>2 DEF Typed, TypeOK, RemoteClose
  <2>2. /\ rws' \in Seq({"ready", "closed"}) /\ DOMAIN rws' = DOMAIN rws
        /\ \A q \in DOMAIN rws : rws'[q] = IF q = r THEN "closed" ELSE rws[q]
    BY <2>1
  <2> QED  BY <1>2, <2>1, <2>2 DEF Grows, Typed, TypeOK
<1> QED  BY <1>1, <1>2

LEMMA CloseHolds ==
    ASSUME Typed, Closings, NEW c \in Callers, At(c, "close")
    PROVE  /\ call[c].kind = "session" => call[c].remote \in DOMAIN rse
           /\ call[c].kind # "session" => call[c].remote \in DOMAIN rws
BY DEF Typed, TypeOK, Closings, Closing, At

LEMMA Growing ==
    ASSUME Typed, Opened, Closings, [Next]_vars
    PROVE  Grows
<1>1. ASSUME NEW c \in Callers, At(c, "create") PROVE call[c].op \in Ops
  BY <1>1 DEF Opened, Opens, At
<1>2. ASSUME NEW c \in Callers, RemoteWork(c) PROVE Grows
  BY <1>1, <1>2, CloseHolds, EnsureGrows, CreateGrows, CloseGrows DEF RemoteWork
<1>3. ASSUME NEW c \in Callers, EnsureForwarded(c) \/ CreateForwarded(c) \/ CloseForwarded(c)
                                \/ Fails(c)
      PROVE  Grows
  BY <1>2, <1>3, StillGrows DEF EnsureForwarded, CreateForwarded, CloseForwarded, Fails, RemoteWork
<1>4. ASSUME NEW c \in Callers, NEW o \in Ops, EnsureBegin(c, o) \/ CreateBegin(c, o) PROVE Grows
  BY <1>4, StillGrows DEF EnsureBegin, CreateBegin
<1>5. ASSUME NEW c \in Callers,
             \/ RecordPending(c) \/ EnsureInsert(c) \/ EnsureLink(c) \/ CreateLookup(c)
             \/ DetailForwarded(c) \/ CreateInsert(c) \/ CreateStatus(c) \/ CreateLink(c)
             \/ RecordApplied(c) \/ CloseSessionBegin(c) \/ CloseWorkspaceBegin(c)
             \/ CleanUp(c) \/ StoreClosed(c)
      PROVE  Grows
  BY <1>5, StillGrows DEF RecordPending, EnsureInsert, EnsureLink, CreateLookup, DetailForwarded,
       CreateInsert, CreateStatus, CreateLink, RecordApplied, CloseSessionBegin,
       CloseWorkspaceBegin, CleanUp, StoreClosed
<1>6. CrashAndRestart \/ UNCHANGED vars => Grows
  BY StillGrows DEF CrashAndRestart, vars, remoteVars
<1> QED  BY <1>3, <1>4, <1>5, <1>6 DEF Next

(* TypeOK in parts: the rows, and what calls hold.                          *)
RowsTyped ==
    /\ ws \in [Workspaces -> {"absent", "ready", "closed"}]
    /\ se \in [Sessions -> {"absent", "idle", "closed"}]
    /\ wlink \in [Workspaces -> {None} \cup DOMAIN rws]
    /\ slink \in [Sessions -> {None} \cup DOMAIN rse]
    /\ op \in [Ops -> {"absent", "pending", "applied"}]
    /\ wsApart \subseteq Workspaces /\ seApart \subseteq Sessions
    /\ spent \in [crashes : 0 .. MaxCrashes, lost : 0 .. MaxLost]
HoldsTyped ==
    \A c \in Callers : /\ HoldsWorkspace(c) => call[c].remote \in DOMAIN rws
                       /\ HoldsSession(c) => call[c].remote \in DOMAIN rse

LEMMA TypedParts ==
    /\ Typed => RowsTyped /\ HoldsTyped
    /\ Grows /\ RowsTyped' /\ HoldsTyped' /\ call' \in [Callers -> CallRecords] => Typed'
<1>1. Typed => RowsTyped /\ HoldsTyped
  BY DEF Typed, TypeOK, RowsTyped, HoldsTyped
<1>2. ASSUME Grows, RowsTyped', HoldsTyped', call' \in [Callers -> CallRecords]
      PROVE  Typed'
  <2>1. \A c \in Callers :
           /\ call'[c].pc \in Pcs /\ call'[c].kind \in Kinds /\ call'[c].op \in Ops \cup {NoOp}
           /\ call'[c].ws \in Workspaces \cup {None} /\ call'[c].se \in Sessions \cup {None}
    BY <1>2 DEF CallRecords
  <2> QED  BY <1>2, <2>1 DEF Typed, TypeOK, Grows, RowsTyped, HoldsTyped, Kinds
<1> QED  BY <1>1, <1>2

LEMMA RowsStep ==
    ASSUME Typed, Opened, RowsTyped, HoldsTyped, Grows, [Next]_vars
    PROVE  RowsTyped'
<1> USE ResourcesAssumption DEF remoteVars, rowVars, apart, At,
        RowsTyped, Grows
<1>1. ASSUME NEW c \in Callers, NEW o \in Ops, \A d \in Callers : call[d].op # o,
                 EnsureBegin(c, o) \/ CreateBegin(c, o)
      PROVE  RowsTyped'
  BY <1>1 DEF EnsureBegin, CreateBegin
<1>2. ASSUME NEW c \in Callers, RecordPending(c) PROVE RowsTyped'
  BY <1>2 DEF RecordPending, Opened, Opens, HoldsTyped, HoldsWorkspace, HoldsSession
<1>3. ASSUME NEW c \in Callers, EnsureForwarded(c) PROVE RowsTyped'
  BY <1>3 DEF EnsureForwarded, Opened, Opens, HoldsTyped, HoldsWorkspace, HoldsSession
<1>4. ASSUME NEW c \in Callers, EnsureInsert(c) PROVE RowsTyped'
  BY <1>4 DEF EnsureInsert, Opened, Opens, HoldsTyped, HoldsWorkspace, HoldsSession
<1>5. ASSUME NEW c \in Callers, EnsureLink(c) PROVE RowsTyped'
  BY <1>5 DEF EnsureLink, Opened, Opens, HoldsTyped, HoldsWorkspace, HoldsSession
<1>6. ASSUME NEW c \in Callers, CreateLookup(c) PROVE RowsTyped'
  BY <1>6 DEF CreateLookup, Opened, Opens, HoldsTyped, HoldsWorkspace, HoldsSession
<1>7. ASSUME NEW c \in Callers, CreateForwarded(c) PROVE RowsTyped'
  BY <1>7 DEF CreateForwarded, Opened, Opens, HoldsTyped, HoldsWorkspace, HoldsSession
<1>8. ASSUME NEW c \in Callers, DetailForwarded(c) PROVE RowsTyped'
  BY <1>8 DEF DetailForwarded, Opened, Opens, HoldsTyped, HoldsWorkspace, HoldsSession
<1>9. ASSUME NEW c \in Callers, CreateInsert(c) PROVE RowsTyped'
  BY <1>9 DEF CreateInsert, Opened, Opens, HoldsTyped, HoldsWorkspace, HoldsSession
<1>10. ASSUME NEW c \in Callers, CreateLink(c) PROVE RowsTyped'
  BY <1>10 DEF CreateLink, Opened, Opens, HoldsTyped, HoldsWorkspace, HoldsSession
<1>11. ASSUME NEW c \in Callers, RecordApplied(c) PROVE RowsTyped'
  BY <1>11 DEF RecordApplied, Opened, Opens, HoldsTyped, HoldsWorkspace, HoldsSession
<1>12. ASSUME NEW c \in Callers, CloseSessionBegin(c) PROVE RowsTyped'
  BY <1>12 DEF CloseSessionBegin, Opened, Opens, HoldsTyped, HoldsWorkspace, HoldsSession
<1>13. ASSUME NEW c \in Callers, CloseWorkspaceBegin(c) PROVE RowsTyped'
  BY <1>13 DEF CloseWorkspaceBegin, Opened, Opens, HoldsTyped, HoldsWorkspace, HoldsSession
<1>14. ASSUME NEW c \in Callers, CloseForwarded(c) PROVE RowsTyped'
  BY <1>14 DEF CloseForwarded, Opened, Opens, HoldsTyped, HoldsWorkspace, HoldsSession
<1>15. ASSUME NEW c \in Callers, CleanUp(c) PROVE RowsTyped'
  BY <1>15 DEF CleanUp, Opened, Opens, HoldsTyped, HoldsWorkspace, HoldsSession
<1>16. ASSUME NEW c \in Callers, CreateStatus(c) PROVE RowsTyped'
  BY <1>16 DEF CreateStatus, Opened, Opens, HoldsTyped, HoldsWorkspace, HoldsSession
<1>17. ASSUME NEW c \in Callers, StoreClosed(c) PROVE RowsTyped'
  BY <1>17 DEF StoreClosed, Opened, Opens, HoldsTyped, HoldsWorkspace, HoldsSession
<1>18. ASSUME NEW c \in Callers, Fails(c) PROVE RowsTyped'
  BY <1>18 DEF Fails, Opened, Opens, HoldsTyped, HoldsWorkspace, HoldsSession
<1>19. CASE CrashAndRestart
  BY <1>19 DEF CrashAndRestart
<1>20. CASE UNCHANGED vars
  BY <1>20 DEF vars
<1> QED  BY <1>1, <1>2, <1>3, <1>4, <1>5, <1>6, <1>7, <1>8, <1>9, <1>10, <1>11, <1>12, <1>13, <1>14,
            <1>15, <1>16, <1>17, <1>18, <1>19, <1>20 DEF Next

LEMMA HoldsKept ==
    ASSUME HoldsTyped, Grows, NEW c \in Callers,
           NEW pc, NEW kind, NEW o, NEW w, NEW s, NEW r, Becomes(c, pc, kind, o, w, s, r),
           pc \in {"insertWorkspace", "linkWorkspace"} => r \in DOMAIN rws',
           pc \in {"detail", "insertSession", "statusSession", "linkSession"} => r \in DOMAIN rse'
    PROVE  HoldsTyped'
BY DEF HoldsTyped, HoldsWorkspace, HoldsSession, Grows, Becomes

LEMMA HoldsStep ==
    ASSUME Typed, Opened, RowsTyped, HoldsTyped, Grows, [Next]_vars
    PROVE  HoldsTyped'
<1> USE DEF Moves, Goes, Ends
<1>1. ASSUME NEW c \in Callers, NEW o \in Ops, EnsureBegin(c, o) \/ CreateBegin(c, o)
      PROVE  HoldsTyped'
  BY <1>1, OpenBecomes, HoldsKept
<1>2. ASSUME NEW c \in Callers,
             \/ RecordPending(c) \/ EnsureLink(c) \/ CreateLookup(c) \/ CreateLink(c)
             \/ RecordApplied(c) \/ CloseForwarded(c) \/ CleanUp(c)
             \/ StoreClosed(c) \/ Fails(c)
      PROVE  HoldsTyped'
  BY <1>2, StepBecomes, HoldsKept
<1>3. ASSUME NEW c \in Callers, EnsureForwarded(c) PROVE HoldsTyped'
  <2>1. Len(rws) + 1 \in DOMAIN rws'
    BY <1>3, EnsureGrows DEF EnsureForwarded
  <2> QED  BY <1>3, <2>1, ForwardedBecomes, HoldsKept
<1>4. ASSUME NEW c \in Callers, EnsureInsert(c) PROVE HoldsTyped'
  <2>1. call[c].remote \in DOMAIN rws'
    BY <1>4 DEF EnsureInsert, At, HoldsTyped, HoldsWorkspace, Grows
  <2> QED  BY <1>4, <2>1, InsertBecomes, HoldsKept
<1>5. ASSUME NEW c \in Callers, CreateForwarded(c) PROVE HoldsTyped'
  <2>1. call[c].op \in Ops
    BY <1>5 DEF Opened, Opens, CreateForwarded, At
  <2>2. Len(rse) + 1 \in DOMAIN rse'
    BY <1>5, <2>1, CreateGrows DEF CreateForwarded
  <2> QED  BY <1>5, <2>2, ForwardedBecomes, HoldsKept
<1>6. ASSUME NEW c \in Callers, DetailForwarded(c) \/ CreateInsert(c) \/ CreateStatus(c)
      PROVE  HoldsTyped'
  <2>1. call[c].remote \in DOMAIN rse'
    BY <1>6 DEF DetailForwarded, CreateInsert, CreateStatus, At, HoldsTyped, HoldsSession, Grows
  <2> QED  BY <1>6, <2>1, StepBecomes, InsertBecomes, HoldsKept
<1>7. ASSUME NEW c \in Callers, CloseSessionBegin(c) PROVE HoldsTyped'
  BY <1>7, CloseSessionBecomes, HoldsKept
<1>8. ASSUME NEW c \in Callers, CloseWorkspaceBegin(c) PROVE HoldsTyped'
  BY <1>8, CloseWorkspaceBecomes, HoldsKept
<1>9. CASE CrashAndRestart
  BY <1>9, CrashBecomes, IdleType DEF HoldsTyped, HoldsWorkspace, HoldsSession
<1>10. CASE UNCHANGED vars
  BY <1>10 DEF vars, remoteVars, HoldsTyped, HoldsWorkspace, HoldsSession
<1> QED  BY <1>1, <1>2, <1>3, <1>4, <1>5, <1>6, <1>7, <1>8, <1>9, <1>10 DEF Next

LEMMA OpenedStep ==
    ASSUME Typed, RowsTyped, HoldsTyped, Opened, OneCall, Closings, Grows, [Next]_vars
    PROVE  Opened'
<1> USE ResourcesAssumption DEF At, remoteVars, rowVars, apart, Opened, HoldsSession, Opens
<1>1. ASSUME NEW c \in Callers, NEW o \in Ops, \A d \in Callers : call[d].op # o,
                 EnsureBegin(c, o) \/ CreateBegin(c, o)
      PROVE  Opened'
  <2>1. PICK kind \in {"ensure", "create", "new"}, w \in Workspaces \cup {None} :
           Becomes(c, "record", kind, o, w, None, None)
    BY <1>1, OpenBecomes
  <2>2. /\ At(c, "idle") /\ op[o] # "applied"
        /\ UNCHANGED <<remoteVars, rowVars, op, apart, spent>>
    BY <1>1 DEF EnsureBegin, CreateBegin, Begin
  <2> QED  BY <2>1, <2>2 DEF Becomes
<1>2. ASSUME NEW c \in Callers, RecordPending(c) PROVE Opened'
  <2>1. PICK pc \in {"ensure", "lookup", "create"} : Goes(c, pc)
    BY <1>2, StepBecomes
  <2> QED  BY <1>2, <2>1 DEF RecordPending, Goes, Moves, Becomes, RowsTyped
<1>3. ASSUME NEW c \in Callers, EnsureForwarded(c) PROVE Opened'
  <2>1. Moves(c, "insertWorkspace", call[c].ws, call[c].se, Len(rws) + 1)
    BY <1>3, ForwardedBecomes
  <2> QED  BY <1>3, <2>1 DEF EnsureForwarded, Moves, Becomes, Grows, HoldsTyped
<1>4. ASSUME NEW c \in Callers, EnsureInsert(c) PROVE Opened'
  <2>1. PICK h \in Workspaces :
           /\ Fresh(ws, h) /\ ws' = [ws EXCEPT ![h] = "ready"]
           /\ Moves(c, "linkWorkspace", h, call[c].se, call[c].remote)
    BY <1>4, InsertBecomes
  <2> QED  BY <1>4, <2>1 DEF EnsureInsert, Moves, Becomes, RowsTyped
<1>5. ASSUME NEW c \in Callers, EnsureLink(c) PROVE Opened'
  <2>1. PICK pc \in {"applied", "lookup"} : Goes(c, pc)
    BY <1>5, StepBecomes
  <2> QED  BY <1>5, <2>1 DEF EnsureLink, Goes, Moves, Becomes, Grows, HoldsTyped
<1>6. ASSUME NEW c \in Callers, CreateLookup(c) PROVE Opened'
  <2>1. Goes(c, "create") \/ Ends(c)
    BY <1>6, StepBecomes
  <2> QED  BY <1>6, <2>1 DEF CreateLookup, Goes, Moves, Ends, Becomes, Grows, HoldsTyped
<1>7. ASSUME NEW c \in Callers, CreateForwarded(c) PROVE Opened'
  <2>1. Moves(c, "detail", call[c].ws, call[c].se, Len(rse) + 1)
    BY <1>7, ForwardedBecomes
  <2>2. call[c].op \in Ops
    BY <1>7 DEF CreateForwarded
  <2>3. rse'[Len(rse) + 1].op = call[c].op
    BY <1>7, <2>2, CreateGrows DEF CreateForwarded
  <2> QED  BY <1>7, <2>1, <2>2, <2>3 DEF CreateForwarded, Moves, Becomes, Grows, HoldsTyped
<1>8. ASSUME NEW c \in Callers, DetailForwarded(c) PROVE Opened'
  <2>1. Goes(c, "insertSession")
    BY <1>8, StepBecomes
  <2> QED  BY <1>8, <2>1 DEF DetailForwarded, Goes, Moves, Becomes, Grows, HoldsTyped
<1>9. ASSUME NEW c \in Callers, CreateInsert(c) PROVE Opened'
  <2>1. PICK h \in Sessions :
           /\ Fresh(se, h) /\ se' = [se EXCEPT ![h] = "idle"]
           /\ Moves(c, "statusSession", call[c].ws, h, call[c].remote)
    BY <1>9, InsertBecomes
  <2> QED  BY <1>9, <2>1 DEF CreateInsert, Moves, Becomes, RowsTyped
<1>10. ASSUME NEW c \in Callers, CreateLink(c) PROVE Opened'
  <2>1. Goes(c, "applied")
    BY <1>10, StepBecomes
  <2> QED  BY <1>10, <2>1 DEF CreateLink, Goes, Moves, Becomes, Grows, HoldsTyped
<1>11. ASSUME NEW c \in Callers, RecordApplied(c) PROVE Opened'
  <2>1. Ends(c)
    BY <1>11, StepBecomes
  <2> QED  BY <1>11, <2>1 DEF RecordApplied, Ends, Becomes, OneCall, RowsTyped
<1>12. ASSUME NEW c \in Callers, CloseSessionBegin(c) PROVE Opened'
  <2>1. PICK h \in Sessions :
           /\ At(c, "idle") /\ se[h] # "absent"
           /\ seApart \subseteq seApart' /\ seApart' \subseteq Sessions
           /\ (\E d \in Callers : Linking(d, h)) => h \in seApart'
           /\ Becomes(c, IF slink[h] # None THEN "close" ELSE "storeClosed",
                      "session", NoOp, None, h, slink[h])
    BY <1>12, CloseSessionBecomes
  <2>2. UNCHANGED <<remoteVars, rowVars, op, wsApart, spent>>
    BY <1>12 DEF CloseSessionBegin
  <2> QED  BY <2>1, <2>2 DEF Becomes, Grows, HoldsTyped
<1>13. ASSUME NEW c \in Callers, CloseWorkspaceBegin(c) PROVE Opened'
  <2>1. PICK h \in Workspaces, pc \in {"close", "cleanUp"} :
           /\ At(c, "idle") /\ ws[h] # "absent"
           /\ wsApart \subseteq wsApart' /\ wsApart' \subseteq Workspaces
           /\ (\E d \in Callers : LinkingWorkspace(d, h)) => h \in wsApart'
           /\ pc = "close" => wlink[h] # None
           /\ pc = "cleanUp" => wlink[h] = None \/ h \in wsApart'
           /\ Becomes(c, pc, "workspace", NoOp, h, None, wlink[h])
    BY <1>13, CloseWorkspaceBecomes
  <2>2. UNCHANGED <<remoteVars, rowVars, op, seApart, spent>>
    BY <1>13 DEF CloseWorkspaceBegin
  <2> QED  BY <2>1, <2>2 DEF Becomes, Grows, HoldsTyped
<1>14. ASSUME NEW c \in Callers, CloseForwarded(c) PROVE Opened'
  <2>1. Goes(c, "storeClosed")
    BY <1>14, StepBecomes
  <2> QED  BY <1>14, <2>1 DEF CloseForwarded, Goes, Moves, Becomes, Grows, HoldsTyped
<1>15. ASSUME NEW c \in Callers, CleanUp(c) PROVE Opened'
  <2>1. Goes(c, "storeClosed") \/ Ends(c)
    BY <1>15, StepBecomes
  <2> QED  BY <1>15, <2>1 DEF CleanUp, Goes, Moves, Ends, Becomes, Grows, HoldsTyped
<1>16. ASSUME NEW c \in Callers, CreateStatus(c) PROVE Opened'
  <2>1. Goes(c, "linkSession")
    BY <1>16, StepBecomes
  <2> QED  BY <1>16, <2>1 DEF CreateStatus, Goes, Moves, Becomes, RowsTyped
<1>17. ASSUME NEW c \in Callers, StoreClosed(c) PROVE Opened'
  <2>1. Ends(c)
    BY <1>17, StepBecomes
  <2> QED  BY <1>17, <2>1 DEF StoreClosed, Ends, Becomes, RowsTyped, Closings, Closing,
        Linking, LinkingWorkspace
<1>18. ASSUME NEW c \in Callers, Fails(c) PROVE Opened'
  <2>1. Ends(c)
    BY <1>18, StepBecomes
  <2> QED  BY <1>18, <2>1 DEF Fails, Ends, Becomes, Grows, HoldsTyped
<1>19. CASE CrashAndRestart
  <2>1. \A c \in Callers : call'[c].pc = "idle" /\ call'[c].op = NoOp
    BY <1>19, CrashBecomes, IdleType
  <2> QED  BY <1>19, <2>1 DEF CrashAndRestart
<1>20. CASE UNCHANGED vars
  BY <1>20 DEF vars
<1> QED  BY <1>1, <1>2, <1>3, <1>4, <1>5, <1>6, <1>7, <1>8, <1>9, <1>10, <1>11, <1>12, <1>13, <1>14,
            <1>15, <1>16, <1>17, <1>18, <1>19, <1>20 DEF Next

LEMMA OneCallStep ==
    ASSUME Typed, OneCall, [Next]_vars
    PROVE  OneCall'
<1> USE ResourcesAssumption DEF Becomes, Moves, Goes, Ends, At, remoteVars, rowVars, OneCall
<1>1. ASSUME NEW c \in Callers, NEW o \in Ops, \A d \in Callers : call[d].op # o,
                 EnsureBegin(c, o) \/ CreateBegin(c, o)
      PROVE  OneCall'
  BY <1>1, OpenBecomes
<1>2. ASSUME NEW c \in Callers, RecordPending(c) PROVE OneCall'
  BY <1>2, StepBecomes
<1>3. ASSUME NEW c \in Callers, EnsureForwarded(c) PROVE OneCall'
  BY <1>3, ForwardedBecomes
<1>4. ASSUME NEW c \in Callers, EnsureInsert(c) PROVE OneCall'
  BY <1>4, InsertBecomes
<1>5. ASSUME NEW c \in Callers, EnsureLink(c) PROVE OneCall'
  BY <1>5, StepBecomes
<1>6. ASSUME NEW c \in Callers, CreateLookup(c) PROVE OneCall'
  BY <1>6, StepBecomes
<1>7. ASSUME NEW c \in Callers, CreateForwarded(c) PROVE OneCall'
  BY <1>7, ForwardedBecomes
<1>8. ASSUME NEW c \in Callers, DetailForwarded(c) PROVE OneCall'
  BY <1>8, StepBecomes
<1>9. ASSUME NEW c \in Callers, CreateInsert(c) PROVE OneCall'
  BY <1>9, InsertBecomes
<1>10. ASSUME NEW c \in Callers, CreateLink(c) PROVE OneCall'
  BY <1>10, StepBecomes
<1>11. ASSUME NEW c \in Callers, RecordApplied(c) PROVE OneCall'
  BY <1>11, StepBecomes
<1>12. ASSUME NEW c \in Callers, CloseSessionBegin(c) PROVE OneCall'
  BY <1>12, CloseSessionBecomes
<1>13. ASSUME NEW c \in Callers, CloseWorkspaceBegin(c) PROVE OneCall'
  BY <1>13, CloseWorkspaceBecomes
<1>14. ASSUME NEW c \in Callers, CloseForwarded(c) PROVE OneCall'
  BY <1>14, StepBecomes
<1>15. ASSUME NEW c \in Callers, CleanUp(c) PROVE OneCall'
  BY <1>15, StepBecomes
<1>16. ASSUME NEW c \in Callers, CreateStatus(c) PROVE OneCall'
  BY <1>16, StepBecomes
<1>17. ASSUME NEW c \in Callers, StoreClosed(c) PROVE OneCall'
  BY <1>17, StepBecomes
<1>18. ASSUME NEW c \in Callers, Fails(c) PROVE OneCall'
  BY <1>18, StepBecomes
<1>19. CASE CrashAndRestart
  BY <1>19, CrashBecomes, IdleType
<1>20. CASE UNCHANGED vars
  BY <1>20 DEF vars
<1> QED  BY <1>1, <1>2, <1>3, <1>4, <1>5, <1>6, <1>7, <1>8, <1>9, <1>10, <1>11, <1>12, <1>13, <1>14,
            <1>15, <1>16, <1>17, <1>18, <1>19, <1>20 DEF Next

(* Rows stay, and stay apart; only a call that is about to link a row       *)
(* changes its link; what is about to be linked is a new row.               *)
Steady ==
    /\ wsApart \subseteq wsApart' /\ seApart \subseteq seApart'
    /\ \A h \in Workspaces :
         /\ ws[h] # "absent" => ws'[h] # "absent"
         /\ wlink'[h] = wlink[h] \/ \E e \in Callers : LinkingWorkspace(e, h)
         /\ ws[h] # "absent" =>
              \A e \in Callers : LinkingWorkspace(e, h)' => LinkingWorkspace(e, h)
    /\ \A h \in Sessions :
         /\ se[h] # "absent" => se'[h] # "absent"
         /\ slink'[h] = slink[h] \/ \E e \in Callers : Linking(e, h)
         /\ se[h] # "absent" => \A e \in Callers : Linking(e, h)' => Linking(e, h)

LEMMA ClosingKept ==
    ASSUME Grows, Steady, RowsTyped, NEW c \in Callers, Closing(c),
           call'[c].kind = call[c].kind, call'[c].remote = call[c].remote,
           call'[c].ws = call[c].ws, call'[c].se = call[c].se,
           \/ call'[c].pc = call[c].pc
           \/ /\ At(c, "cleanUp") /\ call'[c].pc = "storeClosed"
           \/ /\ At(c, "close") /\ call'[c].pc = "storeClosed"
              /\ call[c].kind = "session" => rse'[call[c].remote].status = "closed"
              /\ call[c].kind # "session" => rws'[call[c].remote] = "closed"
    PROVE  Closing(c)'
<1>1. CASE call[c].kind = "session"
  <2> DEFINE h == call[c].se
  <2>1. /\ h \in Sessions /\ se'[h] # "absent" /\ ~At(c, "cleanUp") /\ ~At(c, "cleanUp")'
        /\ At(c, "close")' => call'[c].remote \in DOMAIN rse'
    BY <1>1 DEF Closing, Steady, Grows, At
  <2>2. ASSUME h \notin seApart'
        PROVE  /\ \A d \in Callers : ~Linking(d, h)'
               /\ slink'[h] # None
               /\ At(c, "close")' => call'[c].remote = slink'[h]
               /\ At(c, "storeClosed")' => rse'[slink'[h]].status = "closed"
    <3>1. /\ \A d \in Callers : ~Linking(d, h)
          /\ slink[h] # None /\ se[h] # "absent"
          /\ At(c, "close") => call[c].remote = slink[h]
          /\ At(c, "storeClosed") => rse[slink[h]].status = "closed"
      BY <1>1, <2>2 DEF Closing, Steady
    <3>2. slink'[h] = slink[h] /\ \A d \in Callers : ~Linking(d, h)'
      BY <2>1, <3>1 DEF Steady
    <3>3. slink[h] \in DOMAIN rse
      BY <2>1, <3>1 DEF RowsTyped
    <3> QED  BY <1>1, <2>1, <3>1, <3>2, <3>3 DEF At, Grows
  <2> QED  BY <1>1, <2>1, <2>2 DEF Closing, Linking, At
<1>2. CASE call[c].kind # "session"
  <2> DEFINE h == call[c].ws
  <2>1. /\ h \in Workspaces /\ ws'[h] # "absent"
        /\ At(c, "close")' => call'[c].remote \in DOMAIN rws'
    BY <1>2 DEF Closing, Steady, Grows, At
  <2>2. ASSUME h \notin wsApart'
        PROVE  /\ \A d \in Callers : ~LinkingWorkspace(d, h)'
               /\ wlink'[h] # None /\ ~At(c, "cleanUp")'
               /\ At(c, "close")' => call'[c].remote = wlink'[h]
               /\ At(c, "storeClosed")' => rws'[wlink'[h]] = "closed"
    <3>1. /\ \A d \in Callers : ~LinkingWorkspace(d, h)
          /\ wlink[h] # None /\ ws[h] # "absent" /\ ~At(c, "cleanUp")
          /\ At(c, "close") => call[c].remote = wlink[h]
          /\ At(c, "storeClosed") => rws[wlink[h]] = "closed"
      BY <1>2, <2>2 DEF Closing, Steady
    <3>2. wlink'[h] = wlink[h] /\ \A d \in Callers : ~LinkingWorkspace(d, h)'
      BY <2>1, <3>1 DEF Steady
    <3>3. wlink[h] \in DOMAIN rws
      BY <2>1, <3>1 DEF RowsTyped
    <3> QED  BY <1>2, <2>1, <3>1, <3>2, <3>3 DEF At, Grows
  <2> QED  BY <1>2, <2>1, <2>2 DEF Closing, LinkingWorkspace, At
<1> QED  BY <1>1, <1>2

LEMMA SteadyStep ==
    ASSUME Typed, RowsTyped, HoldsTyped, Opened, OneCall, Closings, Grows, [Next]_vars
    PROVE  Steady
<1> USE ResourcesAssumption DEF At, remoteVars, rowVars, apart, Steady, Linking, LinkingWorkspace,
        RowsTyped
<1>1. ASSUME NEW c \in Callers, NEW o \in Ops, \A d \in Callers : call[d].op # o,
                 EnsureBegin(c, o) \/ CreateBegin(c, o)
      PROVE  Steady
  <2>1. PICK kind \in {"ensure", "create", "new"}, w \in Workspaces \cup {None} :
           Becomes(c, "record", kind, o, w, None, None)
    BY <1>1, OpenBecomes
  <2>2. /\ At(c, "idle") /\ op[o] # "applied"
        /\ UNCHANGED <<remoteVars, rowVars, op, apart, spent>>
    BY <1>1 DEF EnsureBegin, CreateBegin, Begin
  <2> QED  BY <2>1, <2>2 DEF Becomes
<1>2. ASSUME NEW c \in Callers, RecordPending(c) PROVE Steady
  <2>1. PICK pc \in {"ensure", "lookup", "create"} : Goes(c, pc)
    BY <1>2, StepBecomes
  <2> QED  BY <1>2, <2>1 DEF RecordPending, Goes, Moves, Becomes
<1>3. ASSUME NEW c \in Callers, EnsureForwarded(c) PROVE Steady
  <2>1. Moves(c, "insertWorkspace", call[c].ws, call[c].se, Len(rws) + 1)
    BY <1>3, ForwardedBecomes
  <2> QED  BY <1>3, <2>1 DEF EnsureForwarded, Moves, Becomes
<1>4. ASSUME NEW c \in Callers, EnsureInsert(c) PROVE Steady
  <2>1. PICK h \in Workspaces :
           /\ Fresh(ws, h) /\ ws' = [ws EXCEPT ![h] = "ready"]
           /\ Moves(c, "linkWorkspace", h, call[c].se, call[c].remote)
    BY <1>4, InsertBecomes
  <2> QED  BY <1>4, <2>1 DEF EnsureInsert, Moves, Becomes, Fresh
<1>5. ASSUME NEW c \in Callers, EnsureLink(c) PROVE Steady
  <2>1. PICK pc \in {"applied", "lookup"} : Goes(c, pc)
    BY <1>5, StepBecomes
  <2> QED  BY <1>5, <2>1 DEF EnsureLink, Goes, Moves, Becomes
<1>6. ASSUME NEW c \in Callers, CreateLookup(c) PROVE Steady
  <2>1. Goes(c, "create") \/ Ends(c)
    BY <1>6, StepBecomes
  <2> QED  BY <1>6, <2>1 DEF CreateLookup, Goes, Moves, Ends, Becomes
<1>7. ASSUME NEW c \in Callers, CreateForwarded(c) PROVE Steady
  <2>1. Moves(c, "detail", call[c].ws, call[c].se, Len(rse) + 1)
    BY <1>7, ForwardedBecomes
  <2> QED  BY <1>7, <2>1 DEF CreateForwarded, Moves, Becomes
<1>8. ASSUME NEW c \in Callers, DetailForwarded(c) PROVE Steady
  <2>1. Goes(c, "insertSession")
    BY <1>8, StepBecomes
  <2> QED  BY <1>8, <2>1 DEF DetailForwarded, Goes, Moves, Becomes
<1>9. ASSUME NEW c \in Callers, CreateInsert(c) PROVE Steady
  <2>1. PICK h \in Sessions :
           /\ Fresh(se, h) /\ se' = [se EXCEPT ![h] = "idle"]
           /\ Moves(c, "statusSession", call[c].ws, h, call[c].remote)
    BY <1>9, InsertBecomes
  <2> QED  BY <1>9, <2>1 DEF CreateInsert, Moves, Becomes, Fresh
<1>10. ASSUME NEW c \in Callers, CreateLink(c) PROVE Steady
  <2>1. Goes(c, "applied")
    BY <1>10, StepBecomes
  <2> QED  BY <1>10, <2>1 DEF CreateLink, Goes, Moves, Becomes
<1>11. ASSUME NEW c \in Callers, RecordApplied(c) PROVE Steady
  <2>1. Ends(c)
    BY <1>11, StepBecomes
  <2> QED  BY <1>11, <2>1 DEF RecordApplied, Ends, Becomes
<1>12. ASSUME NEW c \in Callers, CloseSessionBegin(c) PROVE Steady
  <2>1. PICK h \in Sessions :
           /\ At(c, "idle") /\ se[h] # "absent"
           /\ seApart \subseteq seApart' /\ seApart' \subseteq Sessions
           /\ (\E d \in Callers : Linking(d, h)) => h \in seApart'
           /\ Becomes(c, IF slink[h] # None THEN "close" ELSE "storeClosed",
                      "session", NoOp, None, h, slink[h])
    BY <1>12, CloseSessionBecomes
  <2>2. UNCHANGED <<remoteVars, rowVars, op, wsApart, spent>>
    BY <1>12 DEF CloseSessionBegin
  <2> QED  BY <2>1, <2>2 DEF Becomes
<1>13. ASSUME NEW c \in Callers, CloseWorkspaceBegin(c) PROVE Steady
  <2>1. PICK h \in Workspaces, pc \in {"close", "cleanUp"} :
           /\ At(c, "idle") /\ ws[h] # "absent"
           /\ wsApart \subseteq wsApart' /\ wsApart' \subseteq Workspaces
           /\ (\E d \in Callers : LinkingWorkspace(d, h)) => h \in wsApart'
           /\ pc = "close" => wlink[h] # None
           /\ pc = "cleanUp" => wlink[h] = None \/ h \in wsApart'
           /\ Becomes(c, pc, "workspace", NoOp, h, None, wlink[h])
    BY <1>13, CloseWorkspaceBecomes
  <2>2. UNCHANGED <<remoteVars, rowVars, op, seApart, spent>>
    BY <1>13 DEF CloseWorkspaceBegin
  <2> QED  BY <2>1, <2>2 DEF Becomes
<1>14. ASSUME NEW c \in Callers, CloseForwarded(c) PROVE Steady
  <2>1. Goes(c, "storeClosed")
    BY <1>14, StepBecomes
  <2> QED  BY <1>14, <2>1 DEF CloseForwarded, Goes, Moves, Becomes
<1>15. ASSUME NEW c \in Callers, CleanUp(c) PROVE Steady
  <2>1. Goes(c, "storeClosed") \/ Ends(c)
    BY <1>15, StepBecomes
  <2> QED  BY <1>15, <2>1 DEF CleanUp, Goes, Moves, Ends, Becomes
<1>16. ASSUME NEW c \in Callers, CreateStatus(c) PROVE Steady
  <2>1. Goes(c, "linkSession")
    BY <1>16, StepBecomes
  <2> QED  BY <1>16, <2>1 DEF CreateStatus, Goes, Moves, Becomes
<1>17. ASSUME NEW c \in Callers, StoreClosed(c) PROVE Steady
  <2>1. Ends(c)
    BY <1>17, StepBecomes
  <2> QED  BY <1>17, <2>1 DEF StoreClosed, Ends, Becomes
<1>18. ASSUME NEW c \in Callers, Fails(c) PROVE Steady
  <2>1. Ends(c)
    BY <1>18, StepBecomes
  <2> QED  BY <1>18, <2>1 DEF Fails, Ends, Becomes
<1>19. CASE CrashAndRestart
  <2>1. \A c \in Callers : call'[c].pc = "idle" /\ call'[c].op = NoOp
    BY <1>19, CrashBecomes, IdleType
  <2> QED  BY <1>19, <2>1 DEF CrashAndRestart
<1>20. CASE UNCHANGED vars
  BY <1>20 DEF vars
<1> QED  BY <1>1, <1>2, <1>3, <1>4, <1>5, <1>6, <1>7, <1>8, <1>9, <1>10, <1>11, <1>12, <1>13, <1>14,
            <1>15, <1>16, <1>17, <1>18, <1>19, <1>20 DEF Next

LEMMA ClosingsStep ==
    ASSUME Typed, RowsTyped, Closings, Rowed, Grows, Steady, [Next]_vars
    PROVE  Closings'
<1> DEFINE Pc == {"close", "cleanUp", "storeClosed"}
<1>1. ASSUME NEW c \in Callers, NEW d \in Callers, d # c, call'[d] = call[d], call'[d].pc \in Pc
      PROVE  Closing(d)'
  BY <1>1, ClosingKept DEF Closings
<1>2. ASSUME NEW c \in Callers, call'[c].pc \in Pc => Closing(c)',
             \A d \in Callers : d # c => call'[d] = call[d]
      PROVE  Closings'
  BY <1>1, <1>2 DEF Closings
<1>3. ASSUME NEW c \in Callers, NEW o \in Ops, EnsureBegin(c, o) \/ CreateBegin(c, o)
      PROVE  Closings'
  BY <1>2, <1>3, OpenBecomes DEF Becomes
<1>4. ASSUME NEW c \in Callers,
             \/ RecordPending(c) \/ EnsureForwarded(c) \/ EnsureInsert(c) \/ EnsureLink(c)
             \/ CreateLookup(c) \/ CreateForwarded(c) \/ DetailForwarded(c) \/ CreateInsert(c)
             \/ CreateStatus(c) \/ CreateLink(c) \/ RecordApplied(c) \/ StoreClosed(c)
             \/ Fails(c)
      PROVE  Closings'
  <2>1. /\ call'[c].pc \notin Pc
        /\ \A d \in Callers : d # c => call'[d] = call[d]
    BY <1>4, StepBecomes, ForwardedBecomes, InsertBecomes DEF Goes, Moves, Ends, Becomes
  <2> QED  BY <1>2, <2>1
<1>5. ASSUME NEW c \in Callers, CloseSessionBegin(c) PROVE Closings'
  <2>1. PICK h \in Sessions :
           /\ At(c, "idle") /\ se[h] # "absent"
           /\ seApart \subseteq seApart' /\ seApart' \subseteq Sessions
           /\ (\E d \in Callers : Linking(d, h)) => h \in seApart'
           /\ Becomes(c, IF slink[h] # None THEN "close" ELSE "storeClosed",
                      "session", NoOp, None, h, slink[h])
    BY <1>5, CloseSessionBecomes
  <2>2. slink' = slink /\ se'[h] # "absent" /\ slink[h] \in {None} \cup DOMAIN rse
        /\ DOMAIN rse \subseteq DOMAIN rse'
    BY <1>5, <2>1 DEF CloseSessionBegin, rowVars, RowsTyped, Steady, Grows
  <2>3. ASSUME h \notin seApart' PROVE slink[h] # None /\ \A d \in Callers : ~Linking(d, h)'
    <3>1. h \notin seApart /\ \A d \in Callers : ~Linking(d, h)
      BY <2>1, <2>3
    <3> QED  BY <2>1, <3>1 DEF Rowed, Steady
  <2>4. Closing(c)'
    BY <2>1, <2>2, <2>3 DEF Closing, Becomes, At
  <2> QED  BY <1>2, <2>1, <2>4 DEF Becomes
<1>6. ASSUME NEW c \in Callers, CloseWorkspaceBegin(c) PROVE Closings'
  <2>1. PICK h \in Workspaces, pc \in {"close", "cleanUp"} :
           /\ At(c, "idle") /\ ws[h] # "absent"
           /\ wsApart \subseteq wsApart' /\ wsApart' \subseteq Workspaces
           /\ (\E d \in Callers : LinkingWorkspace(d, h)) => h \in wsApart'
           /\ pc = "close" => wlink[h] # None
           /\ pc = "cleanUp" => wlink[h] = None \/ h \in wsApart'
           /\ Becomes(c, pc, "workspace", NoOp, h, None, wlink[h])
    BY <1>6, CloseWorkspaceBecomes
  <2>2. wlink' = wlink /\ ws'[h] # "absent" /\ wlink[h] \in {None} \cup DOMAIN rws
        /\ DOMAIN rws \subseteq DOMAIN rws'
    BY <1>6, <2>1 DEF CloseWorkspaceBegin, rowVars, RowsTyped, Steady, Grows
  <2>3. ASSUME h \notin wsApart'
        PROVE  wlink[h] # None /\ pc = "close" /\ \A d \in Callers : ~LinkingWorkspace(d, h)'
    <3>1. h \notin wsApart /\ \A d \in Callers : ~LinkingWorkspace(d, h)
      BY <2>1, <2>3
    <3> QED  BY <2>1, <2>3, <3>1 DEF Rowed, Steady
  <2>4. Closing(c)'
    BY <2>1, <2>2, <2>3 DEF Closing, Becomes, At
  <2> QED  BY <1>2, <2>1, <2>4 DEF Becomes
<1>7. ASSUME NEW c \in Callers, CloseForwarded(c) PROVE Closings'
  <2>1. Goes(c, "storeClosed") /\ At(c, "close")
    BY <1>7, StepBecomes DEF CloseForwarded
  <2>2. /\ call[c].kind = "session" => rse'[call[c].remote].status = "closed"
        /\ call[c].kind # "session" => rws'[call[c].remote] = "closed"
    BY <1>7, CloseHolds, CloseGrows DEF CloseForwarded
  <2>3. Closing(c)
    BY <2>1 DEF Closings, At
  <2>4. Closing(c)'
    BY <2>1, <2>2, <2>3, ClosingKept DEF Goes, Moves, Becomes
  <2> QED  BY <1>2, <2>1, <2>4 DEF Goes, Moves, Becomes
<1>8. ASSUME NEW c \in Callers, CleanUp(c) PROVE Closings'
  <2>1. At(c, "cleanUp") /\ (Goes(c, "storeClosed") \/ Ends(c))
    BY <1>8, StepBecomes DEF CleanUp
  <2>2. Closing(c)
    BY <2>1 DEF Closings, At
  <2>3. Goes(c, "storeClosed") => Closing(c)'
    BY <2>1, <2>2, ClosingKept DEF Goes, Moves, Becomes
  <2> QED  BY <1>2, <2>1, <2>3 DEF Goes, Moves, Ends, Becomes
<1>9. CASE CrashAndRestart
  BY <1>9, CrashBecomes, IdleType DEF Closings
<1>10. CASE UNCHANGED vars
  BY <1>10, ClosingKept DEF Closings, vars
<1> QED  BY <1>3, <1>4, <1>5, <1>6, <1>7, <1>8, <1>9, <1>10 DEF Next

LEMMA ClosedStep ==
    ASSUME Typed, ClosedAtBothEnds, RowsTyped, HoldsTyped, Opened, OneCall, Closings, Grows,
           [Next]_vars
    PROVE  ClosedAtBothEnds'
<1> USE ResourcesAssumption DEF At, remoteVars, rowVars, apart, ClosedAtBothEnds,
        RowsTyped, Grows
<1>1. ASSUME NEW c \in Callers, NEW o \in Ops, \A d \in Callers : call[d].op # o,
                 EnsureBegin(c, o) \/ CreateBegin(c, o)
      PROVE  ClosedAtBothEnds'
  <2>1. UNCHANGED <<remoteVars, rowVars, apart>>
    BY <1>1 DEF EnsureBegin, CreateBegin
  <2> QED  BY <2>1
<1>2. ASSUME NEW c \in Callers, RecordPending(c) PROVE ClosedAtBothEnds'
  BY <1>2 DEF RecordPending
<1>3. ASSUME NEW c \in Callers, EnsureForwarded(c) PROVE ClosedAtBothEnds'
  BY <1>3 DEF EnsureForwarded
<1>4. ASSUME NEW c \in Callers, EnsureInsert(c) PROVE ClosedAtBothEnds'
  BY <1>4 DEF EnsureInsert
<1>5. ASSUME NEW c \in Callers, EnsureLink(c) PROVE ClosedAtBothEnds'
  BY <1>5 DEF EnsureLink, Opened
<1>6. ASSUME NEW c \in Callers, CreateLookup(c) PROVE ClosedAtBothEnds'
  BY <1>6 DEF CreateLookup
<1>7. ASSUME NEW c \in Callers, CreateForwarded(c) PROVE ClosedAtBothEnds'
  BY <1>7 DEF CreateForwarded
<1>8. ASSUME NEW c \in Callers, DetailForwarded(c) PROVE ClosedAtBothEnds'
  BY <1>8 DEF DetailForwarded
<1>9. ASSUME NEW c \in Callers, CreateInsert(c) PROVE ClosedAtBothEnds'
  BY <1>9 DEF CreateInsert
<1>10. ASSUME NEW c \in Callers, CreateLink(c) PROVE ClosedAtBothEnds'
  BY <1>10 DEF CreateLink, Opened
<1>11. ASSUME NEW c \in Callers, RecordApplied(c) PROVE ClosedAtBothEnds'
  BY <1>11 DEF RecordApplied
<1>12. ASSUME NEW c \in Callers, CloseSessionBegin(c) PROVE ClosedAtBothEnds'
  BY <1>12 DEF CloseSessionBegin
<1>13. ASSUME NEW c \in Callers, CloseWorkspaceBegin(c) PROVE ClosedAtBothEnds'
  BY <1>13 DEF CloseWorkspaceBegin
<1>14. ASSUME NEW c \in Callers, CloseForwarded(c) PROVE ClosedAtBothEnds'
  BY <1>14 DEF CloseForwarded
<1>15. ASSUME NEW c \in Callers, CleanUp(c) PROVE ClosedAtBothEnds'
  BY <1>15 DEF CleanUp
<1>16. ASSUME NEW c \in Callers, CreateStatus(c) PROVE ClosedAtBothEnds'
  BY <1>16 DEF CreateStatus
<1>17. ASSUME NEW c \in Callers, StoreClosed(c) PROVE ClosedAtBothEnds'
  BY <1>17 DEF StoreClosed, Closings, Closing
<1>18. ASSUME NEW c \in Callers, Fails(c) PROVE ClosedAtBothEnds'
  BY <1>18 DEF Fails
<1>19. CASE CrashAndRestart
  BY <1>19 DEF CrashAndRestart
<1>20. CASE UNCHANGED vars
  BY <1>20 DEF vars
<1> QED  BY <1>1, <1>2, <1>3, <1>4, <1>5, <1>6, <1>7, <1>8, <1>9, <1>10, <1>11, <1>12, <1>13, <1>14,
            <1>15, <1>16, <1>17, <1>18, <1>19, <1>20 DEF Next

(* A step that adds no row and drops no link.                               *)
LEMMA RowedKept ==
    ASSUME Rowed, Steady,
           \A h \in Workspaces :
              /\ ws[h] = "absent" => ws'[h] = "absent"
              /\ wlink[h] # None => wlink'[h] # None
              /\ \A d \in Callers : LinkingWorkspace(d, h) =>
                   LinkingWorkspace(d, h)' \/ wlink'[h] # None \/ h \in wsApart',
           \A h \in Sessions :
              /\ se[h] = "absent" => se'[h] = "absent"
              /\ slink[h] # None => slink'[h] # None
              /\ \A d \in Callers : Linking(d, h) =>
                   Linking(d, h)' \/ slink'[h] # None \/ h \in seApart'
    PROVE  Rowed'
BY DEF Rowed, Steady

LEMMA RowedStep ==
    ASSUME Typed, Rowed, RowsTyped, HoldsTyped, Opened, Closings, Grows, Steady, [Next]_vars
    PROVE  Rowed'
<1> USE DEF At
<1>1. ASSUME NEW c \in Callers, call[c].pc \notin {"linkWorkspace", "statusSession", "linkSession"},
             \A d \in Callers : d # c => call'[d] = call[d], wlink' = wlink, slink' = slink,
             \A h \in Workspaces : ws[h] = "absent" => ws'[h] = "absent",
             \A h \in Sessions : se[h] = "absent" => se'[h] = "absent"
      PROVE  Rowed'
  <2>2. \A d \in Callers, h \in Workspaces : LinkingWorkspace(d, h) => LinkingWorkspace(d, h)'
    BY <1>1 DEF LinkingWorkspace
  <2>3. \A d \in Callers, h \in Sessions : Linking(d, h) => Linking(d, h)'
    BY <1>1 DEF Linking
  <2> QED  BY <1>1, <2>2, <2>3, RowedKept
<1>2. ASSUME NEW c \in Callers,
             \/ RecordPending(c) \/ EnsureForwarded(c) \/ CreateLookup(c) \/ CreateForwarded(c)
             \/ DetailForwarded(c) \/ RecordApplied(c) \/ CloseForwarded(c) \/ CleanUp(c)
             \/ Fails(c)
      PROVE  Rowed'
  <2>1. /\ call[c].pc \notin {"linkWorkspace", "statusSession", "linkSession"} /\ UNCHANGED rowVars
    BY <1>2 DEF RecordPending, EnsureForwarded, CreateLookup, CreateForwarded, DetailForwarded,
         RecordApplied, CloseForwarded, CleanUp, Fails
  <2>2. \A d \in Callers : d # c => call'[d] = call[d]
    BY <1>2, StepBecomes, ForwardedBecomes DEF Goes, Moves, Ends, Becomes
  <2> QED  BY <1>1, <2>1, <2>2 DEF rowVars
<1>3. ASSUME NEW c \in Callers, NEW o \in Ops, EnsureBegin(c, o) \/ CreateBegin(c, o)
      PROVE  Rowed'
  <2>1. At(c, "idle") /\ UNCHANGED rowVars
    BY <1>3 DEF EnsureBegin, CreateBegin, Begin
  <2>2. \A d \in Callers : d # c => call'[d] = call[d]
    BY <1>3, OpenBecomes DEF Becomes
  <2> QED  BY <1>1, <2>1, <2>2 DEF rowVars
<1>4. ASSUME NEW c \in Callers, CloseSessionBegin(c) \/ CloseWorkspaceBegin(c) PROVE Rowed'
  <2>1. At(c, "idle") /\ UNCHANGED rowVars
    BY <1>4 DEF CloseSessionBegin, CloseWorkspaceBegin, Begin
  <2>2. \A d \in Callers : d # c => call'[d] = call[d]
    BY <1>4, CloseSessionBecomes, CloseWorkspaceBecomes DEF Becomes
  <2> QED  BY <1>1, <2>1, <2>2 DEF rowVars
<1>5. ASSUME NEW c \in Callers, StoreClosed(c) PROVE Rowed'
  <2>1. /\ At(c, "storeClosed") /\ UNCHANGED <<wlink, slink>> /\ Closing(c)
        /\ IF call[c].kind = "session"
           THEN se' = [se EXCEPT ![call[c].se] = "closed"] /\ UNCHANGED ws
           ELSE ws' = [ws EXCEPT ![call[c].ws] = "closed"] /\ UNCHANGED se
    BY <1>5 DEF StoreClosed, Closings
  <2>2. /\ \A h \in Workspaces : ws[h] = "absent" => ws'[h] = "absent"
        /\ \A h \in Sessions : se[h] = "absent" => se'[h] = "absent"
    BY <2>1 DEF Closing, RowsTyped
  <2>3. \A d \in Callers : d # c => call'[d] = call[d]
    BY <1>5, StepBecomes DEF Ends, Becomes
  <2> QED  BY <1>1, <2>1, <2>2, <2>3
<1>6. ASSUME NEW c \in Callers, EnsureInsert(c) PROVE Rowed'
  <2>1. PICK h \in Workspaces :
           /\ Fresh(ws, h) /\ ws' = [ws EXCEPT ![h] = "ready"]
           /\ Moves(c, "linkWorkspace", h, call[c].se, call[c].remote)
    BY <1>6, InsertBecomes
  <2>2. UNCHANGED <<wlink, se, slink, apart>> /\ At(c, "insertWorkspace")
    BY <1>6 DEF EnsureInsert
  <2>3. LinkingWorkspace(c, h)' /\ \A d \in Callers : d # c => call'[d] = call[d]
    BY <2>1 DEF LinkingWorkspace, Moves, Becomes
  <2> QED  BY <2>1, <2>2, <2>3 DEF Rowed, LinkingWorkspace, Linking, RowsTyped, apart
<1>7. ASSUME NEW c \in Callers, CreateInsert(c) PROVE Rowed'
  <2>1. PICK h \in Sessions :
           /\ Fresh(se, h) /\ se' = [se EXCEPT ![h] = "idle"]
           /\ Moves(c, "statusSession", call[c].ws, h, call[c].remote)
    BY <1>7, InsertBecomes
  <2>2. UNCHANGED <<ws, wlink, slink, apart>> /\ At(c, "insertSession")
    BY <1>7 DEF CreateInsert
  <2>3. Linking(c, h)' /\ \A d \in Callers : d # c => call'[d] = call[d]
    BY <2>1 DEF Linking, Moves, Becomes
  <2> QED  BY <2>1, <2>2, <2>3 DEF Rowed, LinkingWorkspace, Linking, RowsTyped, apart
<1>12. ASSUME NEW c \in Callers, CreateStatus(c) PROVE Rowed'
  <2>1. /\ At(c, "statusSession") /\ se' = [se EXCEPT ![call[c].se] = "idle"]
        /\ UNCHANGED <<ws, wlink, slink>>
        /\ call'[c].pc = "linkSession" /\ call'[c].se = call[c].se
        /\ \A d \in Callers : d # c => call'[d] = call[d]
    BY <1>12, StepBecomes DEF CreateStatus, Goes, Moves, Becomes
  <2>2. call[c].se \in Sessions /\ se[call[c].se] # "absent"
    BY <2>1 DEF Opened
  <2>3. \A h \in Sessions : se[h] = "absent" => se'[h] = "absent"
    BY <2>1, <2>2 DEF RowsTyped
  <2> QED  BY <2>1, <2>3, RowedKept DEF LinkingWorkspace, Linking
<1>8. ASSUME NEW c \in Callers, EnsureLink(c) PROVE Rowed'
  <2>1. /\ At(c, "linkWorkspace") /\ wlink' = [wlink EXCEPT ![call[c].ws] = call[c].remote]
        /\ UNCHANGED <<ws, se, slink>>
        /\ \A d \in Callers : d # c => call'[d] = call[d]
    BY <1>8, StepBecomes DEF EnsureLink, Goes, Moves, Becomes
  <2>2. call[c].ws \in Workspaces /\ call[c].remote # None
    BY <2>1 DEF Opened, HoldsTyped, HoldsWorkspace, Typed, TypeOK, None
  <2>3. \A h \in Workspaces : IF h = call[c].ws THEN wlink'[h] # None ELSE wlink'[h] = wlink[h]
    BY <2>1, <2>2 DEF RowsTyped
  <2> QED  BY <2>1, <2>3, RowedKept DEF LinkingWorkspace, Linking
<1>9. ASSUME NEW c \in Callers, CreateLink(c) PROVE Rowed'
  <2>1. /\ At(c, "linkSession") /\ slink' = [slink EXCEPT ![call[c].se] = call[c].remote]
        /\ UNCHANGED <<ws, se, wlink>>
        /\ \A d \in Callers : d # c => call'[d] = call[d]
    BY <1>9, StepBecomes DEF CreateLink, Goes, Moves, Becomes
  <2>2. call[c].se \in Sessions /\ call[c].remote # None
    BY <2>1 DEF Opened, HoldsTyped, HoldsSession, Typed, TypeOK, None
  <2>3. \A h \in Sessions : IF h = call[c].se THEN slink'[h] # None ELSE slink'[h] = slink[h]
    BY <2>1, <2>2 DEF RowsTyped
  <2> QED  BY <2>1, <2>3, RowedKept DEF LinkingWorkspace, Linking
<1>10. CASE CrashAndRestart
  BY <1>10, RowedKept DEF CrashAndRestart, rowVars
<1>11. CASE UNCHANGED vars
  BY <1>11, RowedKept DEF vars, rowVars, LinkingWorkspace, Linking
<1> QED  BY <1>2, <1>3, <1>4, <1>5, <1>6, <1>7, <1>8, <1>9, <1>10, <1>11, <1>12 DEF Next

LEMMA OnceKept ==
    ASSUME Grows, RowsTyped, Once, RetryYieldsOneSession, slink' = slink,
           spent'.crashes = 0 => spent.crashes = 0,
           \A o \in Ops : op[o] = "applied" => op'[o] = "applied",
           \A d \in Callers : At(d, "applied") =>
              \/ call'[d].pc = "applied" /\ call'[d].op = call[d].op
              \/ op'[call[d].op] = "applied",
           \A h \in Sessions : slink[h] # None => rse[slink[h]].op \in Ops
    PROVE  Once' /\ RetryYieldsOneSession'
<1>1. \A h \in Sessions : slink[h] # None => rse'[slink[h]].op = rse[slink[h]].op
  BY DEF RowsTyped, Grows
<1> QED  BY <1>1 DEF Once, RetryYieldsOneSession, At

LEMMA OnceStep ==
    ASSUME Typed, RowsTyped, HoldsTyped, Opened, OneCall, Once, RetryYieldsOneSession, Grows,
           [Next]_vars
    PROVE  Once' /\ RetryYieldsOneSession'
<1>0. \A h \in Sessions : slink[h] # None => rse[slink[h]].op \in Ops
  <2> DEFINE S == [status : {"idle", "closed"}, op : Ops]
  <2>1. rse \in Seq(S) /\ \A r \in S : r.op \in Ops
    BY DEF Typed, TypeOK
  <2> HIDE DEF S
  <2> QED  BY <2>1, SeqElement DEF RowsTyped
<1>1. ASSUME NEW c \in Callers, NEW o \in Ops, EnsureBegin(c, o) \/ CreateBegin(c, o)
      PROVE  Once' /\ RetryYieldsOneSession'
  <2>1. At(c, "idle") /\ UNCHANGED <<rowVars, op, spent>>
    BY <1>1 DEF EnsureBegin, CreateBegin, Begin
  <2>2. \A d \in Callers : d # c => call'[d] = call[d]
    BY <1>1, OpenBecomes DEF Becomes
  <2> QED  BY <1>0, <2>1, <2>2, OnceKept DEF rowVars, At
<1>2. ASSUME NEW c \in Callers, RecordPending(c) PROVE Once' /\ RetryYieldsOneSession'
  <2>1. /\ At(c, "record") /\ op' = [op EXCEPT ![call[c].op] = "pending"]
        /\ UNCHANGED <<rowVars, spent>>
    BY <1>2 DEF RecordPending
  <2>2. op[call[c].op] # "applied"
    BY <2>1 DEF Opened, Opens, At
  <2>3. \A d \in Callers : d # c => call'[d] = call[d]
    BY <1>2, StepBecomes DEF Goes, Moves, Becomes
  <2> QED  BY <1>0, <2>1, <2>2, <2>3, OnceKept DEF rowVars, At, RowsTyped
<1>3. ASSUME NEW c \in Callers, CreateLink(c) PROVE Once' /\ RetryYieldsOneSession'
  <2> DEFINE h == call[c].se
             o == call[c].op
  <2>1. /\ At(c, "linkSession") /\ slink' = [slink EXCEPT ![h] = call[c].remote]
        /\ UNCHANGED <<rse, op, spent>>
    BY <1>3 DEF CreateLink, remoteVars
  <2>2. /\ h \in Sessions /\ rse[call[c].remote].op = o /\ op[o] # "applied" /\ o \in Ops
    BY <2>1 DEF Opened, Opens, HoldsSession, At
  <2>3. /\ call'[c].pc = "applied" /\ call'[c].op = o
        /\ \A d \in Callers : d # c => call'[d] = call[d]
    BY <1>3, StepBecomes DEF Goes, Moves, Becomes
  <2>4. \A k \in Sessions : slink'[k] = IF k = h THEN call[c].remote ELSE slink[k]
    BY <2>1, <2>2 DEF RowsTyped
  <2>5. ASSUME spent.crashes = 0, NEW k \in Sessions, slink[k] # None PROVE rse[slink[k]].op # o
    <3>1. \A d \in Callers : At(d, "applied") => call[d].op # o
      BY <2>1, <2>2, ResourcesAssumption DEF OneCall, At
    <3> QED  BY <2>2, <2>5, <3>1 DEF Once
  <2>6. Once'
    BY <2>1, <2>2, <2>3, <2>4 DEF Once, At
  <2>7. RetryYieldsOneSession'
    BY <2>1, <2>2, <2>4, <2>5 DEF RetryYieldsOneSession
  <2> QED  BY <2>6, <2>7
<1>4. ASSUME NEW c \in Callers, RecordApplied(c) PROVE Once' /\ RetryYieldsOneSession'
  <2>1. /\ At(c, "applied") /\ UNCHANGED <<rowVars, spent>>
        /\ op' = [op EXCEPT ![call[c].op] = "applied"]
    BY <1>4 DEF RecordApplied
  <2>2. call[c].op \in Ops
    BY <2>1 DEF Opened, Opens, At
  <2>3. \A d \in Callers : d # c => call'[d] = call[d]
    BY <1>4, StepBecomes DEF Ends, Becomes
  <2> QED  BY <1>0, <2>1, <2>2, <2>3, OnceKept DEF rowVars, At, RowsTyped
<1>5. ASSUME NEW c \in Callers,
             \/ EnsureForwarded(c) \/ EnsureInsert(c) \/ EnsureLink(c) \/ CreateLookup(c)
             \/ CreateForwarded(c) \/ DetailForwarded(c) \/ CreateInsert(c) \/ CreateStatus(c)
             \/ CleanUp(c) \/ CloseSessionBegin(c) \/ CloseWorkspaceBegin(c) \/ CloseForwarded(c)
             \/ StoreClosed(c) \/ Fails(c)
      PROVE  Once' /\ RetryYieldsOneSession'
  <2>1. ~At(c, "applied") /\ UNCHANGED <<slink, op>>
    BY <1>5 DEF EnsureForwarded, EnsureInsert, EnsureLink, CreateLookup, CreateForwarded,
         DetailForwarded, CreateInsert, CreateStatus, CleanUp, CloseSessionBegin, CloseWorkspaceBegin,
         CloseForwarded, StoreClosed, Fails, Begin, At, rowVars
  <2>2. spent'.crashes = spent.crashes
    BY <1>5 DEF EnsureForwarded, EnsureInsert, EnsureLink, CreateLookup, CreateForwarded,
         DetailForwarded, CreateInsert, CreateStatus, CleanUp, CloseSessionBegin, CloseWorkspaceBegin,
         CloseForwarded, StoreClosed, Fails, RowsTyped
  <2>3. \A d \in Callers : d # c => call'[d] = call[d]
    BY <1>5, StepBecomes, ForwardedBecomes, InsertBecomes, CloseSessionBecomes,
       CloseWorkspaceBecomes DEF Goes, Moves, Ends, Becomes
  <2> QED  BY <1>0, <2>1, <2>2, <2>3, OnceKept DEF At
<1>6. CASE CrashAndRestart
  <2>1. spent'.crashes # 0
    BY <1>6 DEF CrashAndRestart, RowsTyped
  <2> QED  BY <2>1 DEF Once, RetryYieldsOneSession
<1>7. CASE UNCHANGED vars
  BY <1>0, <1>7, OnceKept DEF vars, rowVars, At
<1> QED  BY <1>1, <1>2, <1>3, <1>4, <1>5, <1>6, <1>7 DEF Next

LEMMA CallsTyped ==
    ASSUME Typed, [Next]_vars
    PROVE  call' \in [Callers -> CallRecords]
<1>1. ASSUME NEW c \in Callers, NEW o \in Ops, EnsureBegin(c, o) \/ CreateBegin(c, o)
      PROVE  call' \in [Callers -> CallRecords]
  BY <1>1, OpenBecomes DEF Becomes
<1>2. ASSUME NEW c \in Callers,
             \/ RecordPending(c) \/ EnsureForwarded(c) \/ EnsureInsert(c) \/ EnsureLink(c)
             \/ CreateLookup(c) \/ CreateForwarded(c) \/ DetailForwarded(c) \/ CreateInsert(c)
             \/ CreateStatus(c) \/ CreateLink(c) \/ RecordApplied(c) \/ CloseSessionBegin(c)
             \/ CloseWorkspaceBegin(c) \/ CloseForwarded(c) \/ CleanUp(c)
             \/ StoreClosed(c) \/ Fails(c)
      PROVE  call' \in [Callers -> CallRecords]
  BY <1>2, StepBecomes, ForwardedBecomes, InsertBecomes, CloseSessionBecomes,
     CloseWorkspaceBecomes DEF Goes, Moves, Ends, Becomes
<1>3. CrashAndRestart => call' \in [Callers -> CallRecords]
  BY CrashBecomes
<1>4. UNCHANGED vars => call' \in [Callers -> CallRecords]
  BY DEF vars, Typed
<1> QED  BY <1>1, <1>2, <1>3, <1>4 DEF Next

LEMMA InitInv == Init => IInv
<1> SUFFICES ASSUME Init PROVE IInv
  OBVIOUS
<1> USE ResourcesAssumption DEF Init
<1>1. call \in [Callers -> CallRecords]
  BY IdleType
<1>2. \A c \in Callers : call[c] = Idle
  OBVIOUS
<1>3. HoldsTyped
  BY <1>2, IdleType DEF HoldsTyped, HoldsWorkspace, HoldsSession
<1>4. Typed
  <2>1. /\ rws \in Seq({"ready", "closed"})
        /\ rse \in Seq([status : {"idle", "closed"}, op : Ops])
    OBVIOUS
  <2>2. RowsTyped
    BY DEF RowsTyped
  <2>3. \A c \in Callers :
           /\ call[c].pc \in Pcs /\ call[c].kind \in Kinds /\ call[c].op \in Ops \cup {NoOp}
           /\ call[c].ws \in Workspaces \cup {None} /\ call[c].se \in Sessions \cup {None}
    BY <1>1 DEF CallRecords
  <2> QED  BY <1>1, <1>3, <2>1, <2>2, <2>3 DEF Typed, TypeOK, RowsTyped, HoldsTyped, Kinds
<1>5. Opened /\ OneCall /\ Closings
  BY <1>2, IdleType DEF Opened, Opens, OneCall, Closings, At, HoldsSession
<1>6. Rowed
  BY <1>2, IdleType DEF Rowed, At
<1>7. Once /\ RetryYieldsOneSession /\ ClosedAtBothEnds
  BY DEF Once, RetryYieldsOneSession, ClosedAtBothEnds, ClosedAtBothEnds
<1> QED  BY <1>4, <1>5, <1>6, <1>7 DEF IInv

LEMMA Invariance == Spec => []IInv
<1>1. IInv /\ [Next]_vars => IInv'
  <2> SUFFICES ASSUME IInv, [Next]_vars PROVE IInv'
    OBVIOUS
  <2> USE DEF IInv
  <2>1. Grows /\ RowsTyped /\ HoldsTyped
    BY Growing, TypedParts
  <2>2. Typed'
    <3>1. RowsTyped' /\ HoldsTyped'
      BY <2>1, RowsStep, HoldsStep
    <3>2. call' \in [Callers -> CallRecords]
      BY CallsTyped
    <3> QED  BY <2>1, <3>1, <3>2, TypedParts
  <2>3. Opened' /\ OneCall' /\ Steady
    BY <2>1, OpenedStep, OneCallStep, SteadyStep
  <2>4. Closings' /\ ClosedAtBothEnds' /\ Rowed' /\ Once' /\ RetryYieldsOneSession'
    BY <2>1, <2>3, ClosingsStep, ClosedStep, RowedStep, OnceStep
  <2> QED  BY <2>2, <2>3, <2>4
<1> QED  BY InitInv, <1>1, PTL DEF Spec

(* Every link leads to a resource that the remote broker has, and every     *)
(* call holds what it goes on with.                                         *)
THEOREM TypeCorrect == Spec => []TypeOK
<1>1. IInv => TypeOK
  BY DEF IInv, Typed
<1> QED  BY <1>1, Invariance, PTL

(* However often a create_session is retried with its operation id, and     *)
(* however often its replies are lost, the home broker shows one session,   *)
(* as long as it does not crash.                                            *)
THEOREM RetriesYieldOne == Spec => []RetryYieldsOneSession
<1>1. IInv => RetryYieldsOneSession
  BY DEF IInv
<1> QED  BY <1>1, Invariance, PTL

(* A row that is shown as closed is linked to a remote resource that is     *)
(* closed, unless its close passed the remote broker by: no failing call,   *)
(* crash or overlapping close leaves another one open there.                *)
THEOREM ClosesBoth == Spec => []ClosedAtBothEnds
<1>1. IInv => ClosedAtBothEnds
  BY DEF IInv
<1> QED  BY <1>1, Invariance, PTL
=============================================================================
