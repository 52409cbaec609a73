-------------------------- MODULE WorkspaceProofs --------------------------
(***************************************************************************)
(* For any number of workspaces, paths, sessions, foreground calls and      *)
(* crashes: a workspace's row and the worktree on disk agree.               *)
(***************************************************************************)
EXTENDS WorkspaceLifecycle, TLAPS

(* A session's workspace has a row, and only sessions that have one work.   *)
Homes ==
    /\ \A s \in Sessions : session[s] # "absent" => home[s] \in Workspaces
    /\ \A s \in creating \cup bound : session[s] # "absent"

(* A worktree that has a row is at the row's path.                          *)
Trees ==
    \A p \in Paths, w \in Workspaces :
        tree[p] = w /\ status[w] # "absent" => path[w] = p /\ kind[w] = "worktree"

NoTree(w) == \A p \in Paths : tree[p] # w

(* What a call that has been to git, and has not stored it, knows.          *)
Inserting(c) ==
    /\ call[c].ws \in Workspaces /\ call[c].path \in Paths /\ status[call[c].ws] = "absent"
    /\ \A d \in Callers : call[d].ws = call[c].ws => d = c
AddsTree(c) ==
    /\ Inserting(c)
    /\ tree[call[c].path] = call[c].ws \/ call[c].path \in removed
    /\ \A p \in Paths : tree[p] = call[c].ws => p = call[c].path
AddsRow(c) == Inserting(c) /\ NoTree(call[c].ws)

(* ... and what one that works on a row knows.                              *)
OnRow(c) == call[c].ws \in Workspaces /\ status[call[c].ws] # "absent"
Deletes(c) ==
    /\ OnRow(c) /\ call[c].path = path[call[c].ws]
    /\ At(c, "store") => NoTree(call[c].ws)

Knows(c) ==
    /\ At(c, "idle") => call[c] = Idle
    /\ At(c, "insertWorktree") => AddsTree(c)
    /\ At(c, "insertLocal") => AddsRow(c)
    /\ At(c, "insertSession") => OnRow(c)
    /\ call[c].pc \in Deleting => Deletes(c)

Calls == \A c \in Callers : Knows(c)

CallRecords == [pc : Pcs, ws : Workspaces \cup {None}, path : Paths \cup {None}, force : BOOLEAN]

IInv == TypeOK /\ Homes /\ Trees /\ Calls /\ WorkspaceHasTree /\ DeletedTreeIsGone
-----------------------------------------------------------------------------
LEMMA IdleType == Idle \in CallRecords
BY DEF Idle, CallRecords, Pcs

LEMMA InitInv == Init => IInv
<1> SUFFICES ASSUME Init PROVE IInv
  OBVIOUS
<1> USE WorkspaceAssumption DEF Init, Idle
<1>1. TypeOK
  BY DEF TypeOK, Pcs, Deleting
<1>2. Homes /\ Trees
  BY DEF Homes, Trees
<1>3. Calls
  BY DEF Calls, Knows, At, Deleting
<1>4. WorkspaceHasTree /\ DeletedTreeIsGone
  BY DEF WorkspaceHasTree, DeletedTreeIsGone
<1> QED  BY <1>1, <1>2, <1>3, <1>4 DEF IInv

\* Sessions come and go without touching rows or worktrees.
LEMMA SessionsApart ==
    ASSUME IInv, UNCHANGED <<tree, removed, rowVars, call>>
    PROVE  Trees' /\ Calls' /\ WorkspaceHasTree' /\ DeletedTreeIsGone'
<1> USE DEF IInv, rowVars
<1>1. Trees' /\ WorkspaceHasTree' /\ DeletedTreeIsGone'
  BY DEF Trees, WorkspaceHasTree, DeletedTreeIsGone
<1>2. Calls'
  BY DEF Calls, Knows, At, AddsTree, AddsRow, Inserting, NoTree, Deletes, OnRow
<1> QED  BY <1>1, <1>2

LEMMA SessionInv ==
    ASSUME IInv, NEW s \in Sessions, SessionStep(s)
    PROVE  IInv'
<1> USE DEF diskVars, rowVars, sessionVars
<1>1. UNCHANGED <<tree, removed, rowVars, call, crashes, home>>
  BY DEF SessionStep, SessionBound, CreationFails, SendMessage, TurnWorks, TurnEnds, CloseSession
<1>2. Trees' /\ Calls' /\ WorkspaceHasTree' /\ DeletedTreeIsGone'
  BY <1>1, SessionsApart
<1>3. TypeOK' /\ Homes'
  <2> USE DEF IInv, TypeOK, Homes
  <2>1. CASE SessionBound(s)
    BY <2>1 DEF SessionBound
  <2>2. CASE CreationFails(s)
    BY <2>2 DEF CreationFails
  <2>3. CASE SendMessage(s)
    BY <2>3 DEF SendMessage
  <2>4. CASE TurnWorks(s)
    <3>1. path[home[s]] \in Paths
      BY <2>4 DEF TurnWorks
    <3> QED  BY <2>4, <3>1 DEF TurnWorks
  <2>5. CASE TurnEnds(s)
    BY <2>5 DEF TurnEnds
  <2>6. CASE CloseSession(s)
    BY <2>6 DEF CloseSession
  <2> QED  BY <2>1, <2>2, <2>3, <2>4, <2>5, <2>6 DEF SessionStep
<1> QED  BY <1>2, <1>3 DEF IInv

\* What a call knows stays true when another one adds a tree or a row that is
\* not its own, or removes a tree.
LEMMA KnowsStill ==
    ASSUME IInv, NEW d \in Callers, call'[d] = call[d],
           Inserting(d) => \A e \in Callers : call'[e].ws = call[d].ws => call[e].ws = call[d].ws,
           \A p \in Paths : tree'[p] = call[d].ws /\ tree'[p] \in Workspaces => tree[p] = call[d].ws,
           \A p \in Paths : tree[p] = call[d].ws /\ tree[p] \in Workspaces =>
               tree'[p] = call[d].ws \/ p \in removed',
           removed \subseteq removed',
           \A w \in Workspaces : w = call[d].ws =>
               /\ path'[w] = path[w]
               /\ status'[w] = "absent" <=> status[w] = "absent"
    PROVE  Knows(d)'
<1>1. Knows(d)
  BY DEF IInv, Calls
<1>2. Inserting(d) => Inserting(d)'
  BY DEF Inserting
<1>3. AddsTree(d) => AddsTree(d)'
  <2> SUFFICES ASSUME AddsTree(d) PROVE AddsTree(d)'
    OBVIOUS
  <2>1. Inserting(d)' /\ call[d].ws \in Workspaces /\ call[d].path \in Paths
    BY <1>2 DEF AddsTree, Inserting
  <2>2. tree'[call[d].path] = call[d].ws \/ call[d].path \in removed'
    BY <2>1 DEF AddsTree
  <2>3. \A p \in Paths : tree'[p] = call[d].ws => p = call[d].path
    BY <2>1 DEF AddsTree
  <2> QED  BY <2>1, <2>2, <2>3 DEF AddsTree
<1>4. AddsRow(d) => AddsRow(d)'
  <2> SUFFICES ASSUME AddsRow(d) PROVE AddsRow(d)'
    OBVIOUS
  <2>1. Inserting(d)' /\ call[d].ws \in Workspaces
    BY <1>2 DEF AddsRow, Inserting
  <2>2. \A p \in Paths : tree'[p] # call[d].ws
    BY <2>1 DEF AddsRow, NoTree
  <2> QED  BY <2>1, <2>2 DEF AddsRow, NoTree
<1>5. OnRow(d) => OnRow(d)'
  BY DEF OnRow
<1>6. Deletes(d) => Deletes(d)'
  BY <1>5 DEF Deletes, OnRow, NoTree, At
<1> QED  BY <1>1, <1>3, <1>4, <1>5, <1>6 DEF Knows, At, Idle

LEMMA EnsureWorktreeInv ==
    ASSUME IInv, NEW c \in Callers, NEW p \in Paths, EnsureWorktree(c, p)
    PROVE  IInv'
<1> USE DEF rowVars, sessionVars
<1>1. PICK w \in Workspaces :
         /\ tree[p] = None /\ Fresh(w) /\ tree' = [tree EXCEPT ![p] = w]
         /\ call' = [call EXCEPT ![c] = [pc |-> "insertWorktree", ws |-> w, path |-> p, force |-> FALSE]]
         /\ UNCHANGED <<dirty, removed, rowVars, sessionVars, crashes>>
  BY DEF EnsureWorktree, Idle
<1>2. TypeOK' /\ Homes'
  BY <1>1 DEF IInv, TypeOK, Homes, Pcs
<1>3. Trees' /\ WorkspaceHasTree' /\ DeletedTreeIsGone'
  <2>1. status[w] = "absent" /\ \A q \in Paths : tree[q] # w
    BY <1>1 DEF Fresh
  <2>2. \A q \in Paths : tree'[q] = IF q = p THEN w ELSE tree[q]
    BY <1>1 DEF IInv, TypeOK
  <2>3. Trees' /\ DeletedTreeIsGone'
    BY <1>1, <2>1, <2>2 DEF IInv, Trees, DeletedTreeIsGone
  <2>4. \A v \in Workspaces : status[v] # "absent" => path[v] \in Paths
    BY DEF IInv, TypeOK
  <2>5. WorkspaceHasTree'
    BY <1>1, <2>1, <2>2, <2>4, WorkspaceAssumption DEF IInv, WorkspaceHasTree
  <2> QED  BY <2>3, <2>5
<1>4. Calls'
  <2>1. status[w] = "absent" /\ (\A q \in Paths : tree[q] # w) /\ \A e \in Callers : call[e].ws # w
    BY <1>1 DEF Fresh
  <2>2. \A q \in Paths : tree'[q] = IF q = p THEN w ELSE tree[q]
    BY <1>1 DEF IInv, TypeOK
  <2>3. call'[c] = [pc |-> "insertWorktree", ws |-> w, path |-> p, force |-> FALSE]
    BY <1>1 DEF IInv, TypeOK
  <2>4. \A e \in Callers : e # c => call'[e] = call[e]
    BY <1>1 DEF IInv, TypeOK
  <2>5. AddsTree(c)'
    BY <1>1, <2>1, <2>2, <2>3, <2>4 DEF AddsTree, Inserting
  <2>6. Knows(c)'
    BY <2>3, <2>5 DEF Knows, At, Deleting
  <2>7. ASSUME NEW d \in Callers, d # c PROVE Knows(d)'
    BY <1>1, <2>1, <2>2, <2>3, <2>4, <2>7, WorkspaceAssumption, KnowsStill
  <2> QED  BY <2>6, <2>7 DEF Calls
<1> QED  BY <1>2, <1>3, <1>4 DEF IInv

LEMMA EnsureLocalPathInv ==
    ASSUME IInv, NEW c \in Callers, NEW p \in Paths, EnsureLocalPath(c, p)
    PROVE  IInv'
<1> USE DEF diskVars, rowVars, sessionVars
<1>1. PICK w \in Workspaces :
         /\ Fresh(w)
         /\ call' = [call EXCEPT ![c] = [pc |-> "insertLocal", ws |-> w, path |-> p, force |-> FALSE]]
         /\ UNCHANGED <<diskVars, rowVars, sessionVars, crashes>>
  BY DEF EnsureLocalPath, Idle
<1>2. TypeOK' /\ Homes'
  BY <1>1 DEF IInv, TypeOK, Homes, Pcs
<1>3. Trees' /\ WorkspaceHasTree' /\ DeletedTreeIsGone'
  BY <1>1 DEF IInv, Trees, WorkspaceHasTree, DeletedTreeIsGone
<1>4. Calls'
  <2>1. status[w] = "absent" /\ (\A q \in Paths : tree[q] # w) /\ \A e \in Callers : call[e].ws # w
    BY <1>1 DEF Fresh
  <2>2. call'[c] = [pc |-> "insertLocal", ws |-> w, path |-> p, force |-> FALSE]
    BY <1>1 DEF IInv, TypeOK
  <2>3. \A e \in Callers : e # c => call'[e] = call[e]
    BY <1>1 DEF IInv, TypeOK
  <2>4. AddsRow(c)'
    BY <1>1, <2>1, <2>2, <2>3 DEF AddsRow, Inserting, NoTree
  <2>5. Knows(c)'
    BY <2>2, <2>4 DEF Knows, At, Deleting
  <2>6. ASSUME NEW d \in Callers, d # c PROVE Knows(d)'
    BY <1>1, <2>1, <2>2, <2>3, <2>6, KnowsStill
  <2> QED  BY <2>5, <2>6 DEF Calls
<1> QED  BY <1>2, <1>3, <1>4 DEF IInv

LEMMA EnsureInsertInv ==
    ASSUME IInv, NEW c \in Callers, EnsureInsert(c)
    PROVE  IInv'
<1> USE DEF diskVars, rowVars, sessionVars
<1> DEFINE w == call[c].ws
           p == call[c].path
           k == IF At(c, "insertLocal") THEN "local" ELSE "worktree"
<1>1. /\ At(c, "insertWorktree") \/ At(c, "insertLocal")
      /\ status' = [status EXCEPT ![w] = "ready"] /\ kind' = [kind EXCEPT ![w] = k]
      /\ path' = [path EXCEPT ![w] = p] /\ call' = [call EXCEPT ![c] = Idle]
      /\ UNCHANGED <<diskVars, sessionVars, crashes>>
  BY DEF EnsureInsert, Return
<1>2. Inserting(c)
  BY <1>1 DEF IInv, Calls, Knows, AddsTree, AddsRow
<1>3. w \in Workspaces /\ p \in Paths /\ status[w] = "absent"
  BY <1>2 DEF Inserting
<1>4. TypeOK' /\ Homes'
  BY <1>1, <1>3 DEF IInv, TypeOK, Homes, Pcs, Idle
<1>5. \A v \in Workspaces :
        /\ status'[v] = IF v = w THEN "ready" ELSE status[v]
        /\ kind'[v] = IF v = w THEN k ELSE kind[v]
        /\ path'[v] = IF v = w THEN p ELSE path[v]
  BY <1>1, <1>3 DEF IInv, TypeOK
<1>6. IF At(c, "insertLocal") THEN NoTree(w) ELSE AddsTree(c)
  BY <1>1 DEF IInv, Calls, Knows, AddsRow
<1>7. Trees' /\ WorkspaceHasTree' /\ DeletedTreeIsGone'
  BY <1>1, <1>5, <1>6 DEF IInv, Trees, WorkspaceHasTree, DeletedTreeIsGone, NoTree, AddsTree
<1>8. Calls'
  <2>1. call'[c] = Idle /\ \A e \in Callers : e # c => call'[e] = call[e]
    BY <1>1 DEF IInv, TypeOK
  <2>2. Knows(c)'
    BY <2>1 DEF Knows, At, Deleting, Idle
  <2>3. ASSUME NEW d \in Callers, d # c PROVE Knows(d)'
    <3>1. call[d].ws # w
      BY <1>2, <2>3 DEF Inserting
    <3>2. Inserting(d) => call[d].ws # None
      BY WorkspaceAssumption DEF Inserting
    <3> QED  BY <1>1, <1>5, <2>1, <2>3, <3>1, <3>2, KnowsStill DEF Idle
  <2> QED  BY <2>2, <2>3 DEF Calls
<1> QED  BY <1>4, <1>7, <1>8 DEF IInv

\* A step of one call that changes neither rows nor disk.
LEMMA CallMoves ==
    ASSUME IInv, NEW c \in Callers, NEW new, call' = [call EXCEPT ![c] = new],
           UNCHANGED <<diskVars, rowVars>>,
           new.ws \in Workspaces => status[new.ws] # "absent",
           new.ws \in Workspaces \cup {None},
           Knows(c)'
    PROVE  Trees' /\ Calls' /\ WorkspaceHasTree' /\ DeletedTreeIsGone'
<1> USE DEF diskVars, rowVars
<1>1. Trees' /\ WorkspaceHasTree' /\ DeletedTreeIsGone'
  BY DEF IInv, Trees, WorkspaceHasTree, DeletedTreeIsGone
<1>2. call'[c] = new /\ \A e \in Callers : e # c => call'[e] = call[e]
  BY DEF IInv, TypeOK
<1>3. ASSUME NEW d \in Callers, d # c PROVE Knows(d)'
  <2>1. Inserting(d) => call[d].ws # new.ws
    BY WorkspaceAssumption DEF Inserting
  <2> QED  BY <1>2, <1>3, <2>1, KnowsStill
<1> QED  BY <1>1, <1>3 DEF Calls

LEMMA CreateInv ==
    ASSUME IInv, NEW c \in Callers, CreateInsert(c) \/ \E w \in Workspaces : CreateInWorkspace(c, w)
    PROVE  IInv'
<1> USE DEF sessionVars
<1>1. CASE CreateInsert(c)
  <2>1. OnRow(c) /\ UNCHANGED <<diskVars, rowVars>> /\ call' = [call EXCEPT ![c] = Idle]
    BY <1>1 DEF CreateInsert, IInv, Calls, Knows, Return
  <2>2. TypeOK' /\ Homes'
    BY <1>1, <2>1 DEF CreateInsert, IInv, TypeOK, Homes, OnRow, Idle, Pcs, diskVars, rowVars
  <2>3. Knows(c)'
    <3>1. call'[c] = Idle
      BY <2>1 DEF IInv, TypeOK
    <3> QED  BY <3>1 DEF Knows, At, Deleting, Idle
  <2>4. Trees' /\ Calls' /\ WorkspaceHasTree' /\ DeletedTreeIsGone'
    BY <2>1, <2>3, CallMoves, WorkspaceAssumption DEF Idle
  <2> QED  BY <2>2, <2>4 DEF IInv
<1>2. ASSUME NEW w \in Workspaces, CreateInWorkspace(c, w) PROVE IInv'
  <2> DEFINE new == [Idle EXCEPT !.pc = "insertSession", !.ws = w]
  <2>1. /\ status[w] # "absent" /\ UNCHANGED <<diskVars, rowVars, sessionVars, crashes>>
        /\ call' = [call EXCEPT ![c] = new]
    BY <1>2 DEF CreateInWorkspace
  <2>5. new \in CallRecords /\ new.pc = "insertSession" /\ new.ws = w
    BY IdleType DEF CallRecords, Pcs
  <2> HIDE DEF new
  <2>2. TypeOK' /\ Homes'
    BY <2>1, <2>5 DEF CallRecords, IInv, TypeOK, Homes, diskVars, rowVars
  <2>3. Knows(c)'
    <3>1. call'[c] = new
      BY <2>1 DEF IInv, TypeOK
    <3> QED  BY <2>1, <2>5, <3>1 DEF Knows, At, Deleting, OnRow, rowVars
  <2>4. Trees' /\ Calls' /\ WorkspaceHasTree' /\ DeletedTreeIsGone'
    BY <2>1, <2>3, <2>5, CallMoves
  <2> QED  BY <2>2, <2>4 DEF IInv
<1> QED  BY <1>1, <1>2

LEMMA DeleteBeginInv ==
    ASSUME IInv, NEW c \in Callers, NEW w \in Workspaces, NEW force \in BOOLEAN,
           DeleteBegin(c, w, force)
    PROVE  IInv'
<1> USE DEF sessionVars
<1> DEFINE new == [Idle EXCEPT !.pc = "check", !.ws = w, !.path = path[w], !.force = force]
<1>1. /\ status[w] # "absent" /\ UNCHANGED <<diskVars, rowVars, sessionVars, crashes>>
      /\ call' = [call EXCEPT ![c] = new]
  BY DEF DeleteBegin
<1>5. new \in CallRecords /\ new.pc = "check" /\ new.ws = w /\ new.path = path[w]
  BY IdleType DEF CallRecords, Pcs, Deleting, IInv, TypeOK
<1> HIDE DEF new
<1>2. TypeOK' /\ Homes'
  BY <1>1, <1>5 DEF CallRecords, IInv, TypeOK, Homes, diskVars, rowVars
<1>3. Knows(c)'
  <2>1. call'[c] = new
    BY <1>1 DEF IInv, TypeOK
  <2> QED  BY <1>1, <1>5, <2>1 DEF Knows, At, Deletes, OnRow, rowVars
<1>4. Trees' /\ Calls' /\ WorkspaceHasTree' /\ DeletedTreeIsGone'
  BY <1>1, <1>3, <1>5, CallMoves
<1> QED  BY <1>2, <1>4 DEF IInv

\* The checks of a delete, and its failures: the call goes on, or returns.
LEMMA DeleteGoesOn ==
    ASSUME IInv, NEW c \in Callers, call[c].pc \in Deleting,
           UNCHANGED <<diskVars, rowVars, sessionVars, crashes>>,
           NEW pc \in Deleting, pc = "store" => NoTree(call[c].ws),
           Go(c, pc) \/ Return(c)
    PROVE  IInv'
<1> USE DEF sessionVars
<1> DEFINE old == call[c]
           new == [old EXCEPT !.pc = pc]
<1>1. Deletes(c)
  BY DEF IInv, Calls, Knows
<1>2. CASE Go(c, pc)
  <2>1. call' = [call EXCEPT ![c] = new]
    BY <1>2 DEF Go, IInv, TypeOK
  <2>2. old \in CallRecords
    BY DEF CallRecords, IInv, TypeOK
  <2>3. new.pc = pc /\ new.ws = old.ws /\ new.path = old.path
    BY <2>2 DEF CallRecords
  <2>4. new \in CallRecords
    BY <2>2 DEF CallRecords, Pcs
  <2>5. call'[c] = new
    BY <2>1 DEF IInv, TypeOK
  <2> HIDE DEF new
  <2>6. TypeOK' /\ Homes'
    BY <2>1, <2>4 DEF CallRecords, IInv, TypeOK, Homes, diskVars, rowVars
  <2>7. Knows(c)'
    BY <1>1, <2>3, <2>5 DEF Knows, At, Deletes, OnRow, Deleting, NoTree, diskVars, rowVars
  <2>8. new.ws \in Workspaces /\ status[new.ws] # "absent"
    BY <1>1, <2>3 DEF Deletes, OnRow
  <2>9. Trees' /\ Calls' /\ WorkspaceHasTree' /\ DeletedTreeIsGone'
    BY <2>1, <2>7, <2>8, CallMoves
  <2> QED  BY <2>6, <2>9 DEF IInv
<1>3. CASE Return(c)
  <2>1. call' = [call EXCEPT ![c] = Idle]
    BY <1>3 DEF Return
  <2>2. TypeOK' /\ Homes'
    BY <2>1 DEF IInv, TypeOK, Homes, Idle, Pcs, diskVars, rowVars
  <2>3. call'[c] = Idle
    BY <2>1 DEF IInv, TypeOK
  <2>4. Knows(c)'
    BY <2>3 DEF Knows, At, Deleting, Idle
  <2>5. Trees' /\ Calls' /\ WorkspaceHasTree' /\ DeletedTreeIsGone'
    BY <2>1, <2>4, CallMoves, WorkspaceAssumption DEF Idle
  <2> QED  BY <2>2, <2>5 DEF IInv
<1> QED  BY <1>2, <1>3

LEMMA DeleteCheckInv ==
    ASSUME IInv, NEW c \in Callers, DeleteCheck(c) \/ DeleteLook(c)
    PROVE  IInv'
<1>1. /\ call[c].pc \in Deleting /\ UNCHANGED <<diskVars, rowVars, sessionVars, crashes>>
  BY DEF DeleteCheck, DeleteLook, At, Deleting
<1>2. ASSUME Go(c, "look") \/ Return(c) PROVE IInv'
  BY <1>1, <1>2, DeleteGoesOn DEF Deleting
<1>3. ASSUME Go(c, "remove") PROVE IInv'
  BY <1>1, <1>3, DeleteGoesOn DEF Deleting
<1>4. ASSUME Go(c, "store"), tree[call[c].path] = None PROVE IInv'
  <2>1. Deletes(c)
    BY <1>1 DEF IInv, Calls, Knows
  <2>2. NoTree(call[c].ws)
    BY <1>4, <2>1, WorkspaceAssumption DEF IInv, Trees, Deletes, OnRow, NoTree
  <2> QED  BY <1>1, <1>4, <2>2, DeleteGoesOn DEF Deleting
<1>5. CASE DeleteCheck(c)
  BY <1>2, <1>5 DEF DeleteCheck
<1>6. CASE DeleteLook(c)
  BY <1>2, <1>3, <1>4, <1>6 DEF DeleteLook
<1> QED  BY <1>5, <1>6

LEMMA DeleteRemoveInv ==
    ASSUME IInv, NEW c \in Callers, DeleteRemove(c)
    PROVE  IInv'
<1> USE DEF sessionVars, rowVars
<1> DEFINE w == call[c].ws
           p == call[c].path
<1>1. At(c, "remove") /\ UNCHANGED <<rowVars, sessionVars, crashes>>
  BY DEF DeleteRemove
<1>2. Deletes(c)
  BY <1>1 DEF IInv, Calls, Knows, At, Deleting
<1>3. w \in Workspaces /\ status[w] # "absent" /\ p = path[w] /\ p \in Paths
  BY <1>2 DEF Deletes, OnRow, IInv, TypeOK
<1>4. CASE UNCHANGED diskVars /\ Fail(c)
  <2>1. Go(c, "check") \/ Return(c)
    BY <1>4 DEF Fail
  <2> QED  BY <1>1, <1>4, <2>1, DeleteGoesOn DEF Deleting, At
<1>5. CASE Go(c, "store") /\ RemoveTree(p)
  <2> DEFINE new == [call[c] EXCEPT !.pc = "store"]
  <2>1. call' = [call EXCEPT ![c] = new] /\ call[c] \in CallRecords
    BY <1>5 DEF Go, IInv, TypeOK, CallRecords
  <2>2. new \in CallRecords /\ new.pc = "store" /\ new.ws = w /\ new.path = p
    BY <2>1 DEF CallRecords, Pcs, Deleting
  <2> HIDE DEF new
  <2>3. call'[c] = new /\ \A e \in Callers : e # c => call'[e] = call[e]
    BY <2>1 DEF IInv, TypeOK
  <2>4. TypeOK' /\ Homes'
    BY <1>1, <1>3, <1>5, <2>1, <2>2 DEF RemoveTree, IInv, TypeOK, Homes, CallRecords
  <2>5. /\ \A q \in Paths : tree'[q] = IF q = p THEN None ELSE tree[q]
        /\ removed' = removed \cup {p}
    BY <1>3, <1>5 DEF RemoveTree, IInv, TypeOK
  <2>6. Trees' /\ DeletedTreeIsGone'
    BY <1>1, <2>5, WorkspaceAssumption DEF IInv, Trees, DeletedTreeIsGone
  <2>7. WorkspaceHasTree'
    <3>1. \A v \in Workspaces : status[v] # "absent" => path[v] \in Paths
      BY DEF IInv, TypeOK
    <3> QED  BY <1>1, <2>5, <3>1 DEF IInv, WorkspaceHasTree
  <2>8. \A q \in Paths : tree'[q] # w
    BY <1>3, <2>5, WorkspaceAssumption DEF IInv, Trees, NoTree
  <2>9. Knows(c)'
    BY <1>1, <1>3, <2>2, <2>3, <2>8 DEF Knows, At, Deleting, Deletes, OnRow, NoTree
  <2>10. ASSUME NEW d \in Callers, d # c PROVE Knows(d)'
    <3>1. Inserting(d) => call[d].ws # w
      BY <1>3 DEF Inserting
    <3>2. \A q \in Paths : tree'[q] \in Workspaces => tree'[q] = tree[q]
      BY <2>5, WorkspaceAssumption
    <3> QED  BY <1>1, <2>2, <2>3, <2>5, <2>10, <3>1, <3>2, KnowsStill
  <2>11. Calls'
    BY <2>9, <2>10 DEF Calls
  <2> QED  BY <2>4, <2>6, <2>7, <2>11 DEF IInv
<1> QED  BY <1>4, <1>5 DEF DeleteRemove

\* A row's status is set; it had one.
LEMMA StatusSet ==
    ASSUME IInv, NEW w \in Workspaces, status[w] # "absent",
           NEW new \in {"archived", "deleted"}, status' = [status EXCEPT ![w] = new],
           UNCHANGED <<diskVars, kind, path, sessionVars, crashes>>,
           call' = call \/ \E c \in Callers : Return(c),
           new = "deleted" /\ kind[w] = "worktree" => NoTree(w)
    PROVE  IInv'
<1> USE DEF sessionVars, diskVars
<1>1. \A v \in Workspaces : status'[v] = IF v = w THEN new ELSE status[v]
  BY DEF IInv, TypeOK
<1>2. TypeOK' /\ Homes'
  <2>1. call' \in [Callers -> CallRecords]
    BY IdleType DEF IInv, TypeOK, CallRecords, Return
  <2> QED  BY <2>1 DEF IInv, TypeOK, Homes, CallRecords
<1>3. Trees' /\ WorkspaceHasTree' /\ DeletedTreeIsGone'
  BY <1>1 DEF IInv, Trees, WorkspaceHasTree, DeletedTreeIsGone, NoTree
<1>4. ASSUME NEW d \in Callers PROVE Knows(d)'
  <2>1. \A e \in Callers : call'[e] = call[e] \/ call'[e] = Idle
    BY DEF Return, IInv, TypeOK
  <2>2. CASE call'[d] = Idle
    BY <2>2 DEF Knows, At, Deleting, Idle
  <2>3. CASE call'[d] = call[d]
    <3>1. Inserting(d) => call[d].ws # None
      BY WorkspaceAssumption DEF Inserting
    <3> QED  BY <1>1, <2>1, <2>3, <3>1, KnowsStill DEF Idle
  <2> QED  BY <2>1, <2>2, <2>3
<1> QED  BY <1>2, <1>3, <1>4 DEF IInv, Calls

LEMMA CrashInv == IInv /\ CrashAndRestart => IInv'
<1> SUFFICES ASSUME IInv, CrashAndRestart PROVE IInv'
  OBVIOUS
<1> USE DEF diskVars, rowVars
<1>1. /\ UNCHANGED <<diskVars, rowVars, home, bound>> /\ creating' = {} /\ busy' = {}
      /\ \A s \in Sessions : session'[s] = IF s \in busy THEN "open" ELSE session[s]
  BY DEF CrashAndRestart
<1>2. ASSUME NEW c \in Callers
      PROVE  /\ call'[c] \in CallRecords /\ Knows(c)'
             /\ call'[c].ws = call[c].ws \/ call'[c].ws = None
  <2>1. CASE call[c].pc \in Deleting
    <3> DEFINE new == [call[c] EXCEPT !.pc = "check"]
    <3>1. call'[c] = new /\ call[c] \in CallRecords
      BY <2>1 DEF CrashAndRestart, IInv, TypeOK, CallRecords
    <3>2. new \in CallRecords /\ new.pc = "check" /\ new.ws = call[c].ws /\ new.path = call[c].path
      BY <3>1 DEF CallRecords, Pcs, Deleting
    <3> HIDE DEF new
    <3>3. Deletes(c)
      BY <2>1 DEF IInv, Calls, Knows
    <3> QED  BY <1>1, <3>1, <3>2, <3>3 DEF Knows, At, Deletes, OnRow
  <2>2. CASE call[c].pc \notin Deleting
    <3>1. call'[c] = Idle
      BY <2>2 DEF CrashAndRestart
    <3> QED  BY <3>1 DEF Knows, At, Deleting, Idle, CallRecords, Pcs
  <2> QED  BY <2>1, <2>2
<1>3. Calls'
  BY <1>2 DEF Calls
<1>4. TypeOK'
  <2>1. call' \in [Callers -> CallRecords]
    BY <1>2 DEF CrashAndRestart
  <2>2. crashes' \in 0 .. MaxCrashes
    BY WorkspaceAssumption DEF CrashAndRestart, IInv, TypeOK
  <2>3. /\ session' \in [Sessions -> {"absent", "pending", "open", "failed", "closed"}]
        /\ \A s \in Sessions : session'[s] # "absent" => session[s] # "absent"
    BY <1>1 DEF CrashAndRestart, IInv, TypeOK, Homes
  <2> QED  BY <1>1, <2>1, <2>2, <2>3 DEF IInv, TypeOK, CallRecords
<1>5. Homes'
  BY <1>1 DEF IInv, Homes, TypeOK
<1>6. Trees' /\ WorkspaceHasTree' /\ DeletedTreeIsGone'
  BY <1>1 DEF IInv, Trees, WorkspaceHasTree, DeletedTreeIsGone
<1> QED  BY <1>3, <1>4, <1>5, <1>6 DEF IInv

LEMMA Invariance == Spec => []IInv
<1>1. IInv /\ [Next]_vars => IInv'
  <2> SUFFICES ASSUME IInv, [Next]_vars PROVE IInv'
    OBVIOUS
  <2>1. ASSUME NEW c \in Callers, Step(c) PROVE IInv'
    <3>1. CASE DeleteStore(c)
      <4>1. At(c, "store") /\ Deletes(c)
        BY <3>1 DEF DeleteStore, IInv, Calls, Knows, At, Deleting
      <4> QED  BY <3>1, <4>1, StatusSet DEF DeleteStore, Deletes, OnRow
    <3> QED  BY <2>1, <3>1, EnsureInsertInv, CreateInv, DeleteCheckInv, DeleteRemoveInv DEF Step
  <2>2. ASSUME NEW w \in Workspaces, Archive(w) PROVE IInv'
    BY <2>2, StatusSet DEF Archive
  <2>3. CASE UNCHANGED vars
    <3>1. UNCHANGED <<diskVars, rowVars, sessionVars, call, crashes>>
      BY <2>3 DEF vars
    <3>2. TypeOK' /\ Homes'
      BY <3>1 DEF IInv, TypeOK, Homes, diskVars, rowVars, sessionVars
    <3> QED  BY <3>1, <3>2, SessionsApart DEF IInv, diskVars
  <2> QED  BY <2>1, <2>2, <2>3, EnsureWorktreeInv, EnsureLocalPathInv, CreateInv, DeleteBeginInv,
              SessionInv, CrashInv DEF Next
<1> QED  BY InitInv, <1>1, PTL DEF Spec

\* A row that exists has a path, a session that exists a workspace, and a
\* running turn a session that is bound.
THEOREM TypeCorrect == Spec => []TypeOK
<1>1. IInv => TypeOK
  BY DEF IInv
<1> QED  BY <1>1, Invariance, PTL

\* Whatever calls, turns and crashes come between git and the store, the row
\* of a worktree is never there before the worktree, nor after it unless git
\* removed what was at its path.
THEOREM RowsHaveTrees == Spec => []WorkspaceHasTree
<1>1. IInv => WorkspaceHasTree
  BY DEF IInv
<1> QED  BY <1>1, Invariance, PTL

\* A delete that is stored has been done: no directory is left of a worktree
\* whose row says "deleted".
THEOREM DeletesAreDone == Spec => []DeletedTreeIsGone
<1>1. IInv => DeletedTreeIsGone
  BY DEF IInv
<1> QED  BY <1>1, Invariance, PTL
=============================================================================
