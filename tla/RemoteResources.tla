--------------------------- MODULE RemoteResources ---------------------------
(***************************************************************************)
(* The workspaces and sessions that a home broker opens and closes on a     *)
(* remote one: ensure_workspace, create_session and close_resource with a   *)
(* remote target.  A home row is inserted before its link to the remote     *)
(* resource, and what has no link is taken for local.  Replies are lost,    *)
(* calls are retried, and the home broker crashes between its store calls.  *)
(*                                                                         *)
(* Left out: what a remote workspace is made of, and why the remote broker  *)
(* refuses a call (WorkspaceLifecycle); turns (RemoteFederation); requests  *)
(* (RemoteRequests); the home log and the records of a close's operation,   *)
(* which nothing here reads.                                                *)
(***************************************************************************)
EXTENDS Naturals, Sequences, FiniteSets

CONSTANTS
    Callers,     \* foreground calls
    Ops,         \* operation ids of ensure_workspace and create_session
    MaxWorkspaces, MaxSessions,   \* bounds: home rows of each kind
    MaxCrashes, MaxLost,   \* bounds on each kind of event
    NoOp         \* no operation

Workspaces == 1 .. MaxWorkspaces   \* the rows of the home store
Sessions == 1 .. MaxSessions
None == 0                          \* no row, no link

ASSUME ResourcesAssumption ==
    /\ MaxWorkspaces \in Nat /\ MaxSessions \in Nat
    /\ MaxCrashes \in Nat /\ MaxLost \in Nat
    /\ NoOp \notin Ops

VARIABLES
    \* the remote broker
    rws,         \* the statuses of its workspaces
    rse,         \* its sessions: their statuses and operations
    \* the home broker
    ws, wlink,   \* ws[h]: status of the workspace's row; wlink[h]: its link
    se, slink,   \* the same of sessions
    op,          \* op[o]: status of the forwarded operation
    wsApart, seApart,   \* history: rows whose close may pass the remote
                 \* broker by (see ClosedAtBothEnds)
    call,        \* call[c]: where c's call is, and what it holds
    spent        \* how many of each bounded event have happened

remoteVars == <<rws, rse>>
rowVars == <<ws, wlink, se, slink>>
apart == <<wsApart, seApart>>
vars == <<remoteVars, rowVars, op, apart, call, spent>>

(* A call holds its kind and operation, a home workspace, a home session,   *)
(* and the remote resource that it was told of.                             *)
Idle == [pc |-> "idle", kind |-> "none", op |-> NoOp, ws |-> None, se |-> None,
         remote |-> None]

Init ==
    /\ rws = << >> /\ rse = << >>
    /\ ws = [h \in Workspaces |-> "absent"] /\ wlink = [h \in Workspaces |-> None]
    /\ se = [h \in Sessions |-> "absent"] /\ slink = [h \in Sessions |-> None]
    /\ op = [o \in Ops |-> "absent"]
    /\ wsApart = {} /\ seApart = {}
    /\ call = [c \in Callers |-> Idle]
    /\ spent = [crashes |-> 0, lost |-> 0]

At(c, pc) == call[c].pc = pc
Go(c, pc) == call' = [call EXCEPT ![c].pc = pc]
Return(c) == call' = [call EXCEPT ![c] = Idle]
Begin(c, held) == At(c, "idle") /\ call' = [call EXCEPT ![c] = held]

(* A row's id is new: the next one here.                                    *)
Fresh(rows, h) == rows[h] = "absent" /\ \A k \in 1 .. h - 1 : rows[k] # "absent"
-----------------------------------------------------------------------------
(* ensure_remote_workspace, called by a foreground (kind "ensure") or by    *)
(* create_remote_session for the workspace that its request describes       *)
(* (kind "create"), then with an operation id of its own, not kept here.    *)

(* An applied operation is answered from its record.                        *)
EnsureBegin(c, o) ==
    /\ op[o] # "applied" /\ \E h \in Workspaces : ws[h] = "absent"
    /\ Begin(c, [Idle EXCEPT !.pc = "record", !.kind = "ensure", !.op = o])
    /\ UNCHANGED <<remoteVars, rowVars, op, apart, spent>>

(* The remote ensure_workspace.  Its workspace is a new one, so that no     *)
(* link to it exists yet.                                                   *)
RemoteEnsure == rws' = Append(rws, "ready") /\ UNCHANGED rse

EnsureForwarded(c) ==
    /\ At(c, "ensure")
    /\ RemoteEnsure
    /\ call' = [call EXCEPT ![c].pc = "insertWorkspace", ![c].remote = Len(rws) + 1]
    /\ UNCHANGED <<rowVars, op, apart, spent>>

EnsureInsert(c) ==
    /\ At(c, "insertWorkspace")
    /\ \E h \in Workspaces :
         /\ Fresh(ws, h)
         /\ ws' = [ws EXCEPT ![h] = "ready"]
         /\ call' = [call EXCEPT ![c].pc = "linkWorkspace", ![c].ws = h]
    /\ UNCHANGED <<remoteVars, wlink, se, slink, op, apart, spent>>

EnsureLink(c) ==
    /\ At(c, "linkWorkspace")
    /\ wlink' = [wlink EXCEPT ![call[c].ws] = call[c].remote]
    /\ Go(c, IF call[c].kind = "ensure" THEN "applied" ELSE "lookup")
    /\ UNCHANGED <<remoteVars, ws, se, slink, op, apart, spent>>
-----------------------------------------------------------------------------
(* create_remote_session.                                                   *)

(* The request names no workspace, describes a new one ("new"), or names    *)
(* one of the remote host's rows.                                           *)
CreateBegin(c, o) ==
    /\ op[o] # "applied" /\ \E h \in Sessions : se[h] = "absent"
    /\ \/ Begin(c, [Idle EXCEPT !.pc = "record", !.kind = "create", !.op = o])
       \/ /\ \E h \in Workspaces : ws[h] = "absent"
          /\ Begin(c, [Idle EXCEPT !.pc = "record", !.kind = "new", !.op = o])
       \/ \E h \in Workspaces :
            /\ ws[h] # "absent"
            /\ Begin(c, [Idle EXCEPT !.pc = "record", !.kind = "create", !.op = o, !.ws = h])
    /\ UNCHANGED <<remoteVars, rowVars, op, apart, spent>>

(* record_operation_pending, then the workspace first if there is one.      *)
RecordPending(c) ==
    /\ At(c, "record")
    /\ op' = [op EXCEPT ![call[c].op] = "pending"]
    /\ Go(c, IF call[c].kind # "create" THEN "ensure"
             ELSE IF call[c].ws # None THEN "lookup" ELSE "create")
    /\ UNCHANGED <<remoteVars, rowVars, apart, spent>>

(* A workspace without a link is an error.                                  *)
CreateLookup(c) ==
    /\ At(c, "lookup")
    /\ IF wlink[call[c].ws] # None THEN Go(c, "create") ELSE Return(c)
    /\ UNCHANGED <<remoteVars, rowVars, op, apart, spent>>

(* The remote create_session, which does not look at its operation id, ...  *)
RemoteCreate(o) == rse' = Append(rse, [status |-> "idle", op |-> o]) /\ UNCHANGED rws

CreateForwarded(c) ==
    /\ At(c, "create")
    /\ RemoteCreate(call[c].op)
    /\ call' = [call EXCEPT ![c].pc = "detail", ![c].remote = Len(rse) + 1]
    /\ UNCHANGED <<rowVars, op, apart, spent>>

(* ... and the remote get_session, for what the home row copies.            *)
DetailForwarded(c) ==
    /\ At(c, "detail")
    /\ Go(c, "insertSession")
    /\ UNCHANGED <<remoteVars, rowVars, op, apart, spent>>

(* insert_session, then session.created.                                    *)
CreateInsert(c) ==
    /\ At(c, "insertSession")
    /\ \E h \in Sessions :
         /\ Fresh(se, h)
         /\ se' = [se EXCEPT ![h] = "idle"]
         /\ call' = [call EXCEPT ![c].pc = "statusSession", ![c].se = h]
    /\ UNCHANGED <<remoteVars, ws, wlink, slink, op, apart, spent>>

(* The cursor is stored with the status once more, over a close in between. *)
CreateStatus(c) ==
    /\ At(c, "statusSession")
    /\ se' = [se EXCEPT ![call[c].se] = "idle"]
    /\ Go(c, "linkSession")
    /\ UNCHANGED <<remoteVars, ws, wlink, slink, op, apart, spent>>

CreateLink(c) ==
    /\ At(c, "linkSession")
    /\ slink' = [slink EXCEPT ![call[c].se] = call[c].remote]
    /\ Go(c, "applied")
    /\ UNCHANGED <<remoteVars, ws, wlink, se, op, apart, spent>>

\* Mutant: only ensure_workspace records that its operation was applied.
RecordAppliedEnsure(c) ==
    /\ At(c, "applied")
    /\ op' = IF call[c].kind = "ensure" THEN [op EXCEPT ![call[c].op] = "applied"] ELSE op
    /\ Return(c)
    /\ UNCHANGED <<remoteVars, rowVars, apart, spent>>

RecordApplied(c) ==
    /\ At(c, "applied")
    /\ op' = [op EXCEPT ![call[c].op] = "applied"]
    /\ Return(c)
    /\ UNCHANGED <<remoteVars, rowVars, apart, spent>>
-----------------------------------------------------------------------------
(* close_resource, with disposition archive or delete; a delete is forced.  *)
(* The row of a call that has yet to link it is there to be closed.         *)
Linking(c, h) == call[c].pc \in {"statusSession", "linkSession"} /\ call[c].se = h
LinkingWorkspace(c, h) == At(c, "linkWorkspace") /\ call[c].ws = h

CloseSessionBegin(c) ==
    /\ \E h \in Sessions :
         /\ se[h] # "absent"
         /\ Begin(c, [Idle EXCEPT !.kind = "session", !.se = h, !.remote = slink[h],
                                  !.pc = IF slink[h] # None THEN "close" ELSE "storeClosed"])
         /\ seApart' = IF \E d \in Callers : Linking(d, h) THEN seApart \cup {h} ELSE seApart
    /\ UNCHANGED <<remoteVars, rowVars, op, wsApart, spent>>

(* The link is looked for when the target is a workspace_id; a workspace    *)
(* named by its resource_uri takes the local path, link or no link.         *)
CloseWorkspaceBegin(c) ==
    /\ \E h \in Workspaces, uri \in BOOLEAN :
         /\ ws[h] # "absent"
         /\ Begin(c, [Idle EXCEPT !.kind = "workspace", !.ws = h, !.remote = wlink[h],
                                  !.pc = IF wlink[h] # None /\ ~uri THEN "close" ELSE "cleanUp"])
         /\ wsApart' = IF uri \/ \E d \in Callers : LinkingWorkspace(d, h)
                       THEN wsApart \cup {h} ELSE wsApart
    /\ UNCHANGED <<remoteVars, rowVars, op, seApart, spent>>

RemoteClose(kind, r) ==
    IF kind = "session"
    THEN rse' = [rse EXCEPT ![r].status = "closed"] /\ UNCHANGED rws
    ELSE rws' = [rws EXCEPT ![r] = "closed"] /\ UNCHANGED rse

CloseForwarded(c) ==
    /\ At(c, "close")
    /\ RemoteClose(call[c].kind, call[c].remote)
    /\ Go(c, "storeClosed")
    /\ UNCHANGED <<rowVars, op, apart, spent>>

(* LocalHostConnector::close_workspace on the home host and the row's path, *)
(* which was copied from the remote broker: it archives, removes what it    *)
(* finds there or, finding nothing, is content; if git refuses, the error   *)
(* is returned.                                                             *)
CleanUp(c) ==
    /\ At(c, "cleanUp")
    /\ Go(c, "storeClosed") \/ Return(c)
    /\ UNCHANGED <<remoteVars, rowVars, op, apart, spent>>

StoreClosed(c) ==
    /\ At(c, "storeClosed")
    /\ IF call[c].kind = "session"
       THEN se' = [se EXCEPT ![call[c].se] = "closed"] /\ UNCHANGED ws
       ELSE ws' = [ws EXCEPT ![call[c].ws] = "closed"] /\ UNCHANGED se
    /\ Return(c)
    /\ UNCHANGED <<remoteVars, wlink, slink, op, apart, spent>>
-----------------------------------------------------------------------------
(* What a forwarded call does at the remote broker.                         *)
RemoteWork(c) ==
    \/ At(c, "ensure") /\ RemoteEnsure
    \/ At(c, "create") /\ RemoteCreate(call[c].op)
    \/ At(c, "close") /\ RemoteClose(call[c].kind, call[c].remote)

\* Mutant: a close that fails is stored all the same.
FailsClosed(c) ==
    /\ call[c].pc \in {"ensure", "create", "detail", "close"}
    /\ spent.lost < MaxLost
    /\ spent' = [spent EXCEPT !.lost = @ + 1]
    /\ RemoteWork(c) \/ UNCHANGED remoteVars
    /\ IF At(c, "close") THEN Go(c, "storeClosed") ELSE Return(c)
    /\ UNCHANGED <<rowVars, op, apart>>

(* The call fails, before or after the remote broker has done its work, and *)
(* its error is returned.  The operation stays pending.                     *)
Fails(c) ==
    /\ call[c].pc \in {"ensure", "create", "detail", "close"}
    /\ spent.lost < MaxLost
    /\ spent' = [spent EXCEPT !.lost = @ + 1]
    /\ RemoteWork(c) \/ UNCHANGED remoteVars
    /\ Return(c)
    /\ UNCHANGED <<rowVars, op, apart>>

(* The home broker stops between two store calls and starts again.  A       *)
(* remote session has no backend session id and here no turns: start-up     *)
(* does nothing to it.                                                      *)
CrashAndRestart ==
    /\ spent.crashes < MaxCrashes
    /\ spent' = [spent EXCEPT !.crashes = @ + 1]
    /\ call' = [c \in Callers |-> Idle]
    /\ wsApart' = wsApart \cup {h \in Workspaces : \E c \in Callers : LinkingWorkspace(c, h)}
    /\ seApart' = seApart \cup {h \in Sessions : \E c \in Callers : Linking(c, h)}
    /\ UNCHANGED <<remoteVars, rowVars, op>>

Next ==
    \/ \E c \in Callers :
         \/ \E o \in Ops :
              /\ \A d \in Callers : call[d].op # o   \* a retry follows the answer
              /\ EnsureBegin(c, o) \/ CreateBegin(c, o)
         \/ RecordPending(c) \/ EnsureForwarded(c) \/ EnsureInsert(c) \/ EnsureLink(c)
         \/ CreateLookup(c) \/ CreateForwarded(c) \/ DetailForwarded(c)
         \/ CreateInsert(c) \/ CreateStatus(c) \/ CreateLink(c) \/ RecordApplied(c)
         \/ CloseSessionBegin(c) \/ CloseWorkspaceBegin(c) \/ CloseForwarded(c)
         \/ CleanUp(c) \/ StoreClosed(c)
         \/ Fails(c)
    \/ CrashAndRestart

Spec == Init /\ [][Next]_vars
-----------------------------------------------------------------------------
Pcs == {"idle", "record", "ensure", "insertWorkspace", "linkWorkspace", "lookup", "create",
        "detail", "insertSession", "statusSession", "linkSession", "applied", "close", "cleanUp", "storeClosed"}

(* A call that has come this far holds a resource that the remote broker    *)
(* created for it, and no row of the home store is linked to it yet.        *)
HoldsWorkspace(c) == call[c].pc \in {"insertWorkspace", "linkWorkspace"}
HoldsSession(c) ==
    call[c].pc \in {"detail", "insertSession", "statusSession", "linkSession"}

TypeOK ==
    /\ rws \in Seq({"ready", "closed"})
    /\ rse \in Seq([status : {"idle", "closed"}, op : Ops])
    /\ ws \in [Workspaces -> {"absent", "ready", "closed"}]
    /\ se \in [Sessions -> {"absent", "idle", "closed"}]
    /\ wlink \in [Workspaces -> {None} \cup DOMAIN rws]
    /\ slink \in [Sessions -> {None} \cup DOMAIN rse]
    /\ op \in [Ops -> {"absent", "pending", "applied"}]
    /\ wsApart \subseteq Workspaces /\ seApart \subseteq Sessions
    /\ \A c \in Callers :
         /\ call[c].pc \in Pcs
         /\ call[c].kind \in {"none", "ensure", "create", "new", "session", "workspace"}
         /\ call[c].op \in Ops \cup {NoOp}
         /\ call[c].ws \in Workspaces \cup {None} /\ call[c].se \in Sessions \cup {None}
         /\ HoldsWorkspace(c) => call[c].remote \in DOMAIN rws
         /\ HoldsSession(c) => call[c].remote \in DOMAIN rse
    /\ spent \in [crashes : 0 .. MaxCrashes, lost : 0 .. MaxLost]

(* A create_session retried with its operation id, after the answer or      *)
(* after an error, never yields a second session here: at least what the    *)
(* home broker shows is not duplicated, as long as it does not crash.       *)
RetryYieldsOneSession ==
    spent.crashes = 0 =>
        \A h, k \in {r \in Sessions : slink[r] # None} :
            rse[slink[h]].op = rse[slink[k]].op => h = k

(* "resource close forwarding when the local resource has a remote link":   *)
(* what is shown here as closed is linked to a resource that the remote     *)
(* broker has closed, whichever calls fail or overlap.  Three closes pass   *)
(* the remote broker by, and nothing is claimed of their rows (wsApart,     *)
(* seApart): of a workspace named by its resource_uri; of a row that its    *)
(* call has inserted and not yet linked; and of a row that a crash left     *)
(* without a link, which from then on is taken for local.                   *)
ClosedAtBothEnds ==
    /\ \A h \in Sessions \ seApart :
         se[h] = "closed" => slink[h] # None /\ rse[slink[h]].status = "closed"
    /\ \A h \in Workspaces \ wsApart :
         ws[h] = "closed" => wlink[h] # None /\ rws[wlink[h]] = "closed"
=============================================================================
