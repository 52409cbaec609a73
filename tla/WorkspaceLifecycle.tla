------------------------- MODULE WorkspaceLifecycle -------------------------
(***************************************************************************)
(* Local workspaces: their rows, the directories behind them, the sessions  *)
(* that work in them, and the calls that create and delete them.  A git     *)
(* worktree is added before its row exists and removed before its row says  *)
(* so, and the broker awaits git in between; other calls, the ends of       *)
(* running turns, and crashes fall into each of these gaps.                 *)
(*                                                                         *)
(* Sessions are kept as far as the delete guard tells them apart; their     *)
(* life is TurnLifecycle.  A workspace without a path (backend_default) has *)
(* nothing to delete and is left out.  dispose is archive by another name.  *)
(***************************************************************************)
EXTENDS Naturals, FiniteSets

CONSTANTS
    Workspaces,   \* workspace ids, each used for one row at most
    Paths,        \* the paths callers name, directly or by a branch
    UserPaths,    \* those where the user has a directory of his own
    Sessions,
    Callers,      \* foreground calls that may run at the same time
    MaxCrashes,   \* bound: crashes of the broker
    None, User    \* no directory or workspace; the user's directory

ASSUME WorkspaceAssumption ==
    /\ UserPaths \subseteq Paths
    /\ None \notin Workspaces \cup Paths /\ User \notin Workspaces /\ None # User
    /\ MaxCrashes \in Nat

VARIABLES
    \* on disk
    tree,      \* tree[p]: None, User, or the workspace the worktree was added for
    dirty,     \* paths of worktrees with changes that git would lose
    removed,   \* paths whose worktree git has removed (history)
    \* rows
    status,    \* status[w], "absent" before the row is inserted
    kind,      \* kind[w]: "worktree" (the row has repo metadata) or "local"
    path,      \* path[w]
    session,   \* session[s]: status, "open" for any that is at work or ready to
    home,      \* home[s]: workspace_id of the session's row
    bound,     \* sessions that have a backend session id
    \* the running broker
    creating,  \* sessions whose creation awaits the backend
    busy,      \* sessions with a running turn
    call,      \* call[c]: where c's call is, and what it holds
    crashes

diskVars == <<tree, dirty, removed>>
rowVars == <<status, kind, path>>
sessionVars == <<session, home, bound, creating, busy>>
vars == <<diskVars, rowVars, sessionVars, call, crashes>>

Idle == [pc |-> "idle", ws |-> None, path |-> None, force |-> FALSE]

Init ==
    /\ tree = [p \in Paths |-> IF p \in UserPaths THEN User ELSE None]
    /\ dirty = {} /\ removed = {}
    /\ status = [w \in Workspaces |-> "absent"]
    /\ kind = [w \in Workspaces |-> "local"]
    /\ path = [w \in Workspaces |-> None]
    /\ session = [s \in Sessions |-> "absent"]
    /\ home = [s \in Sessions |-> None]
    /\ bound = {} /\ creating = {} /\ busy = {}
    /\ call = [c \in Callers |-> Idle]
    /\ crashes = 0

At(c, pc) == call[c].pc = pc
Go(c, pc) == call' = [call EXCEPT ![c].pc = pc]
Return(c) == call' = [call EXCEPT ![c] = Idle]

\* An id that new_id could return next.
Fresh(w) ==
    /\ status[w] = "absent"
    /\ \A p \in Paths : tree[p] # w
    /\ \A c \in Callers : call[c].ws # w
-----------------------------------------------------------------------------
(* ensure_workspace.  create_session on a new workspace calls it first, and *)
(* goes on as on an existing one.                                           *)

\* Mutant: the exit status of git worktree add is not looked at.
EnsureWorktreeAnyway(c, p) ==
    /\ At(c, "idle")
    /\ \E w \in Workspaces :
         /\ Fresh(w)
         /\ tree' = [tree EXCEPT ![p] = IF @ = None THEN w ELSE @]
         /\ call' = [call EXCEPT ![c] =
                        [Idle EXCEPT !.pc = "insertWorktree", !.ws = w, !.path = p]]
    /\ UNCHANGED <<dirty, removed, rowVars, sessionVars, crashes>>

(* git worktree add, which fails and changes nothing if the path is taken.  *)
EnsureWorktree(c, p) ==
    /\ At(c, "idle")
    /\ tree[p] = None
    /\ \E w \in Workspaces :
         /\ Fresh(w)
         /\ tree' = [tree EXCEPT ![p] = w]
         /\ call' = [call EXCEPT ![c] =
                        [Idle EXCEPT !.pc = "insertWorktree", !.ws = w, !.path = p]]
    /\ UNCHANGED <<dirty, removed, rowVars, sessionVars, crashes>>

(* A local path only has to exist, whosever it is.                          *)
EnsureLocalPath(c, p) ==
    /\ At(c, "idle")
    /\ tree[p] # None
    /\ \E w \in Workspaces :
         /\ Fresh(w)
         /\ call' = [call EXCEPT ![c] =
                        [Idle EXCEPT !.pc = "insertLocal", !.ws = w, !.path = p]]
    /\ UNCHANGED <<diskVars, rowVars, sessionVars, crashes>>

(* insert_workspace, and the workspace.ready event.                         *)
EnsureInsert(c) ==
    /\ At(c, "insertWorktree") \/ At(c, "insertLocal")
    /\ status' = [status EXCEPT ![call[c].ws] = "ready"]
    /\ kind' = [kind EXCEPT ![call[c].ws] = IF At(c, "insertLocal") THEN "local" ELSE "worktree"]
    /\ path' = [path EXCEPT ![call[c].ws] = call[c].path]
    /\ Return(c)
    /\ UNCHANGED <<diskVars, sessionVars, crashes>>

(* create_session on an existing workspace: its status is not looked at.    *)
CreateInWorkspace(c, w) ==
    /\ At(c, "idle")
    /\ status[w] # "absent"
    /\ call' = [call EXCEPT ![c] = [Idle EXCEPT !.pc = "insertSession", !.ws = w]]
    /\ UNCHANGED <<diskVars, rowVars, sessionVars, crashes>>

(* insert_session, then the backend is awaited.  All that the call still    *)
(* holds is the session, so it ends here for the caller's next call.        *)
CreateInsert(c) ==
    /\ At(c, "insertSession")
    /\ \E s \in Sessions :
         /\ session[s] = "absent"
         /\ session' = [session EXCEPT ![s] = "pending"]
         /\ home' = [home EXCEPT ![s] = call[c].ws]
         /\ creating' = creating \cup {s}
    /\ Return(c)
    /\ UNCHANGED <<diskVars, rowVars, bound, busy, crashes>>
-----------------------------------------------------------------------------
(* The life of a session, as far as its status tells the guard.             *)

(* The backend has created it, whatever became of the row meanwhile; or it  *)
(* has failed, and the row stays as it is.                                  *)
SessionBound(s) ==
    /\ s \in creating
    /\ session' = [session EXCEPT ![s] = "open"]
    /\ bound' = bound \cup {s}
    /\ creating' = creating \ {s}
    /\ UNCHANGED <<diskVars, rowVars, home, busy, call, crashes>>

CreationFails(s) ==
    /\ s \in creating
    /\ creating' = creating \ {s}
    /\ UNCHANGED <<diskVars, rowVars, session, home, bound, busy, call, crashes>>

SendMessage(s) ==
    /\ s \in bound /\ s \notin busy
    /\ session' = [session EXCEPT ![s] = "open"]
    /\ busy' = busy \cup {s}
    /\ UNCHANGED <<diskVars, rowVars, home, bound, creating, call, crashes>>

(* A running turn changes files of the directory it works in.               *)
TurnWorks(s) ==
    /\ s \in busy
    /\ LET p == path[home[s]] IN tree[p] \notin {None, User} /\ dirty' = dirty \cup {p}
    /\ UNCHANGED <<tree, removed, rowVars, sessionVars, call, crashes>>

(* The turn's last write to the session, closed meanwhile or not.           *)
TurnEnds(s) ==
    /\ s \in busy
    /\ \E after \in {"open", "failed"} : session' = [session EXCEPT ![s] = after]
    /\ busy' = busy \ {s}
    /\ UNCHANGED <<diskVars, rowVars, home, bound, creating, call, crashes>>

CloseSession(s) ==
    /\ session[s] # "absent"
    /\ session' = [session EXCEPT ![s] = "closed"]
    /\ UNCHANGED <<diskVars, rowVars, home, bound, creating, busy, call, crashes>>

SessionStep(s) ==
    \/ SessionBound(s) \/ CreationFails(s)
    \/ SendMessage(s) \/ TurnWorks(s) \/ TurnEnds(s) \/ CloseSession(s)
-----------------------------------------------------------------------------
(* close_resource on a workspace.                                           *)

\* active_session_count_for_workspace
ActiveIn(w) == {s \in Sessions : home[s] = w /\ session[s] \in {"pending", "open"}}

Archive(w) ==
    /\ status[w] # "absent"
    /\ status' = [status EXCEPT ![w] = "archived"]
    /\ UNCHANGED <<diskVars, kind, path, sessionVars, call, crashes>>

(* An error is returned.  A foreground that forces a delete repeats it      *)
(* until it is answered.                                                    *)
Fail(c) == IF call[c].force THEN Go(c, "check") ELSE Return(c)

DeleteBegin(c, w, force) ==
    /\ At(c, "idle")
    /\ status[w] # "absent"
    /\ call' = [call EXCEPT ![c] = [Idle EXCEPT !.pc = "check", !.ws = w,
                                                !.path = path[w], !.force = force]]
    /\ UNCHANGED <<diskVars, rowVars, sessionVars, crashes>>

DeleteCheck(c) ==
    /\ At(c, "check")
    /\ IF ActiveIn(call[c].ws) = {} \/ call[c].force THEN Go(c, "look") ELSE Return(c)
    /\ UNCHANGED <<diskVars, rowVars, sessionVars, crashes>>

\* Mutant: a path that is not there is an error.
DeleteLookStrict(c) ==
    /\ At(c, "look")
    /\ IF tree[call[c].path] # None /\ kind[call[c].ws] = "worktree"
       THEN Go(c, "remove")
       ELSE Fail(c)
    /\ UNCHANGED <<diskVars, rowVars, sessionVars, crashes>>

(* close_workspace: an absent path is fine, a directory is refused for good *)
(* unless the row has the metadata of a git worktree.                       *)
DeleteLook(c) ==
    /\ At(c, "look")
    /\ CASE tree[call[c].path] = None -> Go(c, "store")
         [] tree[call[c].path] # None /\ kind[call[c].ws] = "worktree" -> Go(c, "remove")
         [] OTHER -> Return(c)
    /\ UNCHANGED <<diskVars, rowVars, sessionVars, crashes>>

\* What git worktree remove refuses: no worktree, or changes and no --force.
GitRefuses(p, force) == tree[p] \in {None, User} \/ (p \in dirty /\ ~force)

RemoveTree(p) ==
    /\ tree' = [tree EXCEPT ![p] = None]
    /\ dirty' = dirty \ {p}
    /\ removed' = removed \cup {p}

\* Mutant: the exit status of git worktree remove is not looked at.
DeleteRemoveAnyway(c) ==
    /\ At(c, "remove")
    /\ IF GitRefuses(call[c].path, call[c].force)
       THEN UNCHANGED diskVars
       ELSE RemoveTree(call[c].path)
    /\ Go(c, "store")
    /\ UNCHANGED <<rowVars, sessionVars, crashes>>

DeleteRemove(c) ==
    /\ At(c, "remove")
    /\ IF GitRefuses(call[c].path, call[c].force)
       THEN Fail(c) /\ UNCHANGED diskVars
       ELSE Go(c, "store") /\ RemoveTree(call[c].path)
    /\ UNCHANGED <<rowVars, sessionVars, crashes>>

(* The row's status, and the workspace.closed event.                        *)
DeleteStore(c) ==
    /\ At(c, "store")
    /\ status' = [status EXCEPT ![call[c].ws] = "deleted"]
    /\ Return(c)
    /\ UNCHANGED <<diskVars, kind, path, sessionVars, crashes>>

Step(c) ==
    \/ EnsureInsert(c) \/ CreateInsert(c)
    \/ DeleteCheck(c) \/ DeleteLook(c) \/ DeleteRemove(c) \/ DeleteStore(c)

(* The broker stops and starts.  Start-up makes the sessions of running     *)
(* turns idle.  A foreground whose delete was not answered repeats it; one  *)
(* whose creation was not does not know what to repeat.                     *)
Deleting == {"check", "look", "remove", "store"}

CrashAndRestart ==
    /\ crashes < MaxCrashes
    /\ crashes' = crashes + 1
    /\ call' = [c \in Callers |->
                  IF call[c].pc \in Deleting THEN [call[c] EXCEPT !.pc = "check"] ELSE Idle]
    /\ session' = [s \in Sessions |-> IF s \in busy THEN "open" ELSE session[s]]
    /\ creating' = {} /\ busy' = {}
    /\ UNCHANGED <<diskVars, rowVars, home, bound>>

Next ==
    \/ \E c \in Callers :
         \/ Step(c)
         \/ \E p \in Paths : EnsureWorktree(c, p) \/ EnsureLocalPath(c, p)
         \/ \E w \in Workspaces :
              CreateInWorkspace(c, w) \/ \E force \in BOOLEAN : DeleteBegin(c, w, force)
    \/ \E w \in Workspaces : Archive(w)
    \/ \E s \in Sessions : SessionStep(s)
    \/ CrashAndRestart

(* A call that was begun goes on; git returns.  Nobody has to begin one.    *)
Spec == Init /\ [][Next]_vars /\ \A c \in Callers : WF_vars(Step(c))
-----------------------------------------------------------------------------
Pcs == Deleting \cup {"idle", "insertWorktree", "insertLocal", "insertSession"}

TypeOK ==
    /\ tree \in [Paths -> Workspaces \cup {None, User}]
    /\ dirty \subseteq Paths /\ removed \subseteq Paths
    /\ status \in [Workspaces -> {"absent", "ready", "archived", "deleted"}]
    /\ kind \in [Workspaces -> {"worktree", "local"}]
    /\ path \in [Workspaces -> Paths \cup {None}]
    /\ \A w \in Workspaces : status[w] # "absent" => path[w] \in Paths
    /\ session \in [Sessions -> {"absent", "pending", "open", "failed", "closed"}]
    /\ home \in [Sessions -> Workspaces \cup {None}]
    /\ creating \subseteq Sessions /\ bound \subseteq Sessions /\ busy \subseteq bound
    /\ \A s \in Sessions : session[s] # "absent" => status[home[s]] # "absent"
    /\ call \in [Callers -> [pc : Pcs, ws : Workspaces \cup {None}, path : Paths \cup {None},
                            force : BOOLEAN]]
    /\ crashes \in 0 .. MaxCrashes

(* A worktree's row is never ahead of the disk: unless git has removed it   *)
(* for somebody, the directory at its path is the one added for it,         *)
(* whichever calls and crashes there were.                                  *)
WorkspaceHasTree ==
    \A w \in Workspaces : status[w] # "absent" /\ kind[w] = "worktree" =>
        tree[path[w]] = w \/ path[w] \in removed

(* ... nor behind it: a worktree that is stored as deleted is gone, however *)
(* often its path was used again since.                                     *)
DeletedTreeIsGone ==
    \A w \in Workspaces : status[w] = "deleted" /\ kind[w] = "worktree" =>
        \A p \in Paths : tree[p] # w

(* "repeated delete is successful": a forced delete of a worktree, repeated *)
(* until it is answered, ends with the directory gone and a row that is no *)
(* longer ready, even if it or another call had removed the directory       *)
(* before.  (An archive may overwrite "deleted".)                           *)
ForcedDeleteConverges ==
    \A c \in Callers, w \in Workspaces :
        (call[c].pc \in Deleting /\ call[c].ws = w /\ call[c].force /\ kind[w] = "worktree")
            ~> (status[w] # "ready" /\ \A p \in Paths : tree[p] # w)

(* "Destructive workspace cleanup cannot proceed while an active session    *)
(* references the workspace unless a force path is tested and allowed": no  *)
(* unforced delete removes a worktree whose workspace has an active session. *)
NoRemovalUnderActiveSession ==
    [][\A c \in Callers :
         At(c, "remove") /\ ~call[c].force =>
            \A w \in Workspaces :
                tree[call[c].path] = w /\ tree'[call[c].path] # w => ActiveIn(w) = {}]_vars
=============================================================================
