--------------------------- MODULE RemoteRequests ---------------------------
(***************************************************************************)
(* Requests that a remote agent raises: how the home broker mirrors them    *)
(* from the remote session's log into its own inbox, and how a foreground's *)
(* decision goes back.  The session is linked, its turns too                *)
(* (RemoteFederation mirrors their events and skips requests).              *)
(***************************************************************************)
EXTENDS EventLog

CONSTANTS
    Callers,     \* foreground calls that may run at the same time
    Requests,    \* remote requests
    Parent,      \* [Requests -> {"turn", "session"}]: the parent of its event
    Decisions,   \* what a foreground decides
    PageLimit,   \* the limit of a mirroring read (500)
    MaxRows,     \* bound: home rows
    MaxCrashes, MaxLost,   \* bounds on each kind of event
    None         \* no request

Rows == 1 .. MaxRows

ASSUME RequestsAssumption ==
    /\ Parent \in [Requests -> {"turn", "session"}]
    /\ Decisions \cap {"absent", "pending", "cancel"} = {}
    /\ PageLimit \in Nat \ {0}
    /\ MaxRows \in Nat /\ MaxCrashes \in Nat /\ MaxLost \in Nat
    /\ None \notin Requests

VARIABLES
    rlog,        \* the remote broker's events about requests
    req,         \* req[r]: status of its row, or the decision it holds
    homeRow,     \* homeRow[h]: the same of a home row
    link,        \* link[h]: the remote request that row h is linked to
    remoteCursor,   \* remote_cursor of the session's link
    handler,     \* handler[c]: where c's call is, and what it holds
    unlinked,    \* rows that a decision found without a link (history)
    spent        \* how many of each bounded event have happened

remoteVars == <<rlog, req>>
homeVars == <<homeRow, link, remoteCursor>>
requestVars == <<remoteVars, homeVars, handler, unlinked, spent>>

Idle == [pc |-> "idle", page |-> {}, cursor |-> 0, row |-> 0, decision |-> "none"]

RequestInit ==
    /\ rlog = << >> /\ req = [r \in Requests |-> "absent"]
    /\ homeRow = [h \in Rows |-> "absent"] /\ link = [h \in Rows |-> None]
    /\ remoteCursor = 0 /\ unlinked = {}
    /\ handler = [c \in Callers |-> Idle]
    /\ spent = [crashes |-> 0, lost |-> 0]

At(c, pc) == handler[c].pc = pc
Go(c, pc) == handler' = [handler EXCEPT ![c].pc = pc]
Return(c) == handler' = [handler EXCEPT ![c] = Idle]
Lose == spent.lost < MaxLost /\ spent' = [spent EXCEPT !.lost = @ + 1]
Linked(r) == {h \in Rows : link[h] = r}
-----------------------------------------------------------------------------
(* The remote broker.  A request is a child of the turn that is active in   *)
(* its session, or of the session if none is.                               *)
RemoteAsks(r) ==
    /\ req[r] = "absent"
    /\ req' = [req EXCEPT ![r] = "pending"]
    /\ rlog' = Append(rlog, [resource |-> r, parent |-> Parent[r], type |-> "request.created"])
    /\ UNCHANGED <<homeVars, handler, unlinked, spent>>

(* Its deadline: the row is decided, and no event says so.                  *)
RemoteExpires(r) ==
    /\ req[r] = "pending"
    /\ req' = [req EXCEPT ![r] = "cancel"]
    /\ UNCHANGED <<rlog, homeVars, handler, unlinked, spent>>

(* The remote resolve_request: the first decision stands, the event is      *)
(* logged each time, and the reply carries the row.                         *)
RemoteResolve(r, d) ==
    /\ req' = IF req[r] = "pending" THEN [req EXCEPT ![r] = d] ELSE req
    /\ rlog' = Append(rlog, [resource |-> r, parent |-> "session", type |-> "request.resolved"])
-----------------------------------------------------------------------------
(* sync_remote_session_events, as in RemoteFederation.                      *)

ReadBegin(c) ==
    /\ At(c, "idle")
    /\ handler' = [handler EXCEPT ![c] = [Idle EXCEPT !.pc = "read", !.cursor = remoteCursor]]
    /\ UNCHANGED <<remoteVars, homeVars, unlinked, spent>>

\* Mutant: the cursor is stored with the reply, before its events are mirrored.
ReadAnsweredCursor(c) ==
    /\ At(c, "read")
    /\ LET page == ReadEvents(rlog, "session", handler[c].cursor, PageLimit, {})
           next == {handler[c].cursor} \cup page
       IN \E last \in next :
            /\ \A n \in next : n <= last
            /\ handler' = [handler EXCEPT ![c].pc = "mirror", ![c].page = page,
                                    ![c].cursor = last]
            /\ remoteCursor' = last
    /\ UNCHANGED <<remoteVars, homeRow, link, unlinked, spent>>

ReadAnswered(c) ==
    /\ At(c, "read")
    /\ LET page == ReadEvents(rlog, "session", handler[c].cursor, PageLimit, {})
           next == {handler[c].cursor} \cup page
       IN \E last \in next :
            /\ \A n \in next : n <= last
            /\ handler' = [handler EXCEPT ![c].pc = "mirror", ![c].page = page,
                                    ![c].cursor = last]
    /\ UNCHANGED <<remoteVars, homeVars, unlinked, spent>>

ReadFails(c) ==
    /\ At(c, "read")
    /\ Lose
    /\ Return(c)
    /\ UNCHANGED <<remoteVars, homeVars, unlinked>>

Earliest(page) == CHOOSE n \in page : \A m \in page : n <= m

(* mirror_remote_event: a created request that has no row yet gets one; any *)
(* other event is only copied to the home log.                              *)
MirrorRequest(c) ==
    /\ At(c, "mirror") /\ handler[c].page # {}
    /\ LET n == Earliest(handler[c].page)
       IN IF rlog[n].type = "request.created" /\ Linked(rlog[n].resource) = {}
          THEN \E h \in Rows :
                 /\ homeRow[h] = "absent" /\ \A k \in 1 .. h - 1 : homeRow[k] # "absent"
                 /\ homeRow' = [homeRow EXCEPT ![h] = "pending"]
                 /\ handler' = [handler EXCEPT ![c].pc = "linkRequest", ![c].row = h]
          ELSE /\ handler' = [handler EXCEPT ![c].page = @ \ {n}]
               /\ UNCHANGED homeRow
    /\ UNCHANGED <<remoteVars, link, remoteCursor, unlinked, spent>>

(* Then its link.  A remote resource has one link: a second is an error,    *)
(* which ends the read before its cursor is stored.                         *)
MirrorLink(c) ==
    /\ At(c, "linkRequest")
    /\ LET n == Earliest(handler[c].page)
       IN IF Linked(rlog[n].resource) = {}
          THEN /\ link' = [link EXCEPT ![handler[c].row] = rlog[n].resource]
               /\ handler' = [handler EXCEPT ![c].pc = "mirror", ![c].page = @ \ {n}]
          ELSE Return(c) /\ UNCHANGED link
    /\ UNCHANGED <<remoteVars, homeRow, remoteCursor, unlinked, spent>>

ReadCursor(c) ==
    /\ At(c, "mirror") /\ handler[c].page = {}
    /\ remoteCursor' = handler[c].cursor
    /\ Return(c)
    /\ UNCHANGED <<remoteVars, homeRow, link, unlinked, spent>>

Read(c) == ReadAnswered(c) \/ MirrorRequest(c) \/ MirrorLink(c) \/ ReadCursor(c)
-----------------------------------------------------------------------------
(* Broker::resolve_request for a row of the inbox: forwarded if it has a    *)
(* link, then stored here.  A row without one is decided here alone.        *)
ResolveBegin(c) ==
    /\ At(c, "idle")
    /\ \E h \in Rows, d \in Decisions :
         /\ homeRow[h] = "pending"
         /\ handler' = [handler EXCEPT ![c] = [Idle EXCEPT !.row = h, !.decision = d,
                        !.pc = IF link[h] = None THEN "store" ELSE "resolve"]]
         /\ unlinked' = IF link[h] = None THEN unlinked \cup {h} ELSE unlinked
    /\ UNCHANGED <<remoteVars, homeVars, spent>>

ResolveForwarded(c) ==
    /\ At(c, "resolve")
    /\ RemoteResolve(link[handler[c].row], handler[c].decision)
    /\ Go(c, "store")
    /\ UNCHANGED <<homeVars, unlinked, spent>>

\* Mutant: a decision that could not be forwarded is stored all the same.
ResolveFailsStored(c) ==
    /\ At(c, "resolve")
    /\ Lose
    /\ RemoteResolve(link[handler[c].row], handler[c].decision) \/ UNCHANGED remoteVars
    /\ Go(c, "store")
    /\ UNCHANGED <<homeVars, unlinked>>

(* The call fails, before or after the remote broker has done its work.     *)
ResolveFails(c) ==
    /\ At(c, "resolve")
    /\ Lose
    /\ RemoteResolve(link[handler[c].row], handler[c].decision) \/ UNCHANGED remoteVars
    /\ Return(c)
    /\ UNCHANGED <<homeVars, unlinked>>

(* The foreground's own decision is stored, whatever the reply said.        *)
ResolveStore(c) ==
    /\ At(c, "store")
    /\ homeRow' = IF homeRow[handler[c].row] = "pending"
              THEN [homeRow EXCEPT ![handler[c].row] = handler[c].decision] ELSE homeRow
    /\ Return(c)
    /\ UNCHANGED <<remoteVars, link, remoteCursor, unlinked, spent>>

Resolve(c) == ResolveForwarded(c) \/ ResolveStore(c)
-----------------------------------------------------------------------------
(* The home broker stops between two store calls and starts again.          *)
CrashAndRestart ==
    /\ spent.crashes < MaxCrashes
    /\ spent' = [spent EXCEPT !.crashes = @ + 1]
    /\ handler' = [c \in Callers |-> Idle]
    /\ UNCHANGED <<remoteVars, homeVars, unlinked>>

RequestNext ==
    \/ \E r \in Requests : RemoteAsks(r) \/ RemoteExpires(r)
    \/ \E c \in Callers :
         \/ Read(c) \/ Resolve(c)
         \/ ReadBegin(c) \/ ResolveBegin(c) \/ ReadFails(c) \/ ResolveFails(c)
    \/ CrashAndRestart

(* A started call goes on to its return, and a foreground that has nothing  *)
(* else to do reads again.  Nothing else need happen.                       *)
RequestSpec ==
    /\ RequestInit /\ [][RequestNext]_requestVars
    /\ \A c \in Callers : WF_requestVars(Read(c) \/ Resolve(c) \/ ReadBegin(c))
-----------------------------------------------------------------------------
Undecided == {"absent", "pending"}
Status == Undecided \cup Decisions \cup {"cancel"}

RequestTypeOK ==
    /\ rlog \in Seq([resource : Requests, parent : {"turn", "session"},
                     type : {"request.created", "request.resolved"}])
    /\ req \in [Requests -> Status]
    /\ homeRow \in [Rows -> Undecided \cup Decisions]
    /\ link \in [Rows -> Requests \cup {None}]
    /\ remoteCursor \in 0 .. Len(rlog) /\ unlinked \subseteq Rows
    /\ \A c \in Callers :
         /\ handler[c].pc \in {"idle", "read", "mirror", "linkRequest", "resolve", "store"}
         /\ handler[c].page \subseteq DOMAIN rlog /\ handler[c].cursor \in 0 .. Len(rlog)
         /\ handler[c].row \in Rows \cup {0} /\ handler[c].decision \in Decisions \cup {"none"}
    /\ spent \in [crashes : 0 .. MaxCrashes, lost : 0 .. MaxLost]

(* "Request resolution ... forwarding when the local resource has a remote  *)
(* link": a row that is shown as decided has its decision, or an earlier or  *)
(* the deadline's, at the remote broker too, however many calls overlap,     *)
(* whatever replies are lost and wherever the home broker crashes.  Nothing  *)
(* is claimed of a row that a decision found without a link (unlinked): in   *)
(* the time between the row and its link, or after a crash or an error in    *)
(* between.  It is decided here alone and its agent goes on waiting.  Nor is *)
(* the decision the same at both ends: the reply, which says what stands     *)
(* there, is discarded.                                                      *)
DecidedThere ==
    \A h \in Rows \ unlinked :
        homeRow[h] \notin Undecided => link[h] # None /\ req[link[h]] \notin Undecided

(* "Update ... request state from mirrored remote events": a request that   *)
(* goes on waiting at the remote broker reaches the home inbox, linked,     *)
(* through errors, lost replies and crashes.  One raised under a turn does  *)
(* not: its event is two levels below the session that the read asks for.   *)
RequestReachesInbox ==
    \A r \in Requests :
        Parent[r] = "session" /\ req[r] = "pending"
            ~> Linked(r) # {} \/ req[r] # "pending"

=============================================================================
