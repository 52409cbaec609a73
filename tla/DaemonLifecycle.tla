--------------------------- MODULE DaemonLifecycle ---------------------------
(***************************************************************************)
(* One state directory and the processes that meet in it: clients          *)
(* (`singleton start`, `serve --stdio`) that want a daemon to be running,   *)
(* daemons (`serve --daemon`) they spawn or the user runs by hand, and      *)
(* `singleton stop`.  They share three files: a socket, a pid file, and a   *)
(* file whose flock serializes start-up.  Every process works on them call  *)
(* by call, and may die between two calls; the kernel then drops its flock  *)
(* and its listener, and leaves the files.                                  *)
(*                                                                         *)
(* A daemon's id stands for its process and pid; the kernel does not reuse  *)
(* pids here.  What the daemon serves is TurnLifecycle; its start-up call   *)
(* into the store is the step Recover.                                      *)
(***************************************************************************)
EXTENDS Naturals, FiniteSets

CONSTANTS
    Clients, Daemons, Stops,   \* processes
    Past,         \* daemons of the past, whose files may still be there
    Impatient,    \* clients that may reach the 10 s deadline, or be killed, while they wait
    StopsApart    \* assumption on the user: nobody starts while somebody stops

ASSUME DaemonAssumption ==
    /\ Clients \cap Daemons = {}
    /\ {"none", "empty"} \cap (Clients \cup Daemons) = {}
    /\ Past \subseteq Daemons /\ Impatient \subseteq Clients
    /\ StopsApart \in BOOLEAN

VARIABLES
    lock,        \* who holds the flock, or "none"
    socketFile,  \* the daemon whose socket the path leads to, dead or alive, or "none"
    pidFile,     \* the daemon it names, "empty", or "none"
    client,      \* client[c]: where c is in ensure_daemon_running
    child,       \* child[c]: the daemon c spawned last
    daemon,      \* daemon[d]: where d is
    keeper,      \* keeper[d]: the client that holds the flock for d, or "none"
    stop,        \* stop[s]: where s is
    target,      \* target[s]: the pid that s has signalled
    saw,         \* saw[p]: the socket as the client or stop p last saw it
    orphans      \* daemons whose client gave up on them while they started (history)

files == <<lock, socketFile, pidFile>>
clientVars == <<client, child>>
daemonVars == <<daemon, keeper>>
stopVars == <<stop, target>>
vars == <<files, clientVars, daemonVars, stopVars, saw, orphans>>

Waiting == {"waitSocket", "waitPid"}
Binding == {"check", "unlink", "bind", "truncate", "write"}
Listens == {"truncate", "write", "serve"}
Starting == {"recover", "lock"} \cup Binding
Alive == Starting \cup {"serve"}

Ready == socketFile \in Daemons /\ daemon[socketFile] \in Listens
SocketState == IF Ready THEN "listening" ELSE IF socketFile = "none" THEN "missing" ELSE "stale"
PidState ==
    IF pidFile \notin Daemons THEN IF pidFile = "none" THEN "missing" ELSE "invalid"
    ELSE IF daemon[pidFile] \in Alive THEN "alive" ELSE "dead"

DaemonState(pid, socket) ==
    IF pid = "alive" THEN IF socket = "listening" THEN "running" ELSE "degraded"
    ELSE IF socket = "listening" THEN "degraded"
    ELSE IF pid = "missing" THEN IF socket = "missing" THEN "stopped" ELSE "stale socket"
    ELSE IF socket = "missing" THEN "stale pid" ELSE "stale pid and socket"

StartInProgress ==
    (\E c \in Clients : client[c] # "idle") \/ (\E d \in Daemons : daemon[d] \in Starting)
StopInProgress == \E s \in Stops : stop[s] # "idle"

Init ==
    /\ lock = "none"
    /\ socketFile \in Past \cup {"none"}
    /\ pidFile \in Past \cup {"none", "empty"}
    /\ client = [c \in Clients |-> "idle"]
    /\ child = [c \in Clients |-> "none"]
    /\ daemon = [d \in Daemons |-> IF d \in Past THEN "ended" ELSE "unborn"]
    /\ keeper = [d \in Daemons |-> "none"]
    /\ stop = [s \in Stops |-> "idle"]
    /\ target = [s \in Stops |-> "none"]
    /\ saw = [p \in Clients \cup Stops |-> "missing"]
    /\ orphans = {}
-----------------------------------------------------------------------------
(* Clients: ensure_daemon_running.                                         *)

ClientBegin(c) ==
    /\ client[c] = "idle"
    /\ StopsApart => ~StopInProgress
    /\ client' = [client EXCEPT ![c] = IF Ready THEN "idle" ELSE "lock"]
    /\ UNCHANGED <<files, child, daemonVars, stopVars, saw, orphans>>

ClientLocks(c) ==
    /\ client[c] = "lock" /\ lock = "none"
    /\ lock' = c
    /\ client' = [client EXCEPT ![c] = "recheck"]
    /\ UNCHANGED <<socketFile, pidFile, child, daemonVars, stopVars, saw, orphans>>

\* With Ok or an error; the lock guard is dropped with the call.
ClientEnds(c) ==
    /\ client' = [client EXCEPT ![c] = "idle"]
    /\ child' = [child EXCEPT ![c] = "none"]
    /\ saw' = [saw EXCEPT ![c] = "missing"]
    /\ lock' = IF lock = c THEN "none" ELSE lock
    /\ UNCHANGED <<socketFile, pidFile, daemonVars, stopVars>>

\* Mutant: the lock's owner does not look again.
RecheckNothing(c) ==
    /\ client[c] = "recheck"
    /\ client' = [client EXCEPT ![c] = "spawn"]
    /\ UNCHANGED <<files, child, daemonVars, stopVars, saw, orphans>>

Recheck(c) ==
    /\ client[c] = "recheck"
    /\ UNCHANGED orphans
    /\ \/ Ready /\ ClientEnds(c)
       \/ /\ ~Ready
          /\ client' = [client EXCEPT ![c] = "spawn"]
          /\ UNCHANGED <<files, child, daemonVars, stopVars, saw>>

Spawn(c) ==
    /\ client[c] = "spawn"
    /\ \E d \in Daemons :
         /\ daemon[d] = "unborn"
         /\ daemon' = [daemon EXCEPT ![d] = "recover"]
         /\ keeper' = [keeper EXCEPT ![d] = c]
         /\ child' = [child EXCEPT ![c] = d]
    /\ client' = [client EXCEPT ![c] = "waitSocket"]
    /\ UNCHANGED <<files, stopVars, saw, orphans>>

SpawnFails(c) == client[c] = "spawn" /\ ClientEnds(c) /\ UNCHANGED orphans

\* inspect_daemon looks at the socket first, and at the pid file after that.
SeeSocket(c) ==
    /\ client[c] = "waitSocket"
    /\ saw' = [saw EXCEPT ![c] = SocketState]
    /\ client' = [client EXCEPT ![c] = "waitPid"]
    /\ UNCHANGED <<files, child, daemonVars, stopVars, orphans>>

Running(c) == DaemonState(PidState, saw[c]) = "running"

\* Mutant: the child's end is not looked at.
SeePidOnly(c) ==
    /\ client[c] = "waitPid"
    /\ UNCHANGED orphans
    /\ \/ Running(c) /\ ClientEnds(c)
       \/ /\ ~Running(c)
          /\ client' = [client EXCEPT ![c] = "waitSocket"]
          /\ UNCHANGED <<files, child, daemonVars, stopVars, saw>>

SeePid(c) ==
    /\ client[c] = "waitPid"
    /\ UNCHANGED orphans
    /\ \/ Running(c) /\ ClientEnds(c)
       \/ ~Running(c) /\ daemon[child[c]] = "ended" /\ ClientEnds(c)
       \/ /\ ~Running(c) /\ daemon[child[c]] # "ended"
          /\ client' = [client EXCEPT ![c] = "waitSocket"]
          /\ UNCHANGED <<files, child, daemonVars, stopVars, saw>>

\* The child lives on, in a process group of its own, and still believes that
\* the flock is held for it.
GiveUp(c) ==
    /\ c \in Impatient /\ client[c] \in Waiting
    /\ orphans' = IF daemon[child[c]] \in Starting THEN orphans \cup {child[c]} ELSE orphans
    /\ ClientEnds(c)
-----------------------------------------------------------------------------
(* Daemons: run_backend, run_daemon_server and bind_daemon_listener.       *)

Goto(d, pc) == daemon' = [daemon EXCEPT ![d] = pc]
Release(d) == lock' = IF lock = d THEN "none" ELSE lock
DaemonEnds(d) ==
    /\ Goto(d, "ended") /\ Release(d)
    /\ keeper' = [keeper EXCEPT ![d] = "none"]

\* serve --daemon by hand.
Launch(d) ==
    /\ daemon[d] = "unborn"
    /\ StopsApart => ~StopInProgress
    /\ Goto(d, "recover")
    /\ UNCHANGED <<files, clientVars, keeper, stopVars, saw, orphans>>

\* Mutant: a daemon that is run by hand takes no lock either.
RecoverUnlocked(d) ==
    /\ daemon[d] = "recover"
    /\ Goto(d, "check")
    /\ UNCHANGED <<files, clientVars, keeper, stopVars, saw, orphans>>

\* Opens the store, and recovers it: Broker::new_with_reconnect.
Recover(d) ==
    /\ daemon[d] = "recover"
    /\ Goto(d, IF keeper[d] = "none" THEN "lock" ELSE "check")
    /\ UNCHANGED <<files, clientVars, keeper, stopVars, saw, orphans>>

DaemonLocks(d) ==
    /\ daemon[d] = "lock" /\ lock = "none"
    /\ lock' = d
    /\ Goto(d, "check")
    /\ UNCHANGED <<socketFile, pidFile, clientVars, keeper, stopVars, saw, orphans>>

\* Mutant: whatever is at the socket's path is stale.
CheckNothing(d) ==
    /\ daemon[d] = "check"
    /\ Goto(d, "unlink")
    /\ UNCHANGED <<files, clientVars, keeper, stopVars, saw, orphans>>

CheckSocket(d) ==
    /\ daemon[d] = "check"
    /\ \/ Ready /\ DaemonEnds(d)
       \/ ~Ready /\ Goto(d, "unlink") /\ UNCHANGED <<lock, keeper>>
    /\ UNCHANGED <<socketFile, pidFile, clientVars, stopVars, saw, orphans>>

RemoveStaleSocket(d) ==
    /\ daemon[d] = "unlink"
    /\ socketFile' = "none"
    /\ Goto(d, "bind")
    /\ UNCHANGED <<lock, pidFile, clientVars, keeper, stopVars, saw, orphans>>

\* bind(2) refuses a path that exists.
Bind(d) ==
    /\ daemon[d] = "bind"
    /\ \/ socketFile # "none" /\ DaemonEnds(d) /\ UNCHANGED socketFile
       \/ /\ socketFile = "none" /\ socketFile' = d
          /\ Goto(d, "truncate") /\ UNCHANGED <<lock, keeper>>
    /\ UNCHANGED <<pidFile, clientVars, stopVars, saw, orphans>>

TruncatePid(d) ==
    /\ daemon[d] = "truncate"
    /\ pidFile' = "empty"
    /\ Goto(d, "write")
    /\ UNCHANGED <<lock, socketFile, clientVars, keeper, stopVars, saw, orphans>>

WritePid(d) ==
    /\ daemon[d] = "write"
    /\ pidFile' = d
    /\ Goto(d, "serve") /\ Release(d)
    /\ UNCHANGED <<socketFile, clientVars, keeper, stopVars, saw, orphans>>

\* By an error, a signal or a crash; nothing is cleaned up.
DaemonDies(d) ==
    /\ daemon[d] \in Alive
    /\ DaemonEnds(d)
    /\ UNCHANGED <<socketFile, pidFile, clientVars, stopVars, saw, orphans>>
-----------------------------------------------------------------------------
(* singleton stop.  It takes no lock.                                      *)

StopGoto(s, pc) == stop' = [stop EXCEPT ![s] = pc]
Forget(s) == saw' = [saw EXCEPT ![s] = "missing"]

StopSeesSocket(s) ==
    /\ stop[s] = "idle"
    /\ StopsApart => ~StartInProgress
    /\ saw' = [saw EXCEPT ![s] = SocketState]
    /\ StopGoto(s, "pid")
    /\ UNCHANGED <<files, clientVars, daemonVars, target, orphans>>

\* SIGTERM for a live pid; a live socket without one is not touched.
StopSeesPid(s) ==
    /\ stop[s] = "pid"
    /\ Forget(s)
    /\ \/ PidState = "alive" /\ StopGoto(s, "await") /\ target' = [target EXCEPT ![s] = pidFile]
       \/ /\ PidState # "alive"
          /\ StopGoto(s, IF saw[s] = "listening" THEN "idle" ELSE "removePid")
          /\ UNCHANGED target
    /\ UNCHANGED <<files, clientVars, daemonVars, orphans>>

\* Mutant: the process's end is not awaited.
StopDoesNotAwait(s) ==
    /\ stop[s] = "await"
    /\ StopGoto(s, "removePid")
    /\ target' = [target EXCEPT ![s] = "none"]
    /\ UNCHANGED <<files, clientVars, daemonVars, saw, orphans>>

\* Polls for the end of the process; after five seconds it reports an error.
StopAwaits(s) ==
    /\ stop[s] = "await"
    /\ StopGoto(s, IF daemon[target[s]] = "ended" THEN "removePid" ELSE "idle")
    /\ target' = [target EXCEPT ![s] = "none"]
    /\ UNCHANGED <<files, clientVars, daemonVars, saw, orphans>>

StopRemovesPid(s) ==
    /\ stop[s] = "removePid"
    /\ pidFile' = "none"
    /\ StopGoto(s, "removeSocket")
    /\ UNCHANGED <<lock, socketFile, clientVars, daemonVars, target, saw, orphans>>

StopRemovesSocket(s) ==
    /\ stop[s] = "removeSocket"
    /\ socketFile' = "none"
    /\ StopGoto(s, "idle")
    /\ UNCHANGED <<lock, pidFile, clientVars, daemonVars, target, saw, orphans>>
-----------------------------------------------------------------------------
ClientStep(c) ==
    ClientLocks(c) \/ Recheck(c) \/ Spawn(c) \/ SpawnFails(c) \/ SeeSocket(c) \/ SeePid(c)
DaemonStep(d) ==
    \/ Recover(d) \/ DaemonLocks(d) \/ CheckSocket(d) \/ RemoveStaleSocket(d)
    \/ Bind(d) \/ TruncatePid(d) \/ WritePid(d)
StopStep(s) ==
    \/ StopSeesSocket(s) \/ StopSeesPid(s) \/ StopAwaits(s)
    \/ StopRemovesPid(s) \/ StopRemovesSocket(s)

Next ==
    \/ \E c \in Clients : ClientBegin(c) \/ ClientStep(c) \/ GiveUp(c)
    \/ \E d \in Daemons : Launch(d) \/ DaemonStep(d) \/ DaemonDies(d)
    \/ \E s \in Stops : StopStep(s)

(* The processes run; flock wakes its waiters, if not in turn.  Nobody has  *)
(* to begin anything, and nothing has to die.                               *)
Fairness ==
    /\ \A c \in Clients : SF_vars(ClientStep(c))
    /\ \A d \in Daemons : SF_vars(DaemonStep(d))
Spec == Init /\ [][Next]_vars /\ Fairness
-----------------------------------------------------------------------------
TypeOK ==
    /\ lock \in Clients \cup Daemons \cup {"none"}
    /\ socketFile \in Daemons \cup {"none"}
    /\ pidFile \in Daemons \cup {"none", "empty"}
    /\ client \in [Clients -> Waiting \cup {"idle", "lock", "recheck", "spawn"}]
    /\ child \in [Clients -> Daemons \cup {"none"}]
    /\ daemon \in [Daemons -> Alive \cup {"unborn", "ended"}]
    /\ keeper \in [Daemons -> Clients \cup {"none"}]
    /\ stop \in [Stops -> {"idle", "pid", "await", "removePid", "removeSocket"}]
    /\ target \in [Stops -> Daemons \cup {"none"}]
    /\ saw \in [Clients \cup Stops -> {"listening", "stale", "missing"}]
    /\ orphans \subseteq Daemons

(* "Daemon startup is serialized per state database": as long as no client  *)
(* has given up on a daemon that was still starting, no two daemons are     *)
(* between the check of the socket and the end of the write of the pid      *)
(* file, although one of them may hold no flock itself and rely on the      *)
(* client that spawned it.                                                  *)
BindingIsExclusive ==
    orphans = {} => \A d, e \in Daemons :
        daemon[d] \in Binding /\ daemon[e] \in Binding => d = e

(* ... a daemon that serves can be found: the socket path leads to it, the  *)
(* pid file names it, and status says "running".  So no two of them serve.  *)
ServingDaemonIsReachable ==
    orphans = {} => \A d \in Daemons : daemon[d] = "serve" =>
        /\ socketFile = d /\ pidFile = d
        /\ DaemonState(PidState, SocketState) = "running"

(* ... a daemon that a client has spawned recovers the store while no       *)
(* daemon serves it, so it fails nobody's running turns.  (One that is run  *)
(* by hand recovers first and looks for another daemon later.)              *)
SpawnedRecoveryIsAlone ==
    [][\A d \in Daemons :
         orphans = {} /\ daemon[d] = "recover" /\ daemon'[d] = "check" =>
            \A e \in Daemons : daemon[e] # "serve"]_vars

(* ... when stop has reported success, there is no daemon and no file left. *)
StopLeavesNothing ==
    [][\A s \in Stops :
         orphans = {} /\ stop[s] = "removeSocket" /\ stop'[s] = "idle" =>
            /\ socketFile' = "none" /\ pidFile' = "none"
            /\ \A d \in Daemons : daemon'[d] \notin Alive]_vars

(* ... and whoever asks for a daemon gets an answer without the help of the *)
(* deadline, whichever clients and daemons queue for the lock, and die.     *)
StartEnds == \A c \in Clients : client[c] # "idle" ~> client[c] = "idle" \/ orphans # {}
=============================================================================
