----------------------------- MODULE RemoteHosts -----------------------------
(***************************************************************************)
(* The registry of SSH hosts (singleton-remote): the health of each host as *)
(* the process knows it and as the store remembers it, and the calls that   *)
(* change it.  A call spawns ssh, initializes the remote broker, calls one  *)
(* tool, and waits for ssh to go.  Calls to one host may overlap; after     *)
(* start-up a warm-up calls every host in turn.                             *)
(*                                                                         *)
(* The hosts are those that Configuration resolves.  What the tools do is   *)
(* RemoteFederation; here a call succeeds or fails.  The remote end may be  *)
(* silent, answer, or answer with an error, as it likes.                    *)
(***************************************************************************)
EXTENDS Configuration

CONSTANTS
    HostIds,
    Callers,       \* foreground calls that may run at the same time
    Warmup,        \* the task that warm-up runs in
    Inputs,        \* what the process may find when it starts: see Configuration
    MaxRestarts    \* bound: restarts of the process

ASSUME RegistryAssumption ==
    /\ Warmup \notin Callers /\ MaxRestarts \in Nat /\ Unset \notin HostIds
    /\ \A o \in Inputs : Findable(o) /\ (Loads(o) => SshHosts(Load(o)) \subseteq HostIds)

VARIABLES
    inputs,     \* {o} while the process has yet to read what it finds, then {}
    hosts,      \* the configured SSH hosts; {} while there is no registry
    health,     \* health[h]: the registry's cache
    stored,     \* stored[h]: the row of remote_host_health
    call,       \* call[c]: where c's call is, its host, its outcome, what it writes next
    toWarm,     \* hosts the warm-up has yet to call
    alone,      \* hosts whose last call overlapped no other and was stored (history)
    restarts

config == <<inputs, hosts, restarts>>
vars == <<config, health, stored, call, toWarm, alone>>

Tasks == Callers \cup {Warmup}
NotChecked == [state |-> "not_checked", capabilities |-> FALSE]
NoCall == [pc |-> "idle", host |-> Unset, ok |-> FALSE, row |-> NotChecked]

InFlight(h) == {c \in Tasks : call[c].pc # "idle" /\ call[c].host = h}

Init ==
    /\ \E o \in Inputs : inputs = {o}
    /\ hosts = {} /\ toWarm = {} /\ alone = {} /\ restarts = 0
    /\ health = [h \in HostIds |-> NotChecked]
    /\ stored = [h \in HostIds |-> NotChecked]
    /\ call = [c \in Tasks |-> NoCall]

\* from_effective_config_with_store, and spawn_remote_warmup.  A process that
\* cannot load its configuration ends; without SSH hosts there is no registry.
Start ==
    /\ \E o \in inputs : Loads(o) /\ hosts' = SshHosts(Load(o))
    /\ inputs' = {} /\ toWarm' = hosts'
    /\ UNCHANGED <<health, stored, call, alone, restarts>>

\* The process and its calls end, and it comes back: the cache starts anew,
\* whatever the store remembers.
Restart ==
    /\ hosts # {} /\ restarts < MaxRestarts
    /\ restarts' = restarts + 1
    /\ health' = [h \in HostIds |-> NotChecked]
    /\ call' = [c \in Tasks |-> NoCall]
    /\ toWarm' = hosts /\ alone' = {}
    /\ UNCHANGED <<inputs, hosts, stored>>

\* set_health under the registry's mutex; the clone it returns is stored after
\* the mutex is released.
Updated(h, state, capabilities) ==
    [state |-> state, capabilities |-> health[h].capabilities \/ capabilities]

Begin(c, h) ==
    /\ LET row == Updated(h, "connecting", FALSE) IN
         /\ health' = [health EXCEPT ![h] = row]
         /\ call' = [call EXCEPT ![c] = [pc |-> "storeConnecting", host |-> h,
                                         ok |-> FALSE, row |-> row]]
    /\ alone' = IF InFlight(h) = {} THEN alone \cup {h} ELSE alone \ {h}

CallTool(c, h) ==
    /\ call[c].pc = "idle" /\ h \in hosts
    /\ Begin(c, h)
    /\ UNCHANGED <<config, stored, toWarm>>

\* warmup_all: get_capabilities of one host after the other, in the order of
\* their ids.  Nobody else calls get_capabilities.
WarmupNext ==
    /\ call[Warmup].pc = "idle" /\ toWarm # {}
    /\ \E h \in toWarm :
         /\ Begin(Warmup, h)
         /\ toWarm' = toWarm \ {h}
    /\ UNCHANGED <<config, stored>>

\* upsert_remote_host_health; its error is ignored.
Store(c, from, to) ==
    /\ call[c].pc = from
    /\ call' = [call EXCEPT ![c] = IF to = "idle" THEN NoCall
                                     ELSE [@ EXCEPT !.pc = to, !.row = NotChecked]]
    /\ \/ /\ stored' = [stored EXCEPT ![call[c].host] = call[c].row]
          /\ UNCHANGED alone
       \/ /\ alone' = alone \ {call[c].host}
          /\ UNCHANGED stored
    /\ UNCHANGED <<config, health, toWarm>>
StoreConnecting(c) == Store(c, "storeConnecting", "initialize")
StoreOutcome(c) == Store(c, "storeOutcome", "idle")

Goto(c, pc, ok) ==
    /\ call' = [call EXCEPT ![c] = [@ EXCEPT !.pc = pc, !.ok = ok]]
    /\ UNCHANGED <<config, health, stored, toWarm, alone>>

\* ssh is spawned, and the remote broker answers "initialize".
Initialized(c) == call[c].pc = "initialize" /\ Goto(c, "tool", FALSE)
\* It answers the tool call with a payload, or with an error.
Answered(c, ok) == call[c].pc = "tool" /\ Goto(c, "drain", ok)
\* Mutant: an error returns without a verdict on the host.
FailsUnreported(c) == call[c].pc \in {"initialize", "tool"} /\ Goto(c, "storeOutcome", FALSE)
\* Mutant: only the answer to "initialize" is awaited with a time-out.
FailsToInitialize(c) == call[c].pc = "initialize" /\ Goto(c, "report", FALSE)

\* ssh cannot be spawned, says something else than JSON, closes its output, or
\* says nothing for 20 or 30 seconds.
Fails(c) == call[c].pc \in {"initialize", "tool"} /\ Goto(c, "report", FALSE)
\* The call waits two seconds for ssh, and then for the end of its stderr,
\* which is the end of ssh.
SshExits(c) == call[c].pc = "drain" /\ Goto(c, "report", call[c].ok)

\* Mutant: the row to store is not taken from the entry.
ReportUnstored(c) ==
    /\ call[c].pc = "report"
    /\ LET h == call[c].host IN
         health' = [health EXCEPT ![h] =
                      Updated(h, IF call[c].ok THEN "available" ELSE "unavailable",
                              call[c].ok /\ c = Warmup)]
    /\ call' = [call EXCEPT ![c] = [@ EXCEPT !.pc = "storeOutcome"]]
    /\ UNCHANGED <<config, stored, toWarm, alone>>

\* The payload of get_capabilities may not be one.
Report(c) ==
    /\ call[c].pc = "report"
    /\ \E parsed \in BOOLEAN :
        LET h == call[c].host
            row == Updated(h, IF call[c].ok THEN "available" ELSE "unavailable",
                           call[c].ok /\ c = Warmup /\ parsed)
        IN /\ health' = [health EXCEPT ![h] = row]
           /\ call' = [call EXCEPT ![c] = [@ EXCEPT !.pc = "storeOutcome", !.row = row]]
    /\ UNCHANGED <<config, stored, toWarm, alone>>

\* A call goes on without the remote end's help, but for the end of ssh.
Proceed(c) == StoreConnecting(c) \/ Fails(c) \/ SshExits(c) \/ Report(c) \/ StoreOutcome(c)

Next ==
    \/ Start \/ Restart \/ WarmupNext
    \/ \E c \in Callers, h \in HostIds : CallTool(c, h)
    \/ \E c \in Tasks :
         Proceed(c) \/ Initialized(c) \/ \E ok \in BOOLEAN : Answered(c, ok)

(* Tasks run and timeouts pass.  That ssh exits when its input is closed is *)
(* what `serve --stdio` does at the other end; nothing else is asked of it.  *)
Spec == Init /\ [][Next]_vars /\ WF_vars(WarmupNext) /\ \A c \in Tasks : WF_vars(Proceed(c))
-----------------------------------------------------------------------------
\* What hosts() lists for a configured host.
HostStatus(h) ==
    CASE health[h].state = "not_checked" -> "not_checked"
      [] health[h].state = "connecting" -> "checking"
      [] health[h].state = "available" -> "ready"
      [] health[h].state = "unavailable" -> "unavailable"

Health == [state : {"not_checked", "connecting", "available", "unavailable"},
           capabilities : BOOLEAN]
TypeOK ==
    /\ hosts \subseteq HostIds /\ toWarm \subseteq hosts /\ alone \subseteq HostIds
    /\ health \in [HostIds -> Health] /\ stored \in [HostIds -> Health]
    /\ call \in [Tasks -> [pc : {"idle", "storeConnecting", "initialize", "tool", "drain",
                                 "report", "storeOutcome"},
                           host : HostIds \cup {Unset}, ok : BOOLEAN, row : Health]]
    /\ restarts \in 0 .. MaxRestarts

(* Whatever the process finds: its settings are layered as documented, ...  *)
SettingsAreLayered == \A o \in inputs : Loads(o) => LayeredAs(o, Load(o))

(* ... a project's file does not lend a user's SSH command to other hosts,  *)
ProjectKeepsToPlainHosts == \A o \in inputs : Loads(o) => PlainOrTheUsers(o, Load(o))

(* ... and the daemon it spawns and the server it registers agree with it.  *)
ServersAgree == \A o \in inputs : Loads(o) => ServedAlike(o, Load(o))

(* A host is listed as "checking" only while somebody is: whichever step of *)
(* a call fails, and however calls overlap, the listing does not get stuck. *)
CheckingIsACall ==
    \A h \in hosts : HostStatus(h) = "checking" => InFlight(h) # {}

(* The row that `singleton status` prints is what the registry knows, once  *)
(* the last call to the host is over, unless that call overlapped another   *)
(* one to the host or could not be stored.  (Two overlapping calls may be   *)
(* stored in the other order.)                                              *)
StatusAgrees ==
    \A h \in hosts : h \in alone /\ InFlight(h) = {} => stored[h] = health[h]

(* After a start every configured host gets its verdict, ready or not,      *)
(* whether or not any remote end ever answers.                              *)
EveryHostIsChecked ==
    \A h \in HostIds :
        h \in hosts ~> h \notin hosts \/ HostStatus(h) \in {"ready", "unavailable"}
=============================================================================
